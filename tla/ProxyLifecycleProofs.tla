------------------------ MODULE ProxyLifecycleProofs ------------------------
(***************************************************************************)
(* Proofs about ProxyLifecycle, for any number of commands, processes,     *)
(* settings and polls.                                                     *)
(***************************************************************************)
EXTENDS ProxyLifecycle, TLAPS

-----------------------------------------------------------------------------
(* Types.                                                                  *)

LEMMA EnvsTyped ==
    /\ Empty \in Envs
    /\ \A e \in Envs : Adapt(e) \in [CaddyVars -> Values \cup {"true"}]
    /\ \A e \in Envs, s \in Settings, v \in Values : [e EXCEPT ![s] = v] \in Envs
<1>1. Unset \in Values  BY DEF Values
<1>2. Empty \in Envs  BY <1>1 DEF Empty, Envs
<1>3. \A e \in Envs : Adapt(e) \in [CaddyVars -> Values \cup {"true"}]
  BY CaddyVarsAssumption DEF Envs, Adapt, Effective
<1>4. \A e \in Envs, s \in Settings, v \in Values : [e EXCEPT ![s] = v] \in Envs
  BY DEF Envs
<1> QED  BY <1>2, <1>3, <1>4

LEMMA AskedTyped == Asked \subseteq Tasks
<1>1. \A ch \in Changes : ch[1] \in Settings /\ ch[2] \in Values
  BY ChangesAssumption DEF Values
<1>2. \A ch \in Changes : [do |-> "set", var |-> ch[1], val |-> ch[2]] \in Tasks
  BY <1>1 DEF Tasks, SetTasks
<1> QED  BY <1>2 DEF Asked, Tasks

LEMMA SetTask ==
    ASSUME NEW c \in Commands, task[c] \in SetTasks
    PROVE  /\ task[c].var \in Settings /\ task[c].val \in Values
           /\ task[c].do \in {"set", "setup"}
BY DEF SetTasks

LEMMA InitTypeOK == Init => TypeOK
<1> SUFFICES ASSUME Init PROVE TypeOK  OBVIOUS
<1>1. env \in Envs
  <2>1. Key \in Values /\ DataDir \in Values /\ Empty \in Envs  BY EnvsTyped DEF Values
  <2>2. [Empty EXCEPT !["LLM_API_KEY"] = Key, !["CADDY_DATA_DIR"] = DataDir] \in Envs
    BY <2>1 DEF Envs
  <2> QED  BY <2>1, <2>2 DEF Init
<1>2. has \in [Procs -> Envs] /\ conf \in [Procs -> [CaddyVars -> Values \cup {"true"}]]
  <2>1. has \in [Procs -> Envs]  BY <1>1, EnvsTyped DEF Init
  <2> QED  BY <2>1, EnvsTyped DEF Init
<1>3. [do |-> "logs"] \in Tasks  BY DEF Tasks
<1>4. 0 \in 0..Polls  BY PollsAssumption
<1>5. job \in Procs \cup {None}
  BY ProcsAssumption DEF Init
<1>6. /\ task \in [Commands -> Tasks] /\ copy \in [Commands -> Envs]
      /\ tries \in [Commands -> 0..Polls] /\ meant \in Envs
  BY <1>1, <1>3, <1>4, EnvsTyped DEF Init
<1> QED  BY <1>1, <1>2, <1>5, <1>6 DEF Init, TypeOK, PCs, Results

LEMMA GotoType ==
    ASSUME TypeOK, NEW c \in Commands, NEW l \in PCs, Goto(c, l)
    PROVE  pc' \in [Commands -> PCs]
BY DEF TypeOK, Goto

LEMMA FinishType ==
    ASSUME TypeOK, NEW c \in Commands, NEW r \in Results, Finish(c, r)
    PROVE  pc' \in [Commands -> PCs] /\ result' \in [Commands -> Results]
<1>1. "done" \in PCs  BY DEF PCs
<1> QED  BY <1>1, GotoType DEF TypeOK, Finish

LEMMA LoopType ==
    ASSUME TypeOK, NEW c \in Commands, NEW l \in PCs, Loop(c, l)
    PROVE  pc' \in [Commands -> PCs] /\ tries' \in [Commands -> 0..Polls]
<1>1. 0 \in 0..Polls  BY PollsAssumption
<1> QED  BY <1>1, GotoType DEF TypeOK, Loop

\* What the steps of setting, stopping and starting leave typed.
LEMMA CommandType ==
    ASSUME TypeOK, NEW c \in Commands, NEW t \in Asked, Command(c, t)
    PROVE  TypeOK'
<1>1. {"compare", "tailing", "reload", "ensure", "replace", "confirm", "status"} \subseteq PCs
  BY DEF PCs, Setting, Wizard, Removing
<1>2. pc' \in [Commands -> PCs]  BY <1>1 DEF TypeOK, Command, Goto
<1>3. task' \in [Commands -> Tasks]  BY AskedTyped DEF TypeOK, Command
<1>4. old' \in [Commands -> SUBSET Procs]  BY DEF TypeOK, Command, Alive
<1> QED  BY <1>2, <1>3, <1>4 DEF TypeOK, Command, proxies

LEMMA StatusType ==
    ASSUME TypeOK, NEW c \in Commands, Interrupt(c) \/ Status(c) \/ Pgrep(c)
    PROVE  TypeOK'
<1>1. /\ {"pgrep", "unload", "reload", "launch"} \subseteq PCs
      /\ {"interrupted", "running", "notRunning", "stopped"} \subseteq Results
  BY DEF PCs, Stopping, Starting, Results
<1>2. CASE Interrupt(c)  BY <1>1, <1>2, FinishType DEF TypeOK, Interrupt, proxies, history
<1>3. CASE Status(c)
  <2>1. pc' \in [Commands -> PCs] /\ result' \in [Commands -> Results]
    BY <1>1, <1>3, GotoType, FinishType DEF Status, TypeOK
  <2> QED  BY <1>3, <2>1 DEF TypeOK, Status, proxies, history
<1>4. CASE Pgrep(c)
  <2>1. pc' \in [Commands -> PCs] /\ result' \in [Commands -> Results]
    BY <1>1, <1>4, GotoType, FinishType DEF Pgrep, TypeOK
  <2> QED  BY <1>4, <2>1 DEF TypeOK, Pgrep, proxies, history
<1> QED  BY <1>2, <1>3, <1>4

LEMMA SetType ==
    ASSUME TypeOK, NEW c \in Commands, Set(c),
           pc[c] \in Setting => task[c] \in SetTasks
    PROVE  TypeOK'
<1>0. Empty \in Envs  BY EnvsTyped
<1>1. CASE Compare(c)
  BY <1>1 DEF TypeOK, Compare, Goto, Finish, PCs, Setting, Results, proxies, history
<1>2. CASE ReadEnv(c)
  <2>1. [env EXCEPT ![task[c].var] = task[c].val] \in Envs
    BY <1>2, SetTask, EnvsTyped DEF ReadEnv, Setting, TypeOK
  <2> QED  BY <1>2, <2>1 DEF TypeOK, ReadEnv, Goto, PCs, Setting, proxies
<1>3. CASE Truncate(c)
  <2>1. Discard(c) => copy' \in [Commands -> Envs]  BY <1>0 DEF Discard, TypeOK
  <2>2. env' \in Envs /\ copy' \in [Commands -> Envs]
    BY <1>0, <1>3, <2>1 DEF Truncate, TypeOK
  <2>3. pc' \in [Commands -> PCs] /\ result' \in [Commands -> Results]
    BY <1>3 DEF TypeOK, Truncate, Goto, Finish, PCs, Setting, Results
  <2> QED  BY <1>3, <2>2, <2>3 DEF TypeOK, Truncate, proxies, history
<1>4. CASE WriteEnv(c)
  <2>1. [meant EXCEPT ![task[c].var] = task[c].val] \in Envs
    BY <1>4, SetTask, EnvsTyped DEF WriteEnv, Setting, TypeOK
  <2>2. Alive \in SUBSET Procs  BY DEF Alive
  <2>3. env' \in Envs /\ meant' \in Envs /\ copy' \in [Commands -> Envs]
    <3>1. copy' \in [Commands -> Envs]  BY <1>0, <1>4 DEF WriteEnv, Discard, TypeOK
    <3>2. copy[c] \in Envs /\ env \in Envs /\ meant \in Envs  BY DEF TypeOK
    <3>3. env' \in {env, copy[c]}  BY <1>4 DEF WriteEnv
    <3>4. meant' \in {meant, [meant EXCEPT ![task[c].var] = task[c].val]}
      BY <1>4 DEF WriteEnv
    <3> QED  BY <2>1, <3>1, <3>2, <3>3, <3>4
  <2>4. pc' \in [Commands -> PCs] /\ result' \in [Commands -> Results]
    <3>1. {"status", "provider", "key", "service", "done"} \subseteq PCs /\ "failed" \in Results
      BY DEF PCs, Wizard, Results
    <3>2. AfterWrite(task[c]) \in PCs  BY <3>1 DEF AfterWrite
    <3> QED  BY <1>4, <3>1, <3>2 DEF TypeOK, WriteEnv, Goto, Finish
  <2>5. old' \in [Commands -> SUBSET Procs] /\ disturbed' \in BOOLEAN
    BY <1>4, <2>2 DEF TypeOK, WriteEnv
  <2> QED  BY <1>4, <2>3, <2>4, <2>5 DEF TypeOK, WriteEnv, proxies
<1> QED  BY <1>1, <1>2, <1>3, <1>4 DEF Set

LEMMA AgainType ==
    ASSUME TypeOK, NEW c \in Commands, Again(c), tries[c] < Polls
    PROVE  tries' \in [Commands -> 0..Polls]
BY PollsAssumption DEF TypeOK, Again

LEMMA RestartType ==
    ASSUME TypeOK, NEW c \in Commands, Restart(c)
    PROVE  TypeOK'
<1>1. CASE Reload(c)
  BY <1>1 DEF TypeOK, Reload, Goto, PCs, Stopping, proxies, history
<1>2. CASE Load(c)
  <2>1. conf' \in [Procs -> [CaddyVars -> Values \cup {"true"}]]
    <3>1. CASE UNCHANGED conf  BY <3>1 DEF TypeOK
    <3>2. ASSUME NEW p \in Procs, conf' = [conf EXCEPT ![p] = Adapt(has[p])]
          PROVE  conf' \in [Procs -> [CaddyVars -> Values \cup {"true"}]]
      <4>1. Adapt(has[p]) \in [CaddyVars -> Values \cup {"true"}]
        BY EnvsTyped DEF TypeOK
      <4> QED  BY <3>2, <4>1 DEF TypeOK
    <3> QED  BY <1>2, <3>1, <3>2 DEF Load
  <2> QED
    BY <1>2, <2>1 DEF TypeOK, Load, Goto, Finish, PCs, Stopping, Results, history
<1>3. CASE Drain(c)
  BY <1>3, AgainType
  DEF TypeOK, Drain, Again, Goto, PCs, Starting, proxies, history
<1> QED  BY <1>1, <1>2, <1>3 DEF Restart

LEMMA StoppedType ==
    ASSUME TypeOK, NEW c \in Commands, Stopped(c)
    PROVE  /\ pc' \in [Commands -> PCs] /\ result' \in [Commands -> Results]
           /\ tries' \in [Commands -> 0..Polls]
<1>1. 0 \in 0..Polls /\ {"done", "remove", "drain"} \subseteq PCs /\ "stopped" \in Results
  BY PollsAssumption DEF PCs, Starting, Removing, Results
<1>2. CASE task[c].do = "stop"
  <2>1. Finish(c, "stopped") /\ UNCHANGED tries  BY <1>2 DEF Stopped
  <2> QED  BY <1>1, <2>1, FinishType DEF TypeOK
<1>3. CASE task[c].do = "uninstall"
  <2>1. Goto(c, "remove") /\ UNCHANGED <<tries, result>>  BY <1>3 DEF Stopped
  <2> QED  BY <1>1, <2>1, GotoType DEF TypeOK
<1>4. CASE task[c].do \notin {"stop", "uninstall"}
  <2>1. Loop(c, "drain") /\ UNCHANGED result  BY <1>4 DEF Stopped
  <2> QED  BY <1>1, <2>1, LoopType DEF TypeOK
<1> QED  BY <1>2, <1>3, <1>4

LEMMA KillType ==
    ASSUME TypeOK, NEW c \in Commands, NEW l \in PCs, KillCommands(c, l)
    PROVE  /\ pc' \in [Commands -> PCs] /\ result' \in [Commands -> Results]
           /\ tries' \in [Commands -> 0..Polls] /\ disturbed' \in BOOLEAN
           /\ UNCHANGED <<env, files, task, copy, old, meant>>
<1>1. 0 \in 0..Polls  BY PollsAssumption
<1>2. "done" \in PCs /\ "killed" \in Results  BY DEF PCs, Results
<1> QED  BY <1>1, <1>2 DEF TypeOK, KillCommands

LEMMA StopType ==
    ASSUME TypeOK, NEW c \in Commands, Stop(c)
    PROVE  TypeOK'
<1>0. 0 \in 0..Polls /\ {"killRoot", "killed"} \subseteq PCs
  BY PollsAssumption DEF PCs, Stopping
<1>1. CASE Unload(c)
  BY <1>1 DEF TypeOK, Unload, Goto, PCs, Stopping, Wizard, Removing, history
<1>2. CASE AdminStop(c)
  BY <1>2 DEF TypeOK, AdminStop, Goto, PCs, Stopping, proxies, history
<1>3. CASE Post(c)
  <2>1. pc' \in [Commands -> PCs] /\ tries' \in [Commands -> 0..Polls]
    <3>1. Loop(c, "gone") \/ (Goto(c, "kill") /\ UNCHANGED tries)  BY <1>3 DEF Post
    <3>2. "gone" \in PCs /\ "kill" \in PCs  BY DEF PCs, Stopping
    <3>3. /\ pc \in [Commands -> PCs] /\ tries \in [Commands -> 0..Polls]
      BY DEF TypeOK
    <3>4. CASE Loop(c, "gone")
      BY <1>0, <3>2, <3>3, <3>4 DEF Loop, Goto
    <3>5. CASE Goto(c, "kill") /\ UNCHANGED tries
      BY <3>2, <3>3, <3>5 DEF Goto
    <3> QED  BY <3>1, <3>4, <3>5
  <2>2. proc' \in [Procs -> {None, "launched", "starting", "serving", "stopping"}]
    <3>1. \A p \in Procs :
            [proc EXCEPT ![p] = "stopping"]
              \in [Procs -> {None, "launched", "starting", "serving", "stopping"}]
      BY DEF TypeOK
    <3>2. proc' = proc \/ \E p \in Procs : proc' = [proc EXCEPT ![p] = "stopping"]
      BY <1>3 DEF Post
    <3> QED  BY <3>1, <3>2 DEF TypeOK
  <2> QED  BY <1>3, <2>1, <2>2 DEF TypeOK, Post, history
<1>4. CASE AwaitGone(c)
  <2>1. /\ pc' \in [Commands -> PCs] /\ result' \in [Commands -> Results]
        /\ tries' \in [Commands -> 0..Polls]
    BY <1>4, StoppedType, AgainType DEF AwaitGone, Again, Goto, TypeOK, PCs, Stopping
  <2> QED  BY <1>4, <2>1 DEF TypeOK, AwaitGone, proxies, history
<1>5. CASE Kill(c)
  <2>1. CASE ProcessSeen(c)
    <3>1. KillCommands(c, "killRoot") /\ UNCHANGED proxies  BY <1>5, <2>1 DEF Kill
    <3>2. /\ pc' \in [Commands -> PCs] /\ result' \in [Commands -> Results]
          /\ tries' \in [Commands -> 0..Polls] /\ disturbed' \in BOOLEAN
          /\ UNCHANGED <<env, files, task, copy, old, meant>>
      BY <1>0, <3>1, KillType
    <3> QED  BY <3>1, <3>2 DEF TypeOK, proxies
  <2>2. CASE ~ProcessSeen(c)
    <3>1. Loop(c, "killed") /\ UNCHANGED <<env, files, task, copy, result, history, proxies>>
      BY <1>5, <2>2 DEF Kill
    <3> QED  BY <1>0, <3>1, LoopType DEF TypeOK, proxies, history
  <2> QED  BY <2>1, <2>2
<1>6. CASE KillRoot(c)
  <2>1. CASE /\ KillCommands(c, "killed")
             /\ proc' = [p \in Procs |-> IF p \in Alive THEN "stopping" ELSE None]
    BY <1>0, <1>6, <2>1, KillType DEF TypeOK, KillRoot
  <2>2. CASE Loop(c, "killed") /\ UNCHANGED <<proc, env, files, task, copy, result, history>>
    BY <1>0, <1>6, <2>2 DEF TypeOK, KillRoot, Loop, Goto, history
  <2> QED  BY <1>6, <2>1, <2>2 DEF KillRoot
<1>7. CASE AwaitKilled(c)
  <2>1. /\ pc' \in [Commands -> PCs] /\ result' \in [Commands -> Results]
        /\ tries' \in [Commands -> 0..Polls]
    BY <1>7, StoppedType, AgainType
    DEF AwaitKilled, Again, Goto, Finish, TypeOK, PCs, Removing, Results
  <2> QED  BY <1>7, <2>1 DEF TypeOK, AwaitKilled, proxies, history
<1> QED  BY <1>1, <1>2, <1>3, <1>4, <1>5, <1>6, <1>7 DEF Stop

LEMMA SpawnType ==
    ASSUME TypeOK, NEW p \in Procs, Spawn(p)
    PROVE  /\ proc' \in [Procs -> {None, "launched", "starting", "serving", "stopping"}]
           /\ old' \in [Commands -> SUBSET Procs]
BY DEF TypeOK, Spawn

LEMMA StartType ==
    ASSUME TypeOK, NEW c \in Commands, Start(c)
    PROVE  TypeOK'
<1>0. 0 \in 0..Polls /\ {"kickstart", "up", "done"} \subseteq PCs /\ "failed" \in Results
  BY PollsAssumption DEF PCs, Starting, Results
<1>1. CASE Launch(c)
  <2>1. /\ pc' \in [Commands -> PCs] /\ tries' \in [Commands -> 0..Polls]
        /\ result' \in [Commands -> Results]
    BY <1>0, <1>1 DEF TypeOK, Launch, Loop, Goto, Finish
  <2>2. daemon' \in {"absent", "unloaded", "loaded", "orphaned"}  BY <1>1 DEF TypeOK, Launch
  <2>3. /\ proc' \in [Procs -> {None, "launched", "starting", "serving", "stopping"}]
        /\ old' \in [Commands -> SUBSET Procs]
    BY <1>1, SpawnType DEF TypeOK, Launch
  <2> QED  BY <1>1, <2>1, <2>2, <2>3 DEF TypeOK, Launch
<1>2. CASE Kickstart(c)
  <2>1. /\ pc' \in [Commands -> PCs] /\ tries' \in [Commands -> 0..Polls]
        /\ result' \in [Commands -> Results]
    <3>1. \/ Loop(c, "up") /\ UNCHANGED result
          \/ Finish(c, "failed") /\ UNCHANGED tries
      BY <1>2 DEF Kickstart
    <3>2. CASE Loop(c, "up") /\ UNCHANGED result
      BY <1>0, <3>2 DEF TypeOK, Loop, Goto
    <3>3. CASE Finish(c, "failed") /\ UNCHANGED tries
      BY <1>0, <3>3 DEF TypeOK, Finish, Goto
    <3> QED  BY <3>1, <3>2, <3>3
  <2>2. job' \in Procs \cup {None}  BY <1>2 DEF TypeOK, Kickstart
  <2>3. /\ proc' \in [Procs -> {None, "launched", "starting", "serving", "stopping"}]
        /\ old' \in [Commands -> SUBSET Procs]
    BY <1>2, SpawnType DEF TypeOK, Kickstart
  <2> QED  BY <1>2, <2>1, <2>2, <2>3 DEF TypeOK, Kickstart
<1>3. CASE AwaitUp(c)
  BY <1>3, AgainType
  DEF TypeOK, AwaitUp, Again, Goto, Finish, PCs, Results, proxies, history
<1> QED  BY <1>1, <1>2, <1>3 DEF Start

LEMMA ProxyType ==
    ASSUME TypeOK, NEW p \in Procs, Source(p) \/ Serve(p) \/ Exit(p)
    PROVE  TypeOK'
<1>1. CASE Source(p)  BY <1>1 DEF TypeOK, Source, history
<1>2. CASE Serve(p)  BY <1>2, EnvsTyped DEF TypeOK, Serve, history
<1>3. CASE Exit(p)  BY <1>3, EnvsTyped DEF TypeOK, Exit, history
<1> QED  BY <1>1, <1>2, <1>3

LEMMA SetupType ==
    ASSUME TypeOK, NEW c \in Commands, Setup(c)
    PROVE  TypeOK'
<1> USE DEF Goto, Finish, PCs, Wizard, Setting, Results
<1>0. \A ch \in Changes : ch[1] \in Settings /\ ch[2] \in Values
  BY ChangesAssumption DEF Values
<1>1. ASSUME NEW s \in Settings, NEW v \in Values, Rewrite(c, s, v)
      PROVE  task' \in [Commands -> Tasks] /\ pc' \in [Commands -> PCs]
  <2>1. [do |-> "setup", var |-> s, val |-> v] \in Tasks  BY DEF Tasks, SetTasks
  <2> QED  BY <1>1, <2>1 DEF Rewrite, TypeOK
<1>2. CASE EnsureConfigDir(c)
  <2>1. "CADDY_DATA_DIR" \in Settings /\ DataDir \in Values  BY DEF Settings, Values
  <2>2. task' \in [Commands -> Tasks] /\ pc' \in [Commands -> PCs]
    BY <1>1, <1>2, <2>1 DEF EnsureConfigDir, TypeOK
  <2>3. files' \subseteq {"binaries", "config"} /\ result' \in [Commands -> Results]
    BY <1>2 DEF EnsureConfigDir, Rewrite, TypeOK
  <2> QED  BY <1>2, <2>2, <2>3 DEF EnsureConfigDir, TypeOK, proxies, history
<1>3. CASE Choose(c)
  <2>1. task' \in [Commands -> Tasks] /\ pc' \in [Commands -> PCs]
    BY <1>0, <1>1, <1>3 DEF Choose, TypeOK
  <2>2. result' \in [Commands -> Results]  BY <1>3 DEF Choose, Rewrite, TypeOK
  <2> QED  BY <1>3, <2>1, <2>2 DEF Choose, TypeOK, proxies, history
<1>4. CASE Service(c)  BY <1>4 DEF Service, TypeOK, proxies, history
<1>5. CASE InstallPlist(c)  BY <1>5 DEF InstallPlist, TypeOK, history
<1>6. CASE Proxy(c)
  <2>1. [do |-> "restart"] \in Tasks /\ [do |-> "start"] \in Tasks  BY DEF Tasks
  <2>2. task' \in [Commands -> Tasks]  BY <1>6, <2>1 DEF Proxy, TypeOK
  <2> QED  BY <1>6, <2>2 DEF Proxy, TypeOK, proxies, history
<1> QED  BY <1>2, <1>3, <1>4, <1>5, <1>6 DEF Setup

LEMMA RemoveType ==
    ASSUME TypeOK, NEW c \in Commands, Remove(c)
    PROVE  TypeOK'
<1> USE DEF Goto, Finish, PCs, Wizard, Removing, Stopping, Results
<1>1. CASE Replace(c)
  <2>1. Alive \in SUBSET Procs  BY DEF Alive
  <2>2. old' \in [Commands -> SUBSET Procs]  BY <1>1, <2>1 DEF Replace, TypeOK
  <2>3. pc' \in [Commands -> PCs] /\ result' \in [Commands -> Results]
    <3>1. /\ {"unplug", "reload", "done"} \subseteq PCs
          /\ {"unchanged", "failed", "updated"} \subseteq Results
      OBVIOUS
    <3> HIDE DEF PCs, Results, Wizard, Removing, Stopping, Goto, Finish
    <3>2. \/ \E r \in {"unchanged", "failed", "updated"} : Finish(c, r)
          \/ (Goto(c, "unplug") \/ Goto(c, "reload")) /\ UNCHANGED result
      BY <1>1 DEF Replace
    <3> QED  BY <3>1, <3>2, GotoType, FinishType DEF TypeOK
  <2> QED  BY <1>1, <2>2, <2>3 DEF Replace, TypeOK, proxies
<1>2. CASE Confirm(c)  BY <1>2 DEF Confirm, TypeOK, proxies, history
<1>3. CASE RemoveService(c)  BY <1>3 DEF RemoveService, TypeOK, proxies, history
<1>4. CASE RemovePlist(c)  BY <1>4 DEF RemovePlist, TypeOK, history
<1>5. CASE RemoveBinaries(c)  BY <1>5 DEF RemoveBinaries, TypeOK, proxies, history
<1>6. CASE RemoveConfig(c)  BY <1>6, EnvsTyped DEF RemoveConfig, TypeOK, proxies
<1> QED  BY <1>1, <1>2, <1>3, <1>4, <1>5, <1>6 DEF Remove

-----------------------------------------------------------------------------
(* The environment file.                                                   *)

Rewrites == {"truncate", "write"}

\* Only commands that set something are on the way to the file.
SettersSet == \A c \in Commands : pc[c] \in Setting => task[c] \in SetTasks

\* At most one of them is between reading and writing.
OneRewrites ==
    ~disturbed => \A c, d \in Commands :
                     pc[c] \in Rewrites /\ pc[d] \in Rewrites => c = d

\* It will write what every setting is meant to be, its own changed.
CopiesKeep ==
    ~disturbed => \A c \in Commands :
                     pc[c] \in Rewrites =>
                        copy[c] = [meant EXCEPT ![task[c].var] = task[c].val]

\* The file it writes to has not been removed.
WritersHaveAFile ==
    ~disturbed => \A c \in Commands : pc[c] = "write" => "config" \in files

EInv ==
    /\ TypeOK /\ SettersSet /\ OneRewrites /\ CopiesKeep /\ WritersHaveAFile
    /\ SettingsSurvive

\* A step that touches neither the file nor who rewrites it.
LEMMA ElsewhereKeepsEInv ==
    ASSUME EInv, TypeOK', UNCHANGED <<env, copy, meant>>, disturbed => disturbed',
           "config" \in files => "config" \in files',
           \A d \in Commands : pc'[d] \in Setting => task'[d] \in SetTasks,
           \A d \in Commands : pc'[d] \in Rewrites => pc[d] = pc'[d] /\ task'[d] = task[d],
           ~disturbed' => \A d \in Commands : pc[d] = "write" => pc'[d] = "write"
    PROVE  EInv'
<1>1. SettersSet'  BY DEF SettersSet
<1>2. OneRewrites'  BY DEF EInv, OneRewrites
<1>3. CopiesKeep'  BY DEF EInv, CopiesKeep
<1>4. SettingsSurvive'  BY DEF EInv, SettingsSurvive
<1>5. WritersHaveAFile'  BY DEF EInv, WritersHaveAFile, Rewrites
<1> QED  BY <1>1, <1>2, <1>3, <1>4, <1>5 DEF EInv

LEMMA InitEInv == Init => EInv
<1> SUFFICES ASSUME Init PROVE EInv  OBVIOUS
<1>1. TypeOK  BY InitTypeOK
<1>2. \A c \in Commands : pc[c] = "new"  BY DEF Init
<1> QED
  BY <1>1, <1>2
  DEF EInv, Init, SettersSet, OneRewrites, CopiesKeep, WritersHaveAFile, SettingsSurvive,
      Setting, Rewrites

LEMMA SetKeepsEInv ==
    ASSUME EInv, NEW c \in Commands, Set(c)
    PROVE  EInv'
<1> USE DEF Setting, Rewrites, Goto, Finish
<1>0. TypeOK /\ TypeOK'  BY SetType DEF EInv, SettersSet
<1>1. CASE Compare(c)
  <2>1. /\ UNCHANGED <<env, files, copy, meant, disturbed, task>>
        /\ pc' = [pc EXCEPT ![c] = "done"] \/ pc' = [pc EXCEPT ![c] = "read"]
        /\ pc[c] = "compare"
    BY <1>1 DEF Compare, history
  <2> QED  BY <1>0, <2>1, ElsewhereKeepsEInv DEF EInv, TypeOK, SettersSet
<1>2. CASE ReadEnv(c)
  <2> USE <1>2 DEF ReadEnv
  <2>1. SettersSet'  BY <1>0 DEF EInv, SettersSet, TypeOK
  <2>2. \A d \in Commands : ~disturbed' => pc[d] \notin Rewrites
    BY DEF Rewriting
  <2>3. OneRewrites'  BY <1>0, <2>2 DEF OneRewrites, TypeOK
  <2>4. ~disturbed' => env = meant  BY <2>2 DEF EInv, SettingsSurvive
  <2>5. CopiesKeep'  BY <1>0, <2>2, <2>4 DEF CopiesKeep, TypeOK
  <2>6. SettingsSurvive'  BY <2>4 DEF SettingsSurvive
  <2>7. WritersHaveAFile'  BY <1>0, <2>2 DEF WritersHaveAFile, TypeOK
  <2> QED  BY <1>0, <2>1, <2>3, <2>5, <2>6, <2>7 DEF EInv
<1>3. CASE Truncate(c)
  <2> USE <1>3 DEF Truncate, Discard, history
  <2>1. /\ \/ pc' = [pc EXCEPT ![c] = "write"] /\ "config" \in files /\ copy' = copy
           \/ pc' = [pc EXCEPT ![c] = "done"] /\ env' = env
        /\ \A d \in Commands \ {c} : copy'[d] = copy[d]
        /\ pc[c] = "truncate"
    BY <1>0 DEF TypeOK
  <2>2. SettersSet'  BY <1>0, <2>1 DEF EInv, SettersSet, TypeOK
  <2>3. OneRewrites'  BY <1>0, <2>1 DEF EInv, OneRewrites, TypeOK
  <2>4. CopiesKeep'  BY <1>0, <2>1 DEF EInv, CopiesKeep, TypeOK
  <2>5. SettingsSurvive'
    <3> SUFFICES ASSUME ~disturbed, \A d \in Commands : pc'[d] # "write"
                 PROVE  env' = meant
      BY DEF SettingsSurvive
    <3>1. pc'[c] # "write"  OBVIOUS
    <3>2. env' = env  BY <1>0, <2>1, <3>1 DEF TypeOK
    <3>3. \A d \in Commands : pc[d] = "write" => d = c
      BY <2>1 DEF EInv, OneRewrites
    <3> QED  BY <2>1, <3>2, <3>3 DEF EInv, SettingsSurvive
  <2>6. WritersHaveAFile'  BY <1>0, <2>1 DEF EInv, WritersHaveAFile, TypeOK
  <2> QED  BY <1>0, <2>2, <2>3, <2>4, <2>5, <2>6 DEF EInv
<1>4. CASE WriteEnv(c)
  <2> USE <1>4 DEF WriteEnv
  <2>1. /\ \E l \in {"status", "provider", "key", "service", "done"} :
             pc' = [pc EXCEPT ![c] = l]
        /\ pc[c] = "write"
    BY DEF AfterWrite
  <2>2. SettersSet'  BY <1>0, <2>1 DEF EInv, SettersSet, TypeOK
  <2>3. \A d \in Commands : ~disturbed' => pc'[d] \notin Rewrites
    BY <1>0, <2>1 DEF EInv, OneRewrites, TypeOK
  <2>4. OneRewrites' /\ CopiesKeep'  BY <2>3 DEF OneRewrites, CopiesKeep
  <2>5. ~disturbed => "config" \in files  BY <2>1 DEF EInv, WritersHaveAFile
  <2>6. SettingsSurvive'
    BY <2>5 DEF EInv, CopiesKeep, SettingsSurvive
  <2>7. WritersHaveAFile'  BY <2>3 DEF WritersHaveAFile
  <2> QED  BY <1>0, <2>2, <2>4, <2>6, <2>7 DEF EInv
<1> QED  BY <1>1, <1>2, <1>3, <1>4 DEF Set

\* What a step of a command does to the commands' places.
Moves(c) ==
    /\ \E l \in PCs \ Setting : pc' = [pc EXCEPT ![c] = l]
    /\ UNCHANGED <<env, files, copy, meant, disturbed, task>>

Kills(c) ==
    /\ \A d \in Commands \ {c} : pc'[d] = pc[d] \/ pc'[d] = "done"
    /\ pc'[c] \notin Setting
    /\ ~disturbed' => \A d \in Commands \ {c} : pc[d] # "write"
    /\ disturbed => disturbed'
    /\ UNCHANGED <<env, files, copy, meant, task>>

LEMMA StepMoves ==
    ASSUME TypeOK, NEW c \in Commands,
           Interrupt(c) \/ Status(c) \/ Pgrep(c) \/ Restart(c) \/ Stop(c) \/ Start(c)
    PROVE  pc[c] \notin Setting /\ (Moves(c) \/ Kills(c))
<1> USE DEF Goto, Finish, Loop, Again, Setting, PCs, Stopping, Starting, Wizard, Removing,
            history
<1>0. pc = [pc EXCEPT ![c] = pc[c]]  BY DEF TypeOK
<1>1. CASE Interrupt(c) \/ Status(c) \/ Pgrep(c)
  BY <1>1 DEF Interrupt, Status, Pgrep, Moves
<1>2. CASE Reload(c) \/ Load(c) \/ Drain(c)
  BY <1>0, <1>2 DEF Reload, Load, Drain, Moves
<1>3. CASE Unload(c) \/ AdminStop(c) \/ Post(c)
  BY <1>3 DEF Unload, AdminStop, Post, Moves
<1>4. CASE AwaitGone(c) \/ AwaitKilled(c)
  BY <1>0, <1>4 DEF AwaitGone, AwaitKilled, Stopped, Moves
<1>5. ASSUME NEW l \in {"killRoot", "killed"}, KillCommands(c, l) PROVE Kills(c)
  BY <1>5 DEF KillCommands, Kills
<1>6. CASE Kill(c)
  <2>1. CASE ProcessSeen(c)  BY <1>5, <1>6, <2>1 DEF Kill
  <2>2. CASE ~ProcessSeen(c)  BY <1>6, <2>2 DEF Kill, Moves
  <2> QED  BY <2>1, <2>2
<1>7. CASE KillRoot(c)
  <2>1. CASE KillCommands(c, "killed")  BY <1>5, <1>7, <2>1 DEF KillRoot
  <2>2. CASE ~KillCommands(c, "killed")  BY <1>7, <2>2 DEF KillRoot, Moves
  <2> QED  BY <1>7, <2>1, <2>2 DEF KillRoot
<1>8. CASE Launch(c) \/ Kickstart(c) \/ AwaitUp(c)
  BY <1>0, <1>8 DEF Launch, Kickstart, AwaitUp, Moves
<1>9. pc[c] \notin Setting
  BY DEF Interrupt, Status, Pgrep, Restart, Stop, Start, Reload, Load, Drain, Unload,
         AdminStop, Post, AwaitGone, AwaitKilled, Kill, KillRoot, Launch, Kickstart, AwaitUp
<1> QED
  BY <1>1, <1>2, <1>3, <1>4, <1>6, <1>7, <1>8, <1>9 DEF Restart, Stop, Start

LEMMA MovesKeepEInv ==
    ASSUME EInv, TypeOK', NEW c \in Commands, pc[c] \notin Setting, Moves(c) \/ Kills(c)
    PROVE  EInv'
<1>1. CASE Moves(c)
  <2>1. PICK l \in PCs \ Setting : pc' = [pc EXCEPT ![c] = l]  BY <1>1 DEF Moves
  <2>2. \A d \in Commands : pc'[d] = IF d = c THEN l ELSE pc[d]
    BY <2>1 DEF EInv, TypeOK
  <2>3. UNCHANGED <<env, files, copy, meant, disturbed, task>>  BY <1>1 DEF Moves
  <2> QED
    BY <2>2, <2>3, ElsewhereKeepsEInv DEF EInv, SettersSet, Setting, Rewrites
<1>2. CASE Kills(c)
  BY <1>2, ElsewhereKeepsEInv DEF Kills, EInv, SettersSet, Setting, Rewrites
<1> QED  BY <1>1, <1>2

LEMMA SetupKeepsEInv ==
    ASSUME EInv, NEW c \in Commands, Setup(c)
    PROVE  EInv'
<1>0. TypeOK /\ TypeOK'  BY SetupType DEF EInv
<1>1. /\ UNCHANGED <<env, copy, meant, disturbed>> /\ files \subseteq files'
      /\ \A d \in Commands \ {c} : pc'[d] = pc[d] /\ task'[d] = task[d]
      /\ pc[c] \notin Setting
  BY <1>0 DEF Setup, EnsureConfigDir, Choose, Service, InstallPlist, Proxy, Rewrite, Goto,
              Finish, TypeOK, Setting, history
<1>2. pc'[c] \in Setting => pc'[c] = "read" /\ task'[c] \in SetTasks
  <2>1. ASSUME NEW s \in Settings, NEW v \in Values, Rewrite(c, s, v)
        PROVE  pc'[c] = "read" /\ task'[c] \in SetTasks
    BY <1>0, <2>1 DEF Rewrite, Goto, SetTasks, TypeOK
  <2>2. CASE EnsureConfigDir(c)
    <3>1. "CADDY_DATA_DIR" \in Settings /\ DataDir \in Values  BY DEF Settings, Values
    <3> QED  BY <1>0, <2>1, <2>2, <3>1 DEF EnsureConfigDir, Goto, Finish, Setting, TypeOK
  <2>3. CASE Choose(c)
    <3>1. \A ch \in Changes : ch[1] \in Settings /\ ch[2] \in Values
      BY ChangesAssumption DEF Values
    <3> QED  BY <1>0, <2>1, <2>3, <3>1 DEF Choose, Goto, Finish, Setting, TypeOK
  <2>4. CASE Service(c) \/ InstallPlist(c) \/ Proxy(c)
    BY <1>0, <2>4 DEF Service, InstallPlist, Proxy, Goto, Setting, TypeOK
  <2> QED  BY <2>2, <2>3, <2>4 DEF Setup
<1> QED
  BY <1>0, <1>1, <1>2, ElsewhereKeepsEInv DEF EInv, SettersSet, Setting, Rewrites

LEMMA RemoveKeepsEInv ==
    ASSUME EInv, NEW c \in Commands, Remove(c)
    PROVE  EInv'
<1>0. TypeOK /\ TypeOK'  BY RemoveType DEF EInv
<1>1. /\ UNCHANGED <<copy, task>>
      /\ \A d \in Commands \ {c} : pc'[d] = pc[d]
      /\ pc[c] \notin Setting /\ pc'[c] \notin Setting
  BY <1>0 DEF Remove, Replace, Confirm, RemoveService, RemovePlist, RemoveBinaries,
              RemoveConfig, Goto, Finish, TypeOK, Setting, history
<1>2. CASE RemoveConfig(c) /\ ~(UNCHANGED <<files, env, meant, disturbed>>)
  <2>1. /\ env' = Empty /\ meant' = Empty
        /\ disturbed' = (disturbed \/ Rewriting(c) # {})
    BY <1>2 DEF RemoveConfig
  <2>2. \A d \in Commands : ~disturbed' => pc'[d] \notin Rewrites
    BY <1>1, <2>1 DEF Rewriting, Rewrites, Setting
  <2>3. OneRewrites' /\ CopiesKeep' /\ WritersHaveAFile'
    BY <2>2 DEF OneRewrites, CopiesKeep, WritersHaveAFile, Rewrites
  <2>4. SettersSet' /\ SettingsSurvive'
    BY <1>1, <2>1 DEF EInv, SettersSet, SettingsSurvive
  <2> QED  BY <1>0, <2>3, <2>4 DEF EInv
<1>3. CASE ~(RemoveConfig(c) /\ ~(UNCHANGED <<files, env, meant, disturbed>>))
  <2>1. /\ UNCHANGED <<env, meant, disturbed>>
        /\ "config" \in files => "config" \in files'
    BY <1>3 DEF Remove, Replace, Confirm, RemoveService, RemovePlist, RemoveBinaries, history
  <2> QED
    BY <1>0, <1>1, <2>1, ElsewhereKeepsEInv DEF EInv, SettersSet, Setting, Rewrites
<1> QED  BY <1>2, <1>3

LEMMA EInvInductive == EInv /\ [Next]_vars => EInv'
<1> SUFFICES ASSUME EInv, [Next]_vars PROVE EInv'  OBVIOUS
<1>0. TypeOK  BY DEF EInv
<1>1. ASSUME NEW c \in Commands, NEW t \in Asked, Command(c, t) PROVE EInv'
  <2>1. TypeOK'  BY <1>0, <1>1, CommandType
  <2>2. /\ UNCHANGED <<env, files, copy, meant, disturbed>>
        /\ \A d \in Commands \ {c} : pc'[d] = pc[d] /\ task'[d] = task[d]
        /\ pc[c] = "new" /\ task'[c] = t
    BY <1>0, <1>1 DEF Command, Goto, TypeOK
  <2>3. /\ pc'[c] \in {"compare", "tailing", "reload", "ensure", "replace", "confirm", "status"}
        /\ pc'[c] = "compare" => t.do = "set"
    BY <1>0, <1>1 DEF Command, Goto, TypeOK
  <2>4. t.do = "set" => t \in SetTasks
    BY AskedTyped DEF Tasks
  <2> QED
    BY <2>1, <2>2, <2>3, <2>4, ElsewhereKeepsEInv DEF EInv, SettersSet, Setting, Rewrites
<1>2. ASSUME NEW c \in Commands,
             Interrupt(c) \/ Status(c) \/ Pgrep(c) \/ Restart(c) \/ Stop(c) \/ Start(c)
      PROVE  EInv'
  BY <1>0, <1>2, StatusType, RestartType, StopType, StartType, StepMoves, MovesKeepEInv
<1>3. ASSUME NEW c \in Commands, Set(c) PROVE EInv'  BY <1>3, SetKeepsEInv
<1>4. ASSUME NEW p \in Procs, Source(p) \/ Serve(p) \/ Exit(p) PROVE EInv'
  <2>1. TypeOK'  BY <1>0, <1>4, ProxyType
  <2>2. UNCHANGED <<env, files, copy, meant, disturbed, task, pc>>
    BY <1>4 DEF Source, Serve, Exit, history
  <2> QED  BY <2>1, <2>2, ElsewhereKeepsEInv DEF EInv, SettersSet
<1>5. CASE UNCHANGED vars
  <2>1. UNCHANGED <<env, files, copy, meant, disturbed, task, pc>> /\ TypeOK'
    BY <1>0, <1>5 DEF vars, history, proxies, TypeOK, Alive
  <2> QED  BY <2>1, ElsewhereKeepsEInv DEF EInv, SettersSet
<1>6. ASSUME NEW c \in Commands, Setup(c) \/ Remove(c) PROVE EInv'
  BY <1>6, SetupKeepsEInv, RemoveKeepsEInv
<1> QED  BY <1>1, <1>2, <1>3, <1>4, <1>5, <1>6 DEF Next, Step

\* Type correctness of the command line.
THEOREM TypeCorrect == Spec => []TypeOK
<1>1. EInv => TypeOK  BY DEF EInv
<1> QED  BY <1>1, InitEInv, EInvInductive, PTL DEF Spec

\* A setting nobody sets keeps its value, whatever commands do, unless two
\* rewrite the file at once or one dies in its write.
THEOREM OthersSurvive == Spec => []SettingsSurvive
<1>1. EInv => SettingsSurvive  BY DEF EInv
<1> QED  BY <1>1, InitEInv, EInvInductive, PTL DEF Spec

-----------------------------------------------------------------------------
(* Who says stopped or restarted.                                          *)

Claims == {"stopped", "restarted"}

\* The job's process runs.
JobIsAlive == job # None => job \in Alive

\* A command has no result before it ends.
NoResultYet == \A c \in Commands : pc[c] # "done" => result[c] = None

\* What was there is gone once a restart starts the proxy.
GoneBeforeStart ==
    \A c \in Commands :
        pc[c] \in Starting /\ task[c].do # "start" => old[c] \cap Alive = {}

SInv == TypeOK /\ JobIsAlive /\ NoResultYet /\ GoneBeforeStart /\ StoppedMeansGone

Restarting(c) == pc[c] \in Starting /\ task[c].do # "start"

LEMMA InitSInv == Init => SInv
<1> SUFFICES ASSUME Init PROVE SInv  OBVIOUS
<1>1. TypeOK  BY InitTypeOK
<1>2. JobIsAlive
  <2>1. PICK up \in SUBSET {First} :
           /\ job \in (IF daemon = "loaded" /\ up # {} THEN up ELSE {None})
           /\ proc = [p \in Procs |-> IF p \in up THEN "serving" ELSE None]
    BY DEF Init
  <2>2. Alive = up  BY <2>1, ProcsAssumption DEF Alive, None
  <2>3. job = None \/ job \in up  BY <2>1
  <2> QED  BY <2>2, <2>3 DEF JobIsAlive
<1> QED
  BY <1>1, <1>2
  DEF SInv, Init, NoResultYet, GoneBeforeStart, StoppedMeansGone, Starting

\* No step brings an older proxy back.
Fewer(d) == old'[d] \cap Alive' \subseteq old[d] \cap Alive

\* Where a step of c may take it, and what c may then say.
Ends(c) ==
    \/ pc'[c] \notin Starting \cup {"done"} /\ result'[c] = result[c]
    \/ pc'[c] \in Starting /\ result'[c] = result[c] /\ (Alive' = {} \/ task[c].do = "start" \/ pc[c] \in Starting)
    \/ pc'[c] = "done" /\ result'[c] \notin Claims
    \/ pc'[c] = "done" /\ result'[c] \in Claims /\ (Alive' = {} \/ Restarting(c))

\* What it does to another command.
Spares(d) ==
    \/ pc'[d] = pc[d] /\ result'[d] = result[d]
    \/ pc'[d] = "done" /\ result'[d] = "killed"

LEMMA StepKeepsSInv ==
    ASSUME SInv, TypeOK', JobIsAlive',
           NEW c \in Commands, pc[c] # "done", Ends(c),
           \A d \in Commands : task'[d] = task[d] \/ (d = c /\ pc'[c] \notin Starting),
           Fewer(c) \/ (pc'[c] \notin Starting /\ result'[c] \notin Claims),
           \A d \in Commands \ {c} : Fewer(d) /\ Spares(d)
    PROVE  SInv'
<1> USE DEF SInv, Fewer, Claims
<1>1. NoResultYet'  BY DEF NoResultYet, Ends, Spares, Starting
<1>2. ASSUME NEW d \in Commands, pc'[d] \in Starting, task'[d].do # "start"
      PROVE  old'[d] \cap Alive' = {}
  <2>0. task'[d] = task[d]  BY <1>2
  <2>1. CASE d = c
    BY <1>2, <2>0, <2>1 DEF GoneBeforeStart, Ends, Starting
  <2>2. CASE d # c
    BY <1>2, <2>0, <2>2 DEF GoneBeforeStart, Spares, Starting
  <2> QED  BY <2>1, <2>2
<1>3. ASSUME NEW d \in Commands, result'[d] \in Claims
      PROVE  old'[d] \cap Alive' = {}
  <2>1. CASE d = c
    <3>1. result[c] = None  BY DEF NoResultYet
    <3>2. Alive' = {} \/ Restarting(c)  BY <1>3, <2>1, <3>1 DEF Ends, None
    <3> QED  BY <1>3, <2>1, <3>2 DEF GoneBeforeStart, Restarting
  <2>2. CASE d # c
    BY <1>3, <2>2 DEF StoppedMeansGone, Spares
  <2> QED  BY <2>1, <2>2
<1>4. GoneBeforeStart' /\ StoppedMeansGone'
  BY <1>2, <1>3 DEF GoneBeforeStart, StoppedMeansGone
<1> QED  BY <1>1, <1>4

\* The four kinds of steps with respect to processes.
LEMMA SameProcesses ==
    ASSUME UNCHANGED <<proc, job, old>>, JobIsAlive
    PROVE  JobIsAlive' /\ Alive' = Alive /\ \A d \in Commands : Fewer(d)
BY DEF Alive, JobIsAlive, Fewer

LEMMA SpawnFewer ==
    ASSUME TypeOK, NEW p \in Procs, Spawn(p)
    PROVE  /\ Alive' = Alive \cup {p}
           /\ \A d \in Commands : Fewer(d)
<1>1. "launched" # None  BY DEF None
<1>2. Alive' = Alive \cup {p}  BY <1>1 DEF TypeOK, Spawn, Alive
<1> QED  BY <1>2 DEF Spawn, Fewer

LEMMA ProcessesFewer ==
    ASSUME SInv, NEW c \in Commands,
           Interrupt(c) \/ Status(c) \/ Pgrep(c) \/ Compare(c) \/ ReadEnv(c) \/ Truncate(c)
             \/ Restart(c) \/ Stop(c) \/ Start(c) \/ Setup(c) \/ (Remove(c) /\ ~Replace(c))
    PROVE  JobIsAlive' /\ \A d \in Commands : Fewer(d)
<1> USE DEF SInv, proxies, history
<1>0. None = "none" /\ None \notin Procs  BY ProcsAssumption DEF None
<1>1. CASE Interrupt(c) \/ Status(c) \/ Pgrep(c) \/ Compare(c) \/ ReadEnv(c) \/ Truncate(c)
  BY <1>1, SameProcesses DEF Interrupt, Status, Pgrep, Compare, ReadEnv, Truncate
<1>2. CASE Restart(c)
  BY <1>2, SameProcesses DEF Restart, Reload, Load, Drain
<1>3. CASE AdminStop(c) \/ AwaitGone(c) \/ AwaitKilled(c)
  BY <1>3, SameProcesses DEF AdminStop, AwaitGone, AwaitKilled
<1>4. CASE Kill(c)
  BY <1>4, SameProcesses DEF Kill, KillCommands
<1>5. CASE Unload(c)
  <2>1. UNCHANGED old  BY <1>5 DEF Unload
  <2>2. Alive' = Alive
    BY <1>0, <1>5 DEF Unload, Alive, JobIsAlive
  <2>3. job' = job \/ job' = None  BY <1>5 DEF Unload
  <2> QED  BY <2>1, <2>2, <2>3 DEF JobIsAlive, Fewer
<1>6. CASE Post(c)
  <2>1. UNCHANGED <<old, job>>  BY <1>6 DEF Post
  <2>2. Alive' = Alive
    BY <1>0, <1>6 DEF Post, Alive, TypeOK
  <2> QED  BY <2>1, <2>2 DEF JobIsAlive, Fewer
<1>7. CASE KillRoot(c)
  <2>1. UNCHANGED <<old, job>>  BY <1>7 DEF KillRoot, KillCommands
  <2>2. Alive' = Alive
    BY <1>0, <1>7 DEF KillRoot, Alive
  <2> QED  BY <2>1, <2>2 DEF JobIsAlive, Fewer
<1>8. CASE Launch(c)
  <2>1. CASE UNCHANGED <<proc, old>>
    BY <1>8, <2>1, SameProcesses DEF Launch
  <2>2. ASSUME NEW p \in Procs, Spawn(p)
        PROVE  JobIsAlive' /\ \A d \in Commands : Fewer(d)
    BY <1>8, <2>2, SpawnFewer DEF Launch, JobIsAlive
  <2> QED  BY <1>8, <2>1, <2>2 DEF Launch
<1>9. CASE Kickstart(c)
  <2>1. CASE UNCHANGED <<proc, job, old>>
    BY <2>1, SameProcesses
  <2>2. ASSUME NEW p \in Procs, Spawn(p), job' = p
        PROVE  JobIsAlive' /\ \A d \in Commands : Fewer(d)
    BY <2>2, SpawnFewer DEF JobIsAlive
  <2> QED  BY <1>9, <2>1, <2>2 DEF Kickstart
<1>10. CASE AwaitUp(c)
  BY <1>10, SameProcesses DEF AwaitUp
<1>11. CASE Setup(c)
  BY <1>11, SameProcesses
  DEF Setup, EnsureConfigDir, Choose, Service, InstallPlist, Proxy
<1>12. CASE Remove(c) /\ ~Replace(c)
  BY <1>12, SameProcesses
  DEF Remove, Confirm, RemoveService, RemovePlist, RemoveBinaries, RemoveConfig
<1> QED
  BY <1>1, <1>2, <1>3, <1>4, <1>5, <1>6, <1>7, <1>8, <1>9, <1>10, <1>11, <1>12
  DEF Stop, Start

\* Where steps lead.
LEMMA StoppedEnds ==
    ASSUME SInv, NEW c \in Commands, pc[c] # "done", ~ProcessSeen(c), Stopped(c),
           UNCHANGED proc
    PROVE  Ends(c) /\ \A d \in Commands \ {c} : Spares(d)
<1>1. Alive' = {}  BY DEF ProcessSeen, Alive
<1>2. CASE task[c].do = "stop"
  BY <1>1, <1>2 DEF SInv, TypeOK, Stopped, Finish, Goto, Ends, Spares, Claims
<1>3. CASE task[c].do = "uninstall"
  BY <1>1, <1>3 DEF SInv, TypeOK, Stopped, Goto, Ends, Spares, Starting
<1>4. CASE task[c].do \notin {"stop", "uninstall"}
  BY <1>1, <1>4 DEF SInv, TypeOK, Stopped, Loop, Goto, Ends, Spares, Starting
<1> QED  BY <1>2, <1>3, <1>4

LEMMA KillEnds ==
    ASSUME SInv, NEW c \in Commands, NEW l \in {"killRoot", "killed"}, KillCommands(c, l)
    PROVE  Ends(c) /\ \A d \in Commands \ {c} : Spares(d)
BY DEF SInv, TypeOK, KillCommands, Ends, Spares, Starting

LEMMA StepEnds ==
    ASSUME SInv, NEW c \in Commands, Interrupt(c) \/ Step(c)
    PROVE  pc[c] # "done" /\ Ends(c) /\ (\A d \in Commands \ {c} : Spares(d))
<1> USE DEF SInv, TypeOK, Goto, Finish, Loop, Again, proxies, history
<1>0. pc[c] # "done"
  <2>1. CASE Setup(c) \/ Remove(c)
    BY <2>1 DEF Setup, EnsureConfigDir, Choose, Service, InstallPlist, Proxy, Remove, Replace,
                Confirm, RemoveService, RemovePlist, RemoveBinaries, RemoveConfig
  <2>2. CASE ~(Setup(c) \/ Remove(c))
    BY <2>2
    DEF Interrupt, Step, Status, Pgrep, Set, Compare, ReadEnv, Truncate, WriteEnv, Restart, Stop,
        Start, Reload, Load, Drain, Unload, AdminStop, Post, AwaitGone, AwaitKilled, Kill,
        KillRoot, Launch, Kickstart, AwaitUp
  <2> QED  BY <2>1, <2>2
<1>1. CASE Interrupt(c) \/ Status(c)
  BY <1>0, <1>1 DEF Interrupt, Status, Ends, Spares, Starting, Claims
<1>2. CASE Pgrep(c)
  <2>1. CASE task[c].do = "stop" /\ ~ProcessSeen(c)
    <3>1. Alive' = {}  BY <1>2, <2>1 DEF Pgrep, ProcessSeen, Alive
    <3> QED  BY <1>2, <2>1, <3>1 DEF Pgrep, Ends, Spares, Claims
  <2>2. CASE ~(task[c].do = "stop" /\ ~ProcessSeen(c))
    BY <1>2, <2>2 DEF Pgrep, Ends, Spares, Starting, Claims
  <2> QED  BY <2>1, <2>2
<1>3. CASE Set(c)
  <2>1. CASE WriteEnv(c)
    BY <2>1 DEF WriteEnv, AfterWrite, Ends, Spares, Starting, Claims
  <2>2. CASE ~WriteEnv(c)
    BY <1>3, <2>2 DEF Set, Compare, ReadEnv, Truncate, Ends, Spares, Starting, Claims
  <2> QED  BY <2>1, <2>2
<1>4. CASE Restart(c)
  BY <1>4 DEF Restart, Reload, Load, Drain, Ends, Spares, Starting, Claims
<1>5. CASE Unload(c) \/ AdminStop(c) \/ Post(c)
  BY <1>5 DEF Unload, AdminStop, Post, Ends, Spares, Starting, Claims
<1>6. CASE AwaitGone(c)
  <2>1. CASE ~ProcessSeen(c) /\ Stopped(c)
    BY <1>0, <1>6, <2>1, StoppedEnds DEF AwaitGone
  <2>2. CASE ~(~ProcessSeen(c) /\ Stopped(c))
    BY <1>6, <2>2 DEF AwaitGone, Ends, Spares, Starting, Claims
  <2> QED  BY <2>1, <2>2
<1>7. CASE AwaitKilled(c)
  <2>1. CASE ~ProcessSeen(c) /\ Stopped(c)
    BY <1>0, <1>7, <2>1, StoppedEnds DEF AwaitKilled
  <2>2. CASE ~(~ProcessSeen(c) /\ Stopped(c))
    BY <1>7, <2>2 DEF AwaitKilled, Ends, Spares, Starting, Claims
  <2> QED  BY <2>1, <2>2
<1>8. CASE Kill(c)
  <2>1. CASE ProcessSeen(c)  BY <1>8, <2>1, KillEnds DEF Kill
  <2>2. CASE ~ProcessSeen(c)
    BY <1>8, <2>2 DEF Kill, Ends, Spares, Starting
  <2> QED  BY <2>1, <2>2
<1>9. CASE KillRoot(c)
  <2>1. CASE KillCommands(c, "killed")  BY <1>0, <2>1, KillEnds
  <2>2. CASE Loop(c, "killed") /\ UNCHANGED result
    BY <1>0, <2>2 DEF Ends, Spares, Starting
  <2> QED  BY <1>9, <2>1, <2>2 DEF KillRoot
<1>10. CASE Start(c)
  <2>1. CASE Launch(c) \/ Kickstart(c)
    BY <2>1 DEF Launch, Kickstart, Ends, Spares, Starting, Claims
  <2>2. CASE AwaitUp(c)
    BY <2>2 DEF AwaitUp, Ends, Spares, Starting, Claims, Restarting
  <2> QED  BY <1>10, <2>1, <2>2 DEF Start
<1>11. CASE Setup(c)
  BY <1>11
  DEF Setup, EnsureConfigDir, Choose, Service, InstallPlist, Proxy, Rewrite, Ends, Spares,
      Starting, Claims
<1>12. CASE Remove(c)
  BY <1>12
  DEF Remove, Replace, Confirm, RemoveService, RemovePlist, RemoveBinaries, RemoveConfig,
      Ends, Spares, Starting, Claims
<1> QED
  BY <1>0, <1>1, <1>2, <1>3, <1>4, <1>5, <1>6, <1>7, <1>8, <1>9, <1>10, <1>11, <1>12
  DEF Step, Stop

LEMMA SInvInductive == EInv /\ SInv /\ [Next]_vars => SInv'
<1> SUFFICES ASSUME EInv, SInv, [Next]_vars PROVE SInv'  OBVIOUS
<1>0. TypeOK'  BY EInvInductive DEF EInv
<1>1. ASSUME NEW c \in Commands, NEW t \in Asked, Command(c, t) PROVE SInv'
  <2>1. UNCHANGED <<proc, job, result>> /\ Alive' = Alive
    BY <1>1 DEF Command, proxies, Alive
  <2>2. /\ result[c] = None
        /\ pc'[c] \in {"compare", "tailing", "reload", "ensure", "replace", "confirm", "status"}
        /\ \A d \in Commands \ {c} :
             pc'[d] = pc[d] /\ task'[d] = task[d] /\ old'[d] = old[d]
    BY <1>1 DEF Command, Goto, SInv, TypeOK, NoResultYet
  <2> QED
    BY <1>0, <2>1, <2>2
    DEF SInv, JobIsAlive, NoResultYet, GoneBeforeStart, StoppedMeansGone, Starting, None
<1>2. ASSUME NEW c \in Commands, Interrupt(c) \/ Step(c), ~WriteEnv(c), ~Replace(c)
      PROVE  SInv'
  <2>1. \A d \in Commands : task'[d] = task[d] \/ (d = c /\ pc'[c] \notin Starting)
    <3>1. CASE Setup(c)
      BY <3>1
      DEF Setup, EnsureConfigDir, Choose, Service, InstallPlist, Proxy, Rewrite, Goto, Starting,
          SInv, TypeOK, history
    <3>2. CASE Remove(c)
      BY <3>2 DEF Remove, Replace, Confirm, RemoveService, RemovePlist, RemoveBinaries, RemoveConfig
    <3>3. CASE ~Setup(c) /\ ~Remove(c)
      BY <1>2, <3>3
      DEF Interrupt, Step, Status, Pgrep, Set, Compare, ReadEnv, Truncate, Restart, Stop, Start,
          Reload, Load, Drain, Unload, AdminStop, Post, AwaitGone, AwaitKilled, Kill, KillRoot,
          KillCommands, Launch, Kickstart, AwaitUp
    <3> QED  BY <3>1, <3>2, <3>3
  <2>2. JobIsAlive' /\ \A d \in Commands : Fewer(d)
    BY <1>2, ProcessesFewer DEF Step, Set
  <2>3. pc[c] # "done" /\ Ends(c) /\ \A d \in Commands \ {c} : Spares(d)
    BY <1>2, StepEnds
  <2>4. Fewer(c) /\ \A d \in Commands \ {c} : Fewer(d) /\ Spares(d)
    BY <2>2, <2>3 DEF Fewer, Spares
  <2> QED  BY <1>0, <2>1, <2>2, <2>3, <2>4, StepKeepsSInv
<1>3. ASSUME NEW c \in Commands, WriteEnv(c) \/ Replace(c) PROVE SInv'
  <2>1. pc[c] # "done" /\ Ends(c) /\ \A d \in Commands \ {c} : Spares(d)
    BY <1>3, StepEnds DEF Step, Set, Remove
  <2>2. /\ UNCHANGED <<proc, job, task>>
        /\ \A d \in Commands \ {c} : old'[d] = old[d]
        /\ pc'[c] \notin Starting /\ result'[c] \notin Claims
    BY <1>3 DEF WriteEnv, AfterWrite, Replace, SInv, TypeOK, Goto, Finish, Starting, Claims,
                proxies, NoResultYet, None
  <2>3. JobIsAlive' /\ \A d \in Commands \ {c} : Fewer(d)
    BY <2>2 DEF SInv, JobIsAlive, Fewer, Alive
  <2> QED  BY <1>0, <2>1, <2>2, <2>3, StepKeepsSInv
<1>4. ASSUME NEW p \in Procs, Source(p) \/ Serve(p) \/ Exit(p) PROVE SInv'
  <2>1. UNCHANGED <<old, pc, result, task>>
    BY <1>4 DEF Source, Serve, Exit, history
  <2>2. Alive' \subseteq Alive /\ JobIsAlive'
    <3>1. CASE Source(p) \/ Serve(p)
      <4>1. Alive' = Alive
        BY <3>1 DEF Source, Serve, Alive, SInv, TypeOK, None
      <4> QED  BY <3>1, <4>1 DEF Source, Serve, SInv, JobIsAlive
    <3>2. CASE Exit(p)
      <4>1. Alive' = Alive \ {p}
        BY <3>2 DEF Exit, Alive, SInv, TypeOK
      <4> QED  BY <3>2, <4>1 DEF Exit, SInv, JobIsAlive
    <3> QED  BY <1>4, <3>1, <3>2
  <2> QED
    BY <1>0, <2>1, <2>2 DEF SInv, NoResultYet, GoneBeforeStart, StoppedMeansGone
<1>5. CASE UNCHANGED vars
  <2>1. UNCHANGED <<old, pc, result, task, job>> /\ Alive' = Alive
    BY <1>5 DEF vars, history, proxies, Alive
  <2> QED
    BY <1>0, <2>1 DEF SInv, JobIsAlive, NoResultYet, GoneBeforeStart, StoppedMeansGone
<1> QED  BY <1>1, <1>2, <1>3, <1>4, <1>5 DEF Next, Step

\* Who says stopped, or restarted after a full stop, has left no proxy that was
\* there before, with any number of commands at once.
THEOREM StopsStop == Spec => []StoppedMeansGone
<1>1. SInv => StoppedMeansGone  BY DEF SInv
<1> QED  BY <1>1, InitEInv, EInvInductive, InitSInv, SInvInductive, PTL DEF Spec
=============================================================================
