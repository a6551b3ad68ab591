--------------------------- MODULE ProxyLifecycle ---------------------------
(***************************************************************************)
(* The command line against the proxy on macOS: cmd/cli/proxy.go with      *)
(* main.go, llm.go, setup.go, update.go, uninstall.go, delegate.go and     *)
(* launchd_darwin.go, and the environment file of cmd/shared/env.go.       *)
(*                                                                         *)
(* Commands share no lock: they act on the environment file, on launchd's  *)
(* job and on processes, one external call a step, and learn of processes  *)
(* by `pgrep -f tudy`, which finds other commands too and not oneself (the *)
(* pgrep of macOS leaves out its ancestors).                               *)
(***************************************************************************)
EXTENDS Naturals

CONSTANTS
    Commands,   \* invocations of tudy; each runs once
    Procs,      \* process numbers of proxies, reused
    First,      \* the number of the proxy that runs at first, if one does
    Changes,    \* <<setting, value>>: what setup and llm may set
    May,        \* bound: May[c], what command c may be asked to do
    CaddyVars,  \* settings the Caddyfile refers to
    Polls,      \* bound: rounds of every polling loop (20 or 10 in the code)
    Unset       \* the value of a setting that is not in the file

Settings == {"LLM_API_KEY", "LLM_API_URL", "LLM_ENABLED", "MODEL", "CADDY_DATA_DIR"}
Key      == "the key"
DataDir  == "the data directory"
Values   == {c[2] : c \in Changes} \cup {Key, DataDir, Unset}
None     == "none"

ASSUME ChangesAssumption   == \A c \in Changes : c[1] \in Settings /\ c[2] # Unset
ASSUME CaddyVarsAssumption == CaddyVars \subseteq Settings
ASSUME PollsAssumption     == Polls \in Nat
ASSUME ProcsAssumption     == None \notin Procs /\ First \in Procs

VARIABLES
    env,      \* the environment file
    files,    \* what is installed of the "binaries" and the "config" directory
    daemon,   \* launchd's job: "absent" (no plist), "unloaded", "loaded", or
              \* "orphaned" (loaded, and its plist removed)
    job,      \* the process of the job, or None
    proc,     \* proc[p]: what process p is doing
    has,      \* has[p]: the environment it runs with
    conf,     \* conf[p]: the settings of the configuration it serves
    task,     \* task[c]: what command c was asked to do
    pc,       \* pc[c]: where it is
    copy,     \* copy[c]: the file it is about to write
    tries,    \* tries[c]: rounds of the loop it is in
    result,   \* result[c]: how it ended
    old,      \* history: old[c], the proxies that were alive when c began, or
              \* had last written a setting or replaced the binaries
    meant,    \* history: the value last given to each setting
    disturbed \* history: whether two rewrites of the file overlapped, or one
              \* died or failed half way

proxies  == <<daemon, job, proc, has, conf>>
history  == <<old, meant, disturbed>>
vars     == <<env, files, proxies, task, pc, copy, tries, result, history>>

Envs     == [Settings -> Values]
Empty    == [s \in Settings |-> Unset]
SetTasks == [do : {"set", "setup"}, var : Settings, val : Values]
Tasks    == [do : {"start", "stop", "restart", "logs", "setup", "update", "uninstall"}]
            \cup SetTasks
Setting  == {"compare", "read", "truncate", "write"}
Stopping == {"unload", "stopping", "post", "gone", "kill", "killRoot", "killed"}
Starting == {"drain", "launch", "kickstart", "up"}
Wizard   == {"ensure", "provider", "key", "service", "unplug", "plist", "proxy"}
Removing == {"replace", "confirm", "remove", "plistOut", "binaries", "config"}
PCs      == Setting \cup Stopping \cup Starting \cup Wizard \cup Removing \cup
            {"new", "tailing", "status", "pgrep", "reload", "load", "done"}
Results  == {None, "running", "stopped", "notRunning", "unchanged", "reloaded", "started",
             "restarted", "updated", "removed", "failed", "killed", "interrupted"}

TypeOK ==
    /\ env \in Envs
    /\ files \subseteq {"binaries", "config"}
    /\ daemon \in {"absent", "unloaded", "loaded", "orphaned"}
    /\ job \in Procs \cup {None}
    /\ proc \in [Procs -> {None, "launched", "starting", "serving", "stopping"}]
    /\ has \in [Procs -> Envs]
    /\ conf \in [Procs -> [CaddyVars -> Values \cup {"true"}]]
    /\ task \in [Commands -> Tasks]
    /\ pc \in [Commands -> PCs]
    /\ copy \in [Commands -> Envs]
    /\ tries \in [Commands -> 0..Polls]
    /\ result \in [Commands -> Results]
    /\ old \in [Commands -> SUBSET Procs]
    /\ meant \in Envs
    /\ disturbed \in BOOLEAN

\* Without LLM_ENABLED the LLM path is on.
Effective(s, v) == IF s = "LLM_ENABLED" /\ v = Unset THEN "true" ELSE v

\* What {$NAME} in the Caddyfile becomes in a process with environment e.
Adapt(e) == [s \in CaddyVars |-> Effective(s, e[s])]

Alive       == {p \in Procs : proc[p] # None}
AdminAnswers == \E p \in Procs : proc[p] = "serving"
Installed   == daemon \in {"unloaded", "loaded"}
Loaded      == daemon \in {"loaded", "orphaned"}
Running(c)  == pc[c] \notin {"new", "done"}

\* isProcessRunning, as command c sees it.
ProcessSeen(c) == Alive # {} \/ \E d \in Commands \ {c} : Running(d)

Goto(c, l)   == pc' = [pc EXCEPT ![c] = l]
Finish(c, r) == Goto(c, "done") /\ result' = [result EXCEPT ![c] = r]
Loop(c, l)   == Goto(c, l) /\ tries' = [tries EXCEPT ![c] = 0]

\* One more round of the loop c is in.
Again(c) == tries' = [tries EXCEPT ![c] = @ + 1] /\ UNCHANGED <<pc, result>>

\* Only the binaries are there, or setup has run and a proxy is up or none is.
Init ==
    /\ files \in {{"binaries"}, {"binaries", "config"}}
    /\ env = IF "config" \in files
                THEN [Empty EXCEPT !["LLM_API_KEY"] = Key, !["CADDY_DATA_DIR"] = DataDir]
                ELSE Empty
    /\ daemon \in IF "config" \in files THEN {"absent", "unloaded", "loaded"} ELSE {"absent"}
    /\ \E up \in SUBSET {First} :
         /\ "config" \notin files => up = {}
         /\ job \in IF daemon = "loaded" /\ up # {} THEN up ELSE {None}
         /\ proc = [p \in Procs |-> IF p \in up THEN "serving" ELSE None]
    /\ has = [p \in Procs |-> IF proc[p] = "serving" THEN env ELSE Empty]
    /\ conf = [p \in Procs |-> Adapt(has[p])]
    /\ task = [c \in Commands |-> [do |-> "logs"]]
    /\ pc = [c \in Commands |-> "new"]
    /\ copy = [c \in Commands |-> Empty]
    /\ tries = [c \in Commands |-> 0]
    /\ result = [c \in Commands |-> None]
    /\ old = [c \in Commands |-> {}]
    /\ meant = env
    /\ disturbed = FALSE

-----------------------------------------------------------------------------
(* main: what is asked for, and where each command begins.                 *)

Command(c, t) ==
    /\ pc[c] = "new" /\ "binaries" \in files /\ t.do \in May[c]
    /\ task' = [task EXCEPT ![c] = t]
    /\ old' = [old EXCEPT ![c] = Alive]
    /\ Goto(c, CASE t.do = "set"       -> "compare"
                 [] t.do = "logs"      -> "tailing"
                 [] t.do = "restart"   -> "reload"
                 [] t.do = "setup"     -> "ensure"
                 [] t.do = "update"    -> "replace"
                 [] t.do = "uninstall" -> "confirm"
                 [] OTHER              -> "status")
    /\ UNCHANGED <<env, files, proxies, copy, tries, result, meant, disturbed>>

\* The user ends `tudy logs`.
Interrupt(c) ==
    /\ pc[c] = "tailing"
    /\ Finish(c, "interrupted")
    /\ UNCHANGED <<env, files, proxies, task, copy, tries, history>>

\* CheckProxyStatus asks the admin API first ...
Status(c) ==
    /\ pc[c] = "status"
    /\ \/ ~AdminAnswers /\ Goto(c, "pgrep") /\ UNCHANGED result
       \/ AdminAnswers /\ task[c].do = "start" /\ Finish(c, "running")
       \/ AdminAnswers /\ task[c].do = "stop" /\ Goto(c, "unload") /\ UNCHANGED result
       \/ AdminAnswers /\ task[c].do = "set" /\ Goto(c, "reload") /\ UNCHANGED result
    /\ UNCHANGED <<env, files, proxies, task, copy, tries, history>>

\* ... and then pgrep.
Pgrep(c) ==
    /\ pc[c] = "pgrep"
    /\ \/ task[c].do = "start" /\ Goto(c, "launch") /\ UNCHANGED result
       \/ task[c].do = "set" /\ Finish(c, "notRunning")
       \/ task[c].do = "stop" /\ ProcessSeen(c) /\ Goto(c, "unload") /\ UNCHANGED result
       \/ task[c].do = "stop" /\ ~ProcessSeen(c) /\ Finish(c, "stopped")
    /\ UNCHANGED <<env, files, proxies, task, copy, tries, history>>

-----------------------------------------------------------------------------
(* applyModel, applyAPIURL, applyLLMEnabled: a setting is written to the   *)
(* file.                                                                   *)

Compare(c) ==
    /\ pc[c] = "compare"
    /\ LET s == task[c].var IN
         IF Effective(s, env[s]) = Effective(s, task[c].val)
           THEN Finish(c, "unchanged")
           ELSE Goto(c, "read") /\ UNCHANGED result
    /\ UNCHANGED <<env, files, proxies, task, copy, tries, history>>

\* Others that have read the file and not written it yet.
Rewriting(c) == {d \in Commands \ {c} : pc[d] \in {"truncate", "write"}}

\* Mutant: writes the one line and forgets the others.
ReadEnvAfresh(c) ==
    /\ pc[c] = "read"
    /\ copy' = [copy EXCEPT ![c] = [Empty EXCEPT ![task[c].var] = task[c].val]]
    /\ disturbed' = (disturbed \/ Rewriting(c) # {})
    /\ Goto(c, "truncate")
    /\ UNCHANGED <<env, files, proxies, task, tries, result, old, meant>>

\* SetEnvValue reads the file and puts the new contents in a temporary one.
ReadEnv(c) ==
    /\ pc[c] = "read"
    /\ copy' = [copy EXCEPT ![c] = [env EXCEPT ![task[c].var] = task[c].val]]
    /\ disturbed' = (disturbed \/ Rewriting(c) # {})
    /\ Goto(c, "truncate")
    /\ UNCHANGED <<env, files, proxies, task, tries, result, old, meant>>

\* The temporary file is removed.
Discard(c) == copy' = [copy EXCEPT ![c] = Empty]

\* CopyFileWithAdmin opens the file, which empties it, directly or as an
\* administrator; neither may be allowed.
Truncate(c) ==
    /\ pc[c] = "truncate"
    /\ \/ "config" \in files /\ env' = Empty /\ Goto(c, "write") /\ UNCHANGED <<copy, result>>
       \/ Finish(c, "failed") /\ Discard(c) /\ UNCHANGED env
    /\ UNCHANGED <<files, proxies, task, tries, history>>

\* What comes after a setting is written.
AfterWrite(t) ==
    CASE t.do = "set"               -> "status"
      [] t.var = "CADDY_DATA_DIR"   -> "provider"
      [] t.var = "LLM_API_URL"      -> "key"
      [] OTHER                      -> "service"

\* The contents are written, to no avail if the file has been removed, or the
\* disk is full.
WriteEnv(c) ==
    /\ pc[c] = "write"
    /\ \/ /\ env' = IF "config" \in files THEN copy[c] ELSE env
          /\ meant' = [meant EXCEPT ![task[c].var] = task[c].val]
          /\ old' = [old EXCEPT ![c] = Alive]
          /\ Goto(c, AfterWrite(task[c]))
          /\ UNCHANGED <<result, disturbed>>
       \/ /\ Finish(c, "failed")
          /\ disturbed' = TRUE
          /\ UNCHANGED <<env, meant, old>>
    /\ Discard(c)
    /\ UNCHANGED <<files, proxies, task, tries>>

-----------------------------------------------------------------------------
(* RestartProxy.                                                           *)

Reload(c) ==
    /\ pc[c] = "reload"
    /\ Goto(c, IF AdminAnswers THEN "load" ELSE "unload")
    /\ UNCHANGED <<env, files, proxies, task, copy, tries, result, history>>

\* tryHotReload: the process adapts the Caddyfile with the environment it has.
\* Caddy keeps the old configuration if that fails.
Load(c) ==
    /\ pc[c] = "load"
    /\ \/ /\ "config" \in files
          /\ \E p \in Procs :
               /\ proc[p] = "serving"
               /\ conf' = [conf EXCEPT ![p] = Adapt(has[p])]
          /\ Finish(c, "reloaded")
       \/ Goto(c, "unload") /\ UNCHANGED <<conf, result>>
    /\ UNCHANGED <<env, files, daemon, job, proc, has, task, copy, tries, history>>

\* The wait between StopProxy and StartProxy gives up silently.
Drain(c) ==
    /\ pc[c] = "drain"
    /\ \/ /\ ~ProcessSeen(c) \/ tries[c] = Polls
          /\ Goto(c, "launch") /\ UNCHANGED <<tries, result>>
       \/ ProcessSeen(c) /\ tries[c] < Polls /\ Again(c)
    /\ UNCHANGED <<env, files, proxies, task, copy, history>>

-----------------------------------------------------------------------------
(* StopProxy.                                                              *)

\* StopProxy found no process.
Stopped(c) ==
    CASE task[c].do = "stop"      -> Finish(c, "stopped") /\ UNCHANGED tries
      [] task[c].do = "uninstall" -> Goto(c, "remove") /\ UNCHANGED <<tries, result>>
      [] OTHER                    -> Loop(c, "drain") /\ UNCHANGED result

\* launchd takes the job out and ends its process; sudo may fail, unnoticed.
\* StopProxy does so, and who installs or removes the plist.
Unload(c) ==
    /\ pc[c] \in {"unload", "unplug"}
    /\ \/ /\ daemon = "loaded"
          /\ daemon' = "unloaded" /\ job' = None
          /\ proc' = [p \in Procs |-> IF p = job THEN "stopping" ELSE proc[p]]
       \/ UNCHANGED <<daemon, job, proc>>
    /\ Goto(c, CASE pc[c] = "unload"            -> "stopping"
                 [] task[c].do = "uninstall"   -> "plistOut"
                 [] OTHER                      -> "plist")
    /\ UNCHANGED <<env, files, has, conf, task, copy, tries, result, history>>

AdminStop(c) ==
    /\ pc[c] = "stopping"
    /\ Goto(c, IF AdminAnswers THEN "post" ELSE "kill")
    /\ UNCHANGED <<env, files, proxies, task, copy, tries, result, history>>

\* POST /stop is answered by the process that then stops, or not.
Post(c) ==
    /\ pc[c] = "post"
    /\ \/ /\ \E p \in Procs : /\ proc[p] = "serving"
                              /\ proc' = [proc EXCEPT ![p] = "stopping"]
          /\ Loop(c, "gone")
       \/ Goto(c, "kill") /\ UNCHANGED <<proc, tries>>
    /\ UNCHANGED <<env, files, daemon, job, has, conf, task, copy, result, history>>

\* Mutant: the proxy counts as gone once its admin API is.
AwaitNoAdmin(c) ==
    /\ pc[c] = "gone"
    /\ \/ tries[c] < Polls /\ ~AdminAnswers /\ Stopped(c)
       \/ tries[c] < Polls /\ AdminAnswers /\ Again(c)
       \/ tries[c] = Polls /\ Goto(c, "kill") /\ UNCHANGED <<tries, result>>
    /\ UNCHANGED <<env, files, proxies, task, copy, history>>

\* Mutant: the wait has no end.
AwaitForever(c) ==
    /\ pc[c] = "gone"
    /\ ~ProcessSeen(c) /\ Stopped(c)
    /\ UNCHANGED <<env, files, proxies, task, copy, history>>

\* The process is given time to end; then it is killed.
AwaitGone(c) ==
    /\ pc[c] = "gone"
    /\ \/ tries[c] < Polls /\ ~ProcessSeen(c) /\ Stopped(c)
       \/ tries[c] < Polls /\ ProcessSeen(c) /\ Again(c)
       \/ tries[c] = Polls /\ Goto(c, "kill") /\ UNCHANGED <<tries, result>>
    /\ UNCHANGED <<env, files, proxies, task, copy, history>>

\* c sends SIGTERM to all other commands and goes to l.
KillCommands(c, l) ==
    /\ pc' = [d \in Commands |-> IF d = c THEN l
                                 ELSE IF Running(d) THEN "done" ELSE pc[d]]
    /\ result' = [d \in Commands |-> IF d # c /\ Running(d) THEN "killed"
                                                           ELSE result[d]]
    /\ disturbed' = (disturbed \/ \E d \in Commands \ {c} : pc[d] = "write")
    /\ tries' = [tries EXCEPT ![c] = 0]
    /\ UNCHANGED <<env, files, task, copy, old, meant>>

\* stopViaKill: pkill as the user, which reaches commands but no proxy, as
\* they run as root ...
Kill(c) ==
    /\ pc[c] = "kill"
    /\ IF ProcessSeen(c)
         THEN KillCommands(c, "killRoot")
         ELSE /\ Loop(c, "killed")
              /\ UNCHANGED <<env, files, task, copy, result, history>>
    /\ UNCHANGED proxies

\* ... and as an administrator, if something is left and the user allows it.
KillRoot(c) ==
    /\ pc[c] = "killRoot"
    /\ \/ /\ ProcessSeen(c)
          /\ KillCommands(c, "killed")
          /\ proc' = [p \in Procs |-> IF p \in Alive THEN "stopping" ELSE None]
       \/ /\ Loop(c, "killed")
          /\ UNCHANGED <<proc, env, files, task, copy, result, history>>
    /\ UNCHANGED <<daemon, job, has, conf>>

AwaitKilled(c) ==
    /\ pc[c] = "killed"
    /\ \/ ~ProcessSeen(c) /\ Stopped(c)
       \/ ProcessSeen(c) /\ tries[c] < Polls /\ Again(c)
       \/ /\ ProcessSeen(c) /\ tries[c] = Polls
          /\ \/ task[c].do = "uninstall" /\ Goto(c, "remove") /\ UNCHANGED result
             \/ task[c].do # "uninstall" /\ Finish(c, "failed")
          /\ UNCHANGED tries
    /\ UNCHANGED <<env, files, proxies, task, copy, history>>

-----------------------------------------------------------------------------
(* StartProxy.                                                             *)

\* A process begins that was not there before.
Spawn(p) ==
    /\ proc[p] = None
    /\ proc' = [proc EXCEPT ![p] = "launched"]
    /\ old' = [d \in Commands |-> old[d] \ {p}]

\* loadDaemon registers the job; startDirect runs the binary in a shell of an
\* administrator. Either may be refused.
Launch(c) ==
    /\ pc[c] = "launch"
    /\ \/ /\ Installed
          /\ daemon' = "loaded"
          /\ Goto(c, "kickstart")
          /\ UNCHANGED <<proc, tries, result, old>>
       \/ /\ ~Installed
          /\ \E p \in Procs : Spawn(p)
          /\ Loop(c, "up")
          /\ UNCHANGED <<daemon, result>>
       \/ /\ daemon # "loaded"
          /\ Finish(c, "failed")
          /\ UNCHANGED <<daemon, proc, tries, old>>
    /\ UNCHANGED <<env, files, job, has, conf, task, copy, meant, disturbed>>

\* launchd starts the job's process unless it has one. Without the job, or
\* without leave of sudo, it refuses.
Kickstart(c) ==
    /\ pc[c] = "kickstart"
    /\ \/ /\ Loaded /\ job = None
          /\ \E p \in Procs : Spawn(p) /\ job' = p
          /\ Loop(c, "up")
          /\ UNCHANGED result
       \/ /\ Loaded /\ job # None
          /\ Loop(c, "up")
          /\ UNCHANGED <<proc, job, old, result>>
       \/ /\ Finish(c, "failed")
          /\ UNCHANGED <<proc, job, old, tries>>
    /\ UNCHANGED <<env, files, daemon, has, conf, task, copy, meant, disturbed>>

\* waitForStart: any process will do.
AwaitUp(c) ==
    /\ pc[c] = "up"
    /\ LET found == AdminAnswers \/ ProcessSeen(c) IN
         \/ /\ tries[c] < Polls /\ found
            /\ Finish(c, IF task[c].do = "start" THEN "started" ELSE "restarted")
            /\ UNCHANGED tries
         \/ tries[c] < Polls /\ ~found /\ Again(c)
         \/ tries[c] = Polls /\ Finish(c, "failed") /\ UNCHANGED tries
    /\ UNCHANGED <<env, files, proxies, task, copy, history>>

-----------------------------------------------------------------------------
(* The setup wizard.                                                       *)

Rewrite(c, s, v) ==
    /\ task' = [task EXCEPT ![c] = [do |-> "setup", var |-> s, val |-> v]]
    /\ Goto(c, "read")
    /\ UNCHANGED result

\* The directory and its files are made if they are not there.
EnsureConfigDir(c) ==
    /\ pc[c] = "ensure"
    /\ \/ /\ files' = files \cup {"config"}
          /\ \/ env["CADDY_DATA_DIR"] = Unset /\ Rewrite(c, "CADDY_DATA_DIR", DataDir)
             \/ /\ env["CADDY_DATA_DIR"] # Unset
                /\ Goto(c, "provider") /\ UNCHANGED <<task, result>>
       \/ Finish(c, "failed") /\ UNCHANGED <<files, task>>
    /\ UNCHANGED <<env, proxies, copy, tries, history>>

\* configureProvider: the endpoint is asked for and written, then the key. The
\* user may keep the provider or take none, and either answer may be refused.
Choose(c) ==
    /\ pc[c] \in {"provider", "key"}
    /\ \/ pc[c] = "provider" /\ Goto(c, "service") /\ UNCHANGED <<task, result>>
       \/ \E ch \in Changes :
            /\ ch[1] = IF pc[c] = "provider" THEN "LLM_API_URL" ELSE "LLM_API_KEY"
            /\ Rewrite(c, ch[1], ch[2])
       \/ Finish(c, "failed") /\ UNCHANGED task
    /\ UNCHANGED <<env, files, proxies, copy, tries, history>>

\* The service is installed if it is not; that may fail before it begins.
Service(c) ==
    /\ pc[c] = "service"
    /\ \/ ~Installed /\ Goto(c, "unplug")
       \/ Goto(c, "proxy")
    /\ UNCHANGED <<env, files, proxies, task, copy, tries, result, history>>

\* installDaemon, after Unload: the administrator copies the plist, or does not.
InstallPlist(c) ==
    /\ pc[c] = "plist"
    /\ daemon' \in {daemon, IF Loaded THEN "loaded" ELSE "unloaded"}
    /\ Goto(c, IF task[c].do = "update" THEN "reload" ELSE "proxy")
    /\ UNCHANGED <<env, files, job, proc, has, conf, task, copy, tries, result, history>>

\* A proxy whose admin API answers is restarted; what the wizard does from here
\* is what that command does.
Proxy(c) ==
    /\ pc[c] = "proxy"
    /\ IF AdminAnswers
         THEN task' = [task EXCEPT ![c] = [do |-> "restart"]] /\ Goto(c, "reload")
         ELSE task' = [task EXCEPT ![c] = [do |-> "start"]] /\ Goto(c, "pgrep")
    /\ UNCHANGED <<env, files, proxies, copy, tries, result, history>>

-----------------------------------------------------------------------------
(* Update and uninstall.                                                   *)

\* There is nothing newer, or install.sh fails, or it puts the binaries there. A
\* daemon that is loaded is installed again, if that does not fail at once, and
\* restarted; what comes of it is not looked at.
Replace(c) ==
    /\ pc[c] = "replace"
    /\ \/ /\ \/ Finish(c, "unchanged")
             \/ Finish(c, "failed")
          /\ UNCHANGED <<files, old>>
       \/ /\ files' = files \cup {"binaries"}
          /\ old' = [old EXCEPT ![c] = Alive]
          /\ \/ ~Loaded /\ Finish(c, "updated")
             \/ Loaded /\ Goto(c, "unplug") /\ UNCHANGED result
             \/ Loaded /\ Goto(c, "reload") /\ UNCHANGED result
    /\ UNCHANGED <<env, proxies, task, copy, tries, meant, disturbed>>

\* The user confirms; StopProxy, whatever it answers, if anything runs.
Confirm(c) ==
    /\ pc[c] = "confirm"
    /\ \/ Finish(c, "unchanged")
       \/ /\ Goto(c, IF ProcessSeen(c) /\ "binaries" \in files THEN "unload" ELSE "remove")
          /\ UNCHANGED result
    /\ UNCHANGED <<env, files, proxies, task, copy, tries, history>>

RemoveService(c) ==
    /\ pc[c] = "remove"
    /\ Goto(c, IF Installed THEN "unplug" ELSE "binaries")
    /\ UNCHANGED <<env, files, proxies, task, copy, tries, result, history>>

\* uninstallDaemon, after Unload; the administrator may not be asked in vain.
RemovePlist(c) ==
    /\ pc[c] = "plistOut"
    /\ daemon' \in {daemon, IF Loaded THEN "orphaned" ELSE "absent"}
    /\ Goto(c, "binaries")
    /\ UNCHANGED <<env, files, job, proc, has, conf, task, copy, tries, result, history>>

\* removePaths reports nothing.
RemoveBinaries(c) ==
    /\ pc[c] = "binaries"
    /\ files' \in {files, files \ {"binaries"}}
    /\ Goto(c, "config")
    /\ UNCHANGED <<env, proxies, task, copy, tries, result, history>>

RemoveConfig(c) ==
    /\ pc[c] = "config"
    /\ \/ /\ files' = files \ {"config"}
          /\ env' = Empty /\ meant' = Empty
          /\ disturbed' = (disturbed \/ Rewriting(c) # {})
       \/ UNCHANGED <<files, env, meant, disturbed>>
    /\ Finish(c, "removed")
    /\ UNCHANGED <<proxies, task, copy, tries, old>>

-----------------------------------------------------------------------------
(* The proxy.                                                              *)

\* delegateToCaddy, or the shell of startDirect, reads the file and becomes
\* Caddy.
Source(p) ==
    /\ proc[p] = "launched" /\ "binaries" \in files
    /\ proc' = [proc EXCEPT ![p] = "starting"]
    /\ has' = [has EXCEPT ![p] = env]
    /\ UNCHANGED <<env, files, daemon, job, conf, task, pc, copy, tries, result, history>>

Serve(p) ==
    /\ proc[p] = "starting" /\ "config" \in files
    /\ proc' = [proc EXCEPT ![p] = "serving"]
    /\ conf' = [conf EXCEPT ![p] = Adapt(has[p])]
    /\ UNCHANGED <<env, files, daemon, job, has, task, pc, copy, tries, result, history>>

\* It ends: asked to, because it cannot start (a port is taken) or in a crash.
\* launchd does not start it again: the job has no KeepAlive.
Exit(p) ==
    /\ proc[p] # None
    /\ proc' = [proc EXCEPT ![p] = None]
    /\ has' = [has EXCEPT ![p] = Empty]
    /\ conf' = [conf EXCEPT ![p] = Adapt(Empty)]
    /\ job' = IF job = p THEN None ELSE job
    /\ UNCHANGED <<env, files, daemon, task, pc, copy, tries, result, history>>

-----------------------------------------------------------------------------

Asked == [do : {"start", "stop", "restart", "logs", "setup", "update", "uninstall"}]
         \cup {[do |-> "set", var |-> ch[1], val |-> ch[2]] :
                  ch \in {ch \in Changes : ch[1] # "LLM_API_KEY"}}

Stop(c)    == Unload(c) \/ AdminStop(c) \/ Post(c) \/ AwaitGone(c)
              \/ Kill(c) \/ KillRoot(c) \/ AwaitKilled(c)
Start(c)   == Launch(c) \/ Kickstart(c) \/ AwaitUp(c)
Set(c)     == Compare(c) \/ ReadEnv(c) \/ Truncate(c) \/ WriteEnv(c)
Restart(c) == Reload(c) \/ Load(c) \/ Drain(c)
Setup(c)   == EnsureConfigDir(c) \/ Choose(c) \/ Service(c) \/ InstallPlist(c) \/ Proxy(c)
Remove(c)  == Replace(c) \/ Confirm(c) \/ RemoveService(c) \/ RemovePlist(c)
              \/ RemoveBinaries(c) \/ RemoveConfig(c)
Step(c)    == Status(c) \/ Pgrep(c) \/ Set(c) \/ Restart(c) \/ Stop(c) \/ Start(c)
              \/ Setup(c) \/ Remove(c)

Next ==
    \/ \E c \in Commands : (\E t \in Asked : Command(c, t)) \/ Interrupt(c) \/ Step(c)
    \/ \E p \in Procs : Source(p) \/ Serve(p) \/ Exit(p)

\* Commands run; a process that was told to stop does.
Fairness ==
    /\ \A c \in Commands : WF_vars(Step(c))
    /\ \A p \in Procs : WF_vars(proc[p] = "stopping" /\ Exit(p))

Spec == Init /\ [][Next]_vars /\ Fairness

-----------------------------------------------------------------------------

\* When stop says stopped, and when restart (or a setting) says restarted after
\* a full stop and start, every proxy there was when the command began, or had
\* written its setting, is gone: whatever runs read its environment later. It
\* holds whoever else starts and stops proxies meanwhile.
StoppedMeansGone ==
    \A c \in Commands :
        result[c] \in {"stopped", "restarted"} => old[c] \cap Alive = {}

\* The file holds what was last set of every setting, unless two commands
\* rewrote it at once, or one died or failed while it wrote: SetEnvValue keeps
\* the lines it is not about.
SettingsSurvive ==
    ~disturbed /\ (\A c \in Commands : pc[c] # "write") => env = meant

\* Every command ends, also when another one, or `tudy logs`, is what pgrep
\* finds each time, and when two commands wait for each other to go away.
CommandsEnd ==
    \A c \in Commands :
        Running(c) /\ task[c].do # "logs" ~> pc[c] = "done"

\* A setting that was changed with success is in effect in the running proxy:
\* README.md:186 and the comment of restartIfRunning promise it of the setup
\* commands and llm. With one command, as others may change the setting again.
SettingTakesEffect ==
    \A c \in Commands :
        task[c].do = "set" /\ result[c] \in {"reloaded", "restarted"} =>
            \A p \in Procs :
                proc[p] = "serving" /\ task[c].var \in CaddyVars =>
                    conf[p][task[c].var] = Effective(task[c].var, task[c].val)
=============================================================================
