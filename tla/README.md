# tudy in TLA+

tudy is a reverse proxy for development: a Caddy module (`src/llm_resolver/`)
that gives `<name>.localhost` to the local process or container it finds for
that name, with a heuristic or an LLM, and remembers the answer; and a CLI
(`src/cmd/cli/`) that starts, stops and configures the proxy. This directory
holds TLA+ models of the proxy, the TLC configurations that check them, and
TLAPS proofs about them.

A module is checked with `tlc -config <file>.cfg <module>.tla` and proved with
`tlapm <module>.tla`. `PROJECT.json` lists every run with its properties, a
mutant of the code's behaviour that each property catches, the source lines
behind every definition, the findings and the hazards.

## 1. The system

### Components

| Component | Code | State | Operations |
| --- | --- | --- | --- |
| Mapping cache | `cache.go` | `mappings` under `mu`; `saveMu`; the file and `<file>.tmp` | `Load`, `Save`, `Set`, `Delete`, `Get` |
| Request resolution | `handler.go` | `resolveGroup` (singleflight) | `ServeHTTP`, `handleSecondLevelProxy`, `resolveTargetChain`, `resolveRelatedChain`, mappings API |
| Routing picker | `picker.go` | none of its own: writes mappings | page, `handlePickerSelect` |
| LLM resolver | `resolver.go` | none; a 30 s HTTP client | `ResolveTarget`, `ResolveRelatedService` |
| Heuristic | `heuristic.go` | none | `ResolveHeuristically`, `ResolveRelatedHeuristically` |
| Port resolution | `port_resolver.go` | cache of regular expressions | `ResolveProcessPort` |
| Process cache | `process_cache.go` | list, `lastUpdate`, RWMutex | `Get`, `Invalidate` |
| Discovery | `discovery/processes.go`, `discovery/docker.go` | none | `DiscoverLocalProcesses`, `DiscoverDockerContainers`, `GetContainerIP`, `GetContainerHostAddress` |
| Network tunnel | `network_tunnel_darwin.go` | `healthy`, reachability cache, generation counters, `probeGroup`, `stopCh` | `IsReachable`, `InvalidateReachability`, `Start`, `Stop`, health loop |
| Upstream building | `handler.go` `buildUpstreamURL` | none of its own | one call for every proxied request |
| Route statistics | `route_stats.go`, `status_writer.go` | map of `routeStats` under `mu`, each with its own mutex and ring of buckets | `Record`, `Forget`, `Snapshot` |
| Log buffer | `log_buffer.go` | a list of 500 entries under `mu` | `Add`, `Entries`; a core of the logger |
| Dashboard | `dashboard*.go` | none | pages and an event stream over what the others hold; the timeline of the logs |
| Caddy module | `module.go` | the parts above | `Provision`, `Cleanup` |
| Command line | `cmd/cli/proxy.go`, `llm.go`, `setup.go`, `update.go`, `uninstall.go`, `launchd_darwin.go`, `delegate.go`, `cmd/shared/env.go` | environment file, plist, launchd's job, binaries, processes | start, stop, restart (hot reload or full), logs, changing a setting, setup wizard, update, uninstall |
| Other commands | rest of `cmd/cli/` | none | doctor, trust, status, help, `tudy caddy` |

### How they interact

A request reaches `ServeHTTP` in a goroutine of its own. It looks its key up in
the mapping cache; on a miss it enters the singleflight group, whose leader
discovers processes and containers, tries the heuristic, then the LLM, sets the
mapping and saves it. `buildUpstreamURL` turns the mapping into an address: the
process cache gives a process's current port, the tunnel and docker a
container's address. The deferred `Record` counts the answer, and then the
request is logged; the logger's core keeps the entry for the logs page beside
what everything else logs. The mappings API
and the picker change the mapping cache beside the group. In a hot reload Caddy
provisions a new module (which loads the file) before it lets go of the old one,
whose handlers still run and save. The command line knows nothing of all this:
it asks the admin API, `pgrep` and launchd what runs, and shares no lock with
another invocation of itself. The setup wizard writes settings, installs the
daemon and starts or restarts the proxy; update replaces the binaries, installs the
daemon again and restarts; uninstall stops everything and removes it.

### What is hard

- **Interleaving.** Every handler, probe, health check and hot reload is a
  goroutine; mutexes are released between the steps of one operation (`Save`,
  `Record`, `IsReachable`, `InvalidateReachability`, `ProcessCache.Get`), and an
  entry of the log is stamped before its buffer is locked.
- **State read early and used late.** The leader stores after an LLM call of up
  to 30 s; `Save` writes a copy taken before its lock; `buildUpstreamURL` reads
  the tunnel once and asks docker several times.
- **Failure in the middle.** Writes and renames fail, the process dies, probes
  panic, clients leave, discovery fails while a lock is held.
- **A world that moves.** A discovery is up to four calls of other programs, or
  many reads of `/proc`; processes end and containers stop between any two.
- **Bounds.** 256 reachability entries, 200 routes, 30 buckets; expiry at
  two time scales.
- **Two views of one thing.** A request is an error to the statistics by one
  condition and to the logs page by another; a bar of the timeline counts entries
  by an index, a click on it selects them by their time.
- **Other processes.** Two commands rewrite one environment file, wait for each
  other's processes, kill each other with `pkill -f tudy`, and remove what the
  other one is about to use. Most failures of what they call are ignored.
- **Order.** Processes come out of a Go map: no rule may depend on their order.

## 2. Modules

| Module | Models | Extends / instantiates |
| --- | --- | --- |
| `MappingStore` | `cache.go` with its callers, hot reload, crash | `SnapshotStore` (refined) |
| `SnapshotStore` | what a cache promises about its file | |
| `RouteResolver` | request resolution, mappings API, picker's writes | |
| `NetworkTunnel` | the reachability cache | |
| `ProcessCache` | `process_cache.go` | |
| `Upstream` | `buildUpstreamURL`, the health loop, `Cleanup` | `ProcessCache` (composed) |
| `Selection` | the loops over a slice that keep some elements, or the best one | |
| `ServiceMatching` | discovery's filters, the heuristic, port resolution | `Selection` (extended) |
| `Discovery` | one discovery of processes and containers, call by call | `ServiceMatching` (extended) |
| `RouteStats` | statistics and status capture | `Selection` (extended) |
| `LogBuffer` | the ring of log entries; filter, window and timeline of the logs page | `Selection` (extended) |
| `Activity` | a request recorded, then logged, beside whatever else is logged | `RouteStats`, `LogBuffer` (extended) |
| `ProxyLifecycle` | the command line, setup wizard, update and uninstall included, against proxy, launchd, environment file and installed files (macOS) | |
| `FoldLemmas` | what sums over finite sets and the loops of `Selection` compute, for every length | `Selection`, `TLAPS` |
| `MatchingProofs` | theorems about `ServiceMatching` and `Discovery` | `Discovery`, `FoldLemmas` |
| other `*Proofs` | theorems about the module of that name | the module, `TLAPS` |
| `MC*` | constants and symmetry for TLC | the module |

### How state and actions correspond to the code

**MappingStore.** `mem[i]` is `c.mappings` of module instance `i`, `saveMu[i]`
its lock, `file` and `tmp` what the two paths hold. A handler is at `pc[w]`.
`Set`/`Delete` change the map; `TakeSnapshot` is the copy under `mu.RLock`;
`LockSave`, `OpenTmp` (`O_TRUNC`), `WriteTmp`, `Rename` and `ReturnOK` are the
rest of `Save`; `MkdirFails`, `OpenFails`, `WriteFails`, `RenameFails`,
`RemoveTmp` and `ReturnError` its error paths. `fd[w]` says which path an open
descriptor refers to, since `rename(2)` moves the inode under it. `Provision`,
`Start`, `Cleanup` are Caddy's hot reload (one at a time), `Reject` one that fails
after `Provision`, `Crash` kills the process inside any step. `Provision` reads the
file, or fails to although the file is whole (`EACCES`, `EIO`, `EMFILE`): the code
logs that it starts fresh and goes on with an empty map, which its first `Save`
writes over the file. `unread[i]` and `wiped` record the one and the other. A
handler of the instance that is being replaced may still `Set` and `Save`, as a
leader does whose resolution began before the reload; `raced` records that, and any
other overlap of handlers or of a handler and a reload. Operating-system crashes that lose the page cache are
left out: the code does not call `fsync` and promises nothing about them. A
mapping is the stamp of the call that wrote it and whether it is present.

**RouteResolver.** `cache` is the map, `flight[k]` the leader the singleflight
group knows for a key. `Arrive` reads the request and the cache, `Do` enters the
group, `DoubleCheck` is the leader's second look, `Heuristic`, `Answered`,
`NotAnswered` the chains, `Store` is `cache.Set`, `Finish` the end of the call
for all who share it, `Respond` the answer. `Hosts` are keys of first-level
requests, `Related` those of `/_proxy/`, whose chain differs in what `?force`
skips. `PutMapping`, `DeleteMapping`, `PickerSelect`, `EditSaved`,
`EditNotSaved` are the API and the picker. Whether `Save` succeeds for the
leader is not visible here: the code only logs it. The file itself is
`MappingStore`.

**NetworkTunnel.** Each critical section of `nt.mu` and each step of the
singleflight group is an action: `Call` and `LookAgain` are `lookupCache`,
`StartProbe` is `currentGen`, `StoreResult` is `storeCacheIfGen` with
`evictLocked`, `ProbePanics` the deferred recover, `Clear` and `Forget` the two
halves of `InvalidateReachability`. `Tick` ages entries by one `unreachableTTL`;
`reachableTTL` is two ticks (10 s and 5 s in the code). `probedAt`,
`needs`, `cleared` and `pruned` are history.

**ProcessCache and Upstream.** `Read`, `Lock`, `ReadAgain`, `Discover`,
`DiscoveryFails`, `Update` are `ProcessCache.Get`; `Expire` is its time to live
or `Invalidate`. In `Upstream` a request is `Arrive`, then for a process
`GetProcesses` and `ResolvePort`; for a container `ReadTunnel`, `InspectFirst`,
`Probe`, `Publish`, `InspectAgain`, `Check`, `ProbeAgain` in the order
`buildUpstreamURL` calls them. The process, the container and docker itself
change between any two steps (`ProcessChanges`, `ContainerChanges`).
`HealthTick`, `HealthProbe`, `HealthExit` are `healthLoop`, `Cleanup` is the
module's. What `IsReachable` answers is a choice here and `NetworkTunnel` there.

**ServiceMatching.** Pure functions as operators: `DiscoverLocalProcesses`
(filter, children, one port per process), `ResolveHeuristically`,
`ResolveRelatedHeuristically`, `MatchWorkdir`, `BetterMatch`,
`ResolveProcessPort`. A directory is a sequence of names, a hostname one of
labels. Its actions ask them while listeners come and go. The orders that
sockets, Go maps and `docker ps` produce are all tried. `ResolveTarget` takes what
the heuristic answers; `NameProcess` is a mapping with a `CommandPattern`, as the
LLM and a PUT make them and the heuristic does not. A pattern is one of the words
of a command.

**Discovery.** `at` is the call that comes next and `found` what is known by now:
`Lsof`, `Netstat` (macOS), `Ss`, `InodePidMap`, `TcpFile` (Linux) list sockets,
in any order and with the fallbacks of `DiscoverLocalProcesses`. `ReadBatch` is a
call of `getProcessInfoBatchMac`, ps before lsof; `ReadProcess` a file or link in
`/proc`; `Filter`, `ReadParent` and `ParentsRead` what Linux does before the rest of
`DiscoverLocalProcesses`, which is `ServiceMatching`'s (`Filter` again finds
nothing to drop, and macOS filters only there). `DockerPs` and `DockerInspect` are
`DiscoverDockerContainers`, `Resolve` the heuristic. `Opens`, `Closes`, `Ends`,
`ContainerStarts`, `ContainerStops` change the world between any two of them.
Every call may tell less than it could (`less`): it is refused, times out, or
shows a user that user's processes only; `blind` says that ps told nothing. `was`,
`stays` and `runs` record what was there at some time and throughout. Lines are
sockets: how their fields are cut out of text is left out, and `/proc/net/tcp` and
`tcp6` are one table. A process id is not used again within a discovery (a few
seconds at most). Of the filter's conditions the one by arguments is modelled as
the process's, `ignored`, and known only when its arguments are; command and
directory are `ServiceMatching`'s. The containers' IDs of `docker ps`
are paired with `docker inspect`'s output by index, which shifts when a container
goes in between; no rule reads the ID, so it is not in the model.

**RouteStats.** `routes[h]` is the map, `stats[o]` a `routeStats` object (named
after the request that made it: an evicted object lives on in who found it).
`Lookup`, `Scan`, `Evict`, `Create` run under `StatsTracker.mu`, `RecordEvent`
under the object's own mutex. `Serve` folds the status writer over what a
handler may call; `statusCode[q]` is what it captured, which `Record` and the log
both read. A tick is a bucket of 10 s.

**LogBuffer and Activity.** `buffer` is the ring as its readers see it, the oldest
entry first; an entry is its time, level, hosts, and for a request its status.
`HostScoped`, `Rows`, `Grid`, `BarOf`, `Total`, `Errors`, `Selected` are
`handleLogsHTML` and `buildLogTimeline`, pure functions of the buffer. In
`Activity` every logger, a request (`LogRequest`, after its `Record`) or anything
else (`LogNote`), takes the time in one step and the buffer's lock in a later one
(`AddEntry`), as zap's `Check` and `Write` do. Bounds: a behaviour has requests
or other entries (`OneKind`), since they meet only in the buffer, which the
entries alone fill in any order; and the clock's tick is a bucket to the
statistics and, at another scale, a second to the log.

**ProxyLifecycle.** `env` is the environment file, `files` which of the binaries
and the configuration directory exist, `daemon` and `job` what launchd knows
(`orphaned`: it still has a job whose plist was removed), `proc[p]` a proxy's
process, `has[p]` the environment it was started with, `conf[p]` the settings its
configuration was made of. A command is at `pc[c]`; `copy[c]` is what it will
write, `tries[c]` its round of a polling loop. `Status` and `Pgrep` are the two
questions of `CheckProxyStatus`; `Compare`, `ReadEnv`, `Truncate`, `WriteEnv` are
`applyModel`, `applyAPIURL` and `applyLLMEnabled` with `SetEnvValue` and
`CopyFileWithAdmin`; `Reload`, `Load`, `Drain` are `RestartProxy`; `Unload`,
`AdminStop`, `Post`, `AwaitGone`, `Kill`, `KillRoot`, `AwaitKilled` are `StopProxy`
and `stopViaKill`; `Launch`, `Kickstart`, `AwaitUp` are `StartProxy`. The wizard is
`EnsureConfigDir`, `Choose` (which goes through `ReadEnv` to `WriteEnv` for each
setting), `Service`, `Unload` and `InstallPlist`, then `Proxy`, from where it does
what restart or start does and is modelled as that command. Update is `Replace`,
`Unload` and `InstallPlist`, then `RestartProxy`, and its result in the model is
what that returned, which the code drops. Uninstall is `Confirm`, `StopProxy`,
`RemoveService`, `Unload` and `RemovePlist`, `RemoveBinaries`, `RemoveConfig`; it
goes on after each failure. A prompt is answered, or refused, in the step that
asks. `Source`, `Serve`, `Exit` are the process: it reads the file, answers, ends
(also by itself). `ProcessSeen` is `pgrep -f tudy`, which finds other commands but
not the one that asks. Every external call may be refused where the code goes on.
Bounds: `Polls`, for loops of 20 and 10 rounds, and `May`, what each command may be
asked to do. `old`, `meant` and `disturbed` are history.

## 3. Runs

Passing runs:

| Run | Question | Bounds |
| --- | --- | --- |
| `store_concurrent` | Do two handlers of one cache keep the file whole, lose no older saved change, implement `SnapshotStore`, and return? | 2 hosts, 2 handlers, 3 changes, 1 crash, any I/O failure |
| `store_reload` | Without overlapping handlers, and until an instance that has not read the file saves over it, are acknowledged changes on disk, and served where the file was read, through reloads, failed reads and crashes? | 1 handler, 2 instances, 3 changes, 2 crashes |
| `route` | One resolution per key, no stale answer, only overlapping edits overwritten, everyone answered? | 1 hostname and 1 related key, 2 requests (`?force`, `?prompt` or plain), 1 API client |
| `tunnel` | Does the reachability cache keep its bound, stale probes out, and every caller answered? | 2 targets, room for 1, 2 callers, 1 invalidation |
| `upstream` | Are addresses confirmed, process lists recent, published ports enough, requests answered, the health loop ended? | 2 requests for a process, 1 for a container, 2 networks, 1 port |
| `matching` | Do hostnames, related services and ports resolve as the rules say, in every order, for mappings of the heuristic and of the LLM? | up to 3 of 11 listeners, 2 of 3 containers, 3 hostnames, 2 services, 1 command pattern |
| `discovery` | While processes and containers come and go between its calls, does a discovery map nothing unwanted, find what stays, and hide children? | up to 3 of 5 sockets, 2 containers, 2 changes, both systems, any refusal |
| `lifecycle` | With two commands at once, does stop leave no older proxy, does the file keep other settings, does every command end? | 2 commands, one of any of the eight kinds and one stop or setting; 2 process numbers, 3 changes of settings, loops of 1 round; a fresh installation, or one with or without a daemon |
| `stats` | Is the map bounded, the window exact, nothing lost, no success counted as an error; does the log tell the same story, and do the bars of its timeline count the rows they show? | 2 hosts, 2 requests, room for 1 route, 2 buckets, 4 ticks; or 3 other entries in a buffer of 2, bars 1 or 2 wide, at most 2 of them |

Why these bounds are enough for the cases that matter: two handlers or callers
are what every race here needs (a third adds a repetition of one of them, and
the proofs below cover any number); a cache with room for one of two targets
evicts on every second store; three changes allow two handlers to save
concurrently and a third save to follow; with room for one of two routes every
second host evicts while the other is still recording; two buckets and four ticks
reuse a slot, with room for a late `Record`; two entries kept of three wrap the
ring, and their five times span more than two bars of either width, so that the
oldest entries fall off the timeline; three listeners are two that compete and one
that decides. `Invalidated` in `tunnel` restricts invalidation to one of the
two targets, which are symmetric. `DockerCallers` in `upstream` admits one
request for a container: requests for containers share only what they read. One
round of a polling loop is one that finds nothing and one that gives up; more
rounds repeat the first. Two changes let a server and its parent, or the owner of
a port and its successor, go and come within one discovery. A second command
beside the one of any kind is one that kills and waits (stop) or one that
rewrites the file (set): the others are made of these and of starting a proxy,
which the first command and crashes already interleave with. `CaddyVars` is empty
in `lifecycle`, whose properties read no configuration.

Runs that find what the code does against what the repository says, each with a
finding:

| Run | Violated | Because |
| --- | --- | --- |
| `store_lost_save` | `AckedDurable` | `Save` copies the map before it takes `saveMu`; the older copy may be renamed last |
| `route_selection_lost` | `SelectionStands` | the leader stores over a mapping selected while it resolved |
| `lifecycle_setting` | `SettingTakesEffect` | a changed setting is followed by a hot reload of a process that keeps its environment |

Two more disagreements are stated by properties that hold instead of runs that
fail. `CounterKeepsStaleOut` has the exception `key[c] \in pruned` because
`evictLocked` drops the generation counter of a key whose forgotten probe still
runs; that probe then finds the counter back at its first value and stores a
stale result, against the comment at `network_tunnel_darwin.go:338`
(`InvalidateReachability` has no caller outside the tests yet).
`ForcedLeaderResolves` speaks of leaders: a `?force` request that joins a call
is answered by what the call's leader did, the heuristic included.

More were met while modelling and have no run. A mapping that the heuristic
makes because a process's command matches the service ("process in .../myapp whose
command matches "api"", `heuristic.go:19-23`) saves only the directory
(`heuristic.go:112`), and `ResolveProcessPort` then takes the lowest port of that
directory, which may be another process's; `ExactDirectoryWins` says what does
hold.

Three of them are of the cache file, whose mappings are to be "used for all future
requests" (`picker.go:343`). When `os.ReadFile` fails on an intact file (`EACCES`,
`EIO`, `EMFILE`; `cache.go:58-64`), `Provision` only logs "starting fresh"
(`module.go:127`), the instance serves no mapping, and its first `Save` replaces
every acknowledged one on disk (`MappingStore`: `readFails`, `unread`, `wiped`). In
a hot reload the new instance reads the file once, while handlers of the old one
may still `Set` and `Save` (`Mutate` in a draining instance): what they acknowledge
is not served, and the new instance's next `Save` writes over it. The two instances
also share `<file>.tmp` and no lock, so the file can be torn: `FileWhole` is checked
and proved for one instance only.

Elsewhere, the `docker inspect`
template of `GetContainerIP` writes the addresses of several networks without a
separator; such an answer is not an address of `Upstream`'s world. The Caddyfile
that `setup` generates (`config.go:186`) names neither `MODEL` nor
`LLM_API_URL`: with it these settings have no effect at all, which is why
`CaddyVars` is a constant. `Entries` is said to return entries in chronological
order (`log_buffer.go:43`), but an entry gets its time before it gets the buffer's
lock; the timeline takes the earliest and the latest and does not rely on the
order, which `BarsShowTheirRows` checks. The wizard "prompts for the
matching API key and writes both" (`setup.go:181-183`): if no key is given after
the provider, the new endpoint stays in the file with the old key. Update prints
"Restarting proxy with new version... done" (`update.go:53-60`) whatever
`installDaemon` and `RestartProxy` answered, and where the daemon could not be
unloaded that restart is a hot reload of the old binary's process. Uninstall says
"fully removed" (`uninstall.go:87`) although a refused step leaves its file,
or launchd's job, behind.

### Properties

- *File*: `FileWhole`, `SaveKeepsOlderSaves`, `StoreSpec` (refinement of
  `SnapshotStore`), `QuietKeepsAcked`, `SavedIsServed`, `SaveReturns`. Three of them
  stop where an instance could not read the file: `SaveKeepsOlderSaves` promises
  such an instance's saves nothing but its own change, `QuietKeepsAcked` ends with
  the first of them (not with the failed read, which by itself loses nothing), and
  a restart of `SnapshotStore` may begin with nothing. What is lost then, and in a
  hot reload that a handler overlaps, is described above.
- *Resolution*: `OneResolutionPerKey`, `LeaderStoresItsAnswer`,
  `ForcedLeaderResolves`, `NoStaleAnswer`, `OverwritesOnlyOverlapping`,
  `EveryRequestAnswered`.
- *Reachability*: `CacheBounded`, `FreshAfterInvalidate`,
  `CounterKeepsStaleOut`, `CallsAnswered`.
- *Upstream*: `ConfirmedIP`, `PublishedSuffices`, `DiscoversOnlyStale`,
  `ListIsRecent`, `RequestsAnswered`, `LoopEnds`.
- *Matching*: `OnePortPerProcess`, `OrderNeverDecides`,
  `RelatedStaysInProject`, `HomeNeverClaims`, `ExactDirectoryWins`.
  Two processes on one port number (bound to different addresses) share the key
  `dedupeCandidates` uses: `OrderNeverDecides` then promises one target and port,
  and the whole answer only for distinct port numbers.
- *Discovery*: `MapsWhatIsWanted`, `StaysListed`, `ChildrenHidden`. Two things may hide
  a server that runs throughout, and `StaysListed` excepts them: another process on
  its port number, and its parent where that is wanted. On macOS the parent need
  only have looked wanted: ps tells its arguments, it ends, lsof no longer tells
  the directory that excludes it, and its child is dropped as a wanted process's.
  That takes more sockets than the run has; the proof found it.
- *Statistics*: `RoutesBounded`, `WindowIsExact`, `NoRequestLost`,
  `ErrorsAreReal`. The converse of `ErrorsAreReal` does not hold, nor is it promised:
  an error that `reverse_proxy` returns before it writes is turned into a 5xx
  by Caddy after `Record` has run.
- *Statistics and log*: `LogAgreesWithStats`, `BarsShowTheirRows`,
  `BarsStayAligned`.
- *Command line*: `StoppedMeansGone`, `SettingsSurvive`, `CommandsEnd`.
  `SettingsSurvive` is about the rewrites of one command at a time: when two
  overlap, or uninstall removes the file under one, a change is lost, as no lock
  would prevent it; no document promises otherwise.

Types (`TypeOK`; of `Activity`, and `RouteStats` with it, `LogTypeOK`; for
`ServiceMatching` and `Discovery` the first conjuncts of `MatchingInv` and
`DiscoveryInv`) are proved below for every instance and are in no run. So are `WaitersHaveALeader` and `FollowersAreLed`: a request or a caller
that waits in a singleflight group has a leader to wait for.

### Fairness

- Handler goroutines and probes run: weak fairness of what one does next.
- `sync.Mutex` hands the lock to its oldest waiter after a millisecond
  (starvation mode): strong fairness of `LockSave`. An `RWMutex` lets neither
  readers nor writers starve: strong fairness of `Read` and `Lock` in
  `Upstream`.
- The LLM call ends: the HTTP client has a timeout of 30 s. A probe ends:
  `net.DialTimeout`. Docker's and lsof's commands run under contexts with
  timeouts, so their steps are part of the request's fairness.
- A command makes its next call (each external call ends or is given up), and a
  process that was told to stop ends. Nothing else of `ProxyLifecycle` is fair: a
  proxy may hang while it starts, and `tudy logs` may run for ever. That
  `CommandsEnd` includes the wizard and uninstall takes it that their prompts are
  answered: until then they wait, as they should.
- `select` in `healthLoop` picks at random among what is ready: strong fairness
  of `HealthExit`. No fairness for ticks, clients, crashes or reloads.

Deadlock is checked in `tunnel`, `upstream` and `matching`. Elsewhere the model
stops when its bounded number of changes, requests or ticks is used up (each
request of `route` and `stats` arrives once, so does each log entry, each command
of `lifecycle` runs once, a discovery ends), so `CHECK_DEADLOCK FALSE` is set; where actors wait for
each other, in `store_concurrent`, `route` and `lifecycle`, liveness properties
say that nobody waits for ever.

## 4. Proofs

| Theorem | Module | States |
| --- | --- | --- |
| `TypeCorrect` | `MappingStoreProofs` | `[]TypeOK`, any number of instances |
| `FileAlwaysWhole` | `MappingStoreProofs` | with one instance, `[]FileWhole` |
| `OneHandlerSavesAll` | `MappingStoreProofs` | with one handler, `[]SavedIsServed` |
| `QuietSavesLast` | `MappingStoreProofs` | `[]QuietKeepsAcked`, any number of instances, any reads that fail |
| `CacheIsSnapshotStore` | `MappingStoreProofs` | with one instance, `StoreSpec` |
| `SavesLoseNothingOlder` | `MappingStoreProofs` | with one instance, `SaveKeepsOlderSaves` |
| `GroupInvariant` | `RouteResolverProofs` | the group's inductive invariant |
| `ResolvedOnce` | `RouteResolverProofs` | `[]OneResolutionPerKey` |
| `WaitersAreLed` | `RouteResolverProofs` | `[]WaitersHaveALeader` |
| `AnswersInvariant` | `RouteResolverProofs` | the inductive invariant of what requests are answered |
| `NobodyIsStale` | `RouteResolverProofs` | `[]NoStaleAnswer` |
| `ForceResolves` | `RouteResolverProofs` | `[]ForcedLeaderResolves` |
| `AnswersAreStored` | `RouteResolverProofs` | `[]LeaderStoresItsAnswer` |
| `OverwritesAreRaces` | `RouteResolverProofs` | `OverwritesOnlyOverlapping` |
| `TypeCorrect` | `NetworkTunnelProofs` | `[]TypeOK` |
| `NeverOverfull` | `NetworkTunnelProofs` | `[]CacheBounded` |
| `NobodyWaitsAlone` | `NetworkTunnelProofs` | `[]FollowersAreLed` |
| `StaleWritesNeedPruning` | `NetworkTunnelProofs` | `CounterKeepsStaleOut` |
| `FreshAnswers` | `NetworkTunnelProofs` | `[]FreshAfterInvalidate` |
| `StatsInvariant` | `ActivityProofs` | the inductive invariant of the statistics |
| `MapStaysBounded` | `ActivityProofs` | `[]RoutesBounded` |
| `NothingLost` | `ActivityProofs` | `[]NoRequestLost` |
| `TypeCorrect` | `ActivityProofs` | `[]LogTypeOK` |
| `NoFalseAlarms` | `ActivityProofs` | `[]ErrorsAreReal` |
| `RingIsTheWindow` | `ActivityProofs` | `[]WindowIsExact` |
| `OneStory` | `ActivityProofs` | `[]LogAgreesWithStats` |
| `BarsTellTheTruth` | `ActivityProofs` | `[]BarsShowTheirRows` |
| `BarsDoNotMove` | `ActivityProofs` | `BarsStayAligned` |
| `AnswersAreDiscovered` | `MatchingProofs` | the inductive invariant of matching |
| `EveryProcessOnce` | `MatchingProofs` | `[]OnePortPerProcess` |
| `NeverTheFirst` | `MatchingProofs` | `[]OrderNeverDecides` |
| `OwnProjectWins` | `MatchingProofs` | `[]RelatedStaysInProject` |
| `HomesAreSafe` | `MatchingProofs` | `[]HomeNeverClaims` |
| `InPlaceWins` | `MatchingProofs` | `[]ExactDirectoryWins` |
| `KnownIsTrue` | `MatchingProofs` | the inductive invariant of a discovery |
| `NothingIgnoredIsMapped` | `MatchingProofs` | `[]MapsWhatIsWanted` |
| `WhatStaysIsListed` | `MatchingProofs` | `[]StaysListed` |
| `NoChildBesideItsParent` | `MatchingProofs` | `[]ChildrenHidden` |
| `UpstreamInvariant` | `UpstreamProofs` | the inductive invariant of upstream building |
| `OnlyConfirmedIPs` | `UpstreamProofs` | `[]ConfirmedIP` |
| `PublishedPortSuffices` | `UpstreamProofs` | `[]PublishedSuffices` |
| `ListsAreRecent` | `UpstreamProofs` | `ListIsRecent` |
| `NoSpareDiscovery` | `UpstreamProofs` | `DiscoversOnlyStale` |
| `TypeCorrect` | `ProxyLifecycleProofs` | `[]TypeOK` |
| `OthersSurvive` | `ProxyLifecycleProofs` | `[]SettingsSurvive` |
| `StopsStop` | `ProxyLifecycleProofs` | `[]StoppedMeansGone` |

They hold for every value of the constants under the modules' named
assumptions: special values differ from data, bounds are numbers (for the ring, the
log and the timeline positive ones, as the code's are), and for the tunnel the set of targets, for
the statistics those of hosts and requests, for matching those of sockets and
containers are finite: there are only so many at once, and an order or a count of an
infinite set means nothing. `ListenersAssumption` says what a socket is: two of one
process differ in address and port and in whether that port is on the ignore list,
and in nothing else, since directory, parent and command are the process's.

**MappingStore.** `FileWhole` is not inductive: a rename keeps it only if the
temporary file is whole, which is so only if nobody else has it open. `IInv`
adds `HoldsSaveMu` (who is inside `Save` holds `saveMu`) and `TmpFollowsSaver`
(what the temporary file is at each place of its holder); the lemma `Alone`
gives that there is one holder. The theorem assumes one instance: two share the
temporary file and no lock.

The rest of `MappingStoreProofs` takes what is acknowledged. A handler that is alone
(the only one there is, or in a behaviour where none have overlapped: `Apart`) saves
what its instance holds, as nobody changes the map or the temporary file under it
(`SavesItsMap`), and Caddy keeps that instance for it (`ActiveRuns`). In quiet
behaviours it also has the serving instance to itself (`Undisturbed`), so each
rename of an instance that has read the file, and each load that succeeds, carries
every acknowledged stamp on (`KeepsAcked`); instances may come and go between
handlers. With one instance handlers may overlap. Each step
is then one of `SnapshotStore` or unseen: only `Mutate`, `TakeSnapshot`, `Rename`,
the ends of a failed save, a failed read and the end of the instance are seen
(`MutateImplements`, `SaveImplements`, `LifecycleImplements`), and a change is newer
than what it replaces as no map has a stamp the clock has not given (`AllStamped`).
For what a save writes over, memory is the newest map there is (`MemoryIsNewest`), so
a snapshot has everything up to its handler's change that any other map has
(`SnapshotsMissNothing`): what it takes from the disk is newer than that change. Of
the file both say this only while the instance is not `unread`.

**RouteResolver.** `IInv` ties the group to its members: a leader owns its key's
flight (`LeadersOwnFlights`), a flight has a leader (`FlightsHaveLeaders`), a
waiting request has a flight (`WaitersHaveFlights`); two leaders of one key would
own one flight, and a waiting request finds its leader through it.
`AInv` adds what answers are worth. `StampsInOrder`: a cached mapping carries
the time of the last write of its key, so one found in the cache is as recent as
any write before. `LeadersLooked`: a leader looked in the cache after it was
admitted and, unless forced, found nothing since, so what it overwrites was
written while it resolved. `FollowersKnow`: an answer about to be published is
at least as recent as the writes known to each request that has missed the cache
and may still join or already waits. `AnswersKnow` is then the statement about
the answered ones.

**NetworkTunnel.** `CacheBounded` is inductive with types, by
`EvictionMakesRoom`: what `evictLocked` drops leaves room for one, whether the
expired ones suffice or the oldest must go. For `FollowersAreLed` the group only
knows running calls, also after `Forget`. For stale writes, `CountersCount` (an
unpruned counter is the number of invalidations) and `ProbesReadTheCounter`
(what a probe read is the number when it began) make equal counters mean no
invalidation in between. `FInv` puts both together for `FreshAfterInvalidate`:
what the cache holds is from after the last invalidation
(`EntriesAreCurrent`), a call the group still knows began after every
invalidation that has returned (`FlightsAreCurrent`, as `Forget` drops the
others), and hence what a caller gets from the cache, its own probe or the one
it joined is recent enough (`AnswersSuffice`).

**Upstream.** `RecentLists` (what runs, what is about to be stored and what is
fresh in the cache were all discoverable since the last expiry) gives
`ListIsRecent`. `PublishedIsFound` (a request that is past `Publish` has a port
that was not published throughout) gives `PublishedSuffices`.
`PendingUntilAnswered` lets `ConfirmedIP` be lost only by the steps that answer.

**Activity.** `MapInv` says of the map that one request at most is between the two
locks of `Record` with `t.mu` (`HoldsMu`), that it knows whether there is room and
that what it has scanned is mapped (`HolderKnows`), and that the bound holds: a
full map loses a route before it gets one, and an evicting holder always has a
route to evict (`SomeOldest`). For `NoRequestLost` a request's object is fresh until
it creates it (`FreshObjects`), an object belongs to one host (`ObjectsBelong`), and
a host that was never dropped has one object, which all who found it hold
(`OneObject`): its total then counts what it finished.

`RingInv` says of the ring that each slot counts all of one bucket (`SlotsCount`) and
that a bucket still shown, or yet to come, is in its slot or has counted nothing
(`SlotsKeep`): a slot is taken over only by a bucket a whole ring later. That needs
`InTime`: a `Record` reaches its lock while its bucket is still shown (a `Tick` of the
model waits for it; in the code that is a delay of five minutes). The sum over the
ring, which the snapshot computes, is then the sum over the window (`WindowOfRing`, as the
buckets of a window have different slots). `ErrorsAreReal` is about `Serve`, a fold
over the calls a handler may make: by induction over how many were made
(`CapturedIs`), the captured status is that of the first call, or 200 if that is a body.

`LogInv` relates the counters to the buffer. Between `Record` and the log a request
is counted and has no entry, so while everything logged still fits, a host's errors
are those in the buffer and those on their way (`BufferAgrees`); once the buffer has
dropped an entry nothing is claimed, and nothing can be later, as the number of
logged entries only grows. An entry may only be filed under the host it was counted
for (`EntriesTell`), and an object starts without errors (`FreshErrors`).

The timeline: a grid starts at a multiple of its width however many bars were cut off,
its last bar holds the last entry, and unless as many bars as fit are shown the first
holds the first (`GridIs`);
an entry's index is its window (`BarIsItsWindow`: quotients by the width); what the page
selects for a bar is what was counted for it, reversed (`RowsOfBar`,
`ErrorsOfRows`); and the bars divide the entries among them, so their sizes add up
to the rows (`TimelineAccounts`, by `PartsAddUp`). None of it uses the order of the
buffer.

**FoldLemmas.** The loops are recursive functions over the length of a slice, sums
`SumFunctionOnSet` over a finite set. What they compute is proved by induction, but not
with the library's induction theorems, whose operator parameter no prover here can
instantiate: `Induction`, `SetInduction` and `SeqInduction` are stated for a set of
numbers (or of sets, or sequences) instead of a predicate, and come from the least
number outside of it; `Recursion` gives a recursive function for a step that is given
as a function. From there: what `At` picks is in order, all there is, and as long as
there are positions (`AtPicks`, `AtRange`, `AtLen`); `BestIn` returns an element that no
other one beats, if "better" is a strict order (`BestInIsBest`); sums split, agree
and count.

**ServiceMatching.** Order is left out by saying what each function returns of a list
in terms of the set of its elements: the roots (`RootsAre`), the best of each process
(`DeduplicatedIs`, hence `DiscoveriesAre`: any order gives a discovery, and every one
has the same elements), the candidates of a hostname (`CandidatesAre`) and the first of each key
(`DedupedAre`). If candidates with one key are equal (`KeysDiffer`, for which port
numbers must be distinct), the list that is left has one element in one order exactly if it
has one in every order, and the same one (`OnlyOfAgree`, `NoOrderDecides`).
`ResolveProcessPort` is the best of what passes its filters (`PortIsBest`), by rank,
distance and port; that betterMatch is a strict order is what makes the loop's answer
the best. `MatchingInv` only has to keep that `related` and `port` were answered for
the listeners and containers there are now.

**Discovery.** `DiscoveryInv` says of every candidate what is known of it, by where
the discovery has come: a field is the process's own, or unknown because it was not asked for
yet, the process has ended, or a call told less than it could (`DEntries`); a parent
that is known ran when its child was asked about, so what decides whether it is
listed is known of it too (`DPairs`); who was there throughout
is on the list, if no call told less than it could (`DPresent`, `DDocker`); and
there is a mapping only at the end (`DMapped`). Arguments are known of every candidate
whose directory is, as they are asked for first: a mapping needs a directory, so it
is of a process whose arguments the filter has seen. `FirstPerPortIs` is why another
process's port, and nothing else, can keep a socket off the list.

**ProxyLifecycle.** `EInv`: while no rewrites have overlapped, one command at
most is between reading and writing (`OneRewrites`), and its copy is what the
settings are meant to be with its own changed (`CopiesKeep`), so the file is as
meant once it is written. A command that writes has a file to write to
(`WritersHaveAFile`): uninstall, which removes it, counts as overlapping with the
rewrites it cuts short. `SInv`: a restart that has come as far as starting
has seen no proxy, and only new ones since (`GoneBeforeStart`); no step brings an
old process back (the lemma `ProcessesFewer`), as a new process is no old one
even under an old number. `JobIsAlive` is needed for `Unload`, which would
otherwise be able to wake a dead job.

Every invariant and action property of a passing run is stated by a theorem.
Model-checked only: what the prover has no rules for, namely fairness and `ENABLED`, and so the six
liveness properties (`SaveReturns`, `EveryRequestAnswered`, `CallsAnswered`,
`RequestsAnswered`, `LoopEnds`, `CommandsEnd`) and the absence of deadlock; and that
the code does break the three properties of the runs that expect it.

## 5. What is not modelled

- Prompts, the text of the LLM's answer, the pages of the picker,
  Caddyfile parsing, how lines of lsof, netstat, ss, /proc and docker are taken
  apart: pure text handling.
- Regular expressions: a command pattern is a word that a command has or not.
- The other pages of the dashboard and its event stream, which copy what the
  components hold into templates and keep no state.
- The command line on systems without launchd, the wizard's helper for Docker
  networking, trust in the certificate, and the data and logs that uninstall removes
  last: nothing else reads them. `tudy doctor` asks and prints; `tudy caddy` becomes
  another program.
- Packaging scripts.

## 6. Plan

Done, in this order: mapping cache and its abstract store; request resolution;
reachability cache; statistics; process cache and upstream building; matching;
the command line; discovery; the log and its timeline beside the statistics; setup
wizard, update and uninstall; proofs of every safety property of the runs.

What would come next:

1. Refinements: `ProcessCache` and `NetworkTunnel` against an abstract cache that may
   forget but not invent, as `MappingStore` is against `SnapshotStore`.
2. What liveness rests on and the prover can show: that a waiting handler's lock holder can take
   a step, that each round of a polling loop gives up.
3. What the resolver accepts of an LLM's answer and how validation failures reach
   the chain (`resolver.go`), composed with `RouteResolver`.
4. The wizard's helper for Docker networking beside the tunnel it serves.
