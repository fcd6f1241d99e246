---------------------------- MODULE PluginRegistry ----------------------------
(***************************************************************************)
(* The plugin manager's registry under concurrent requests: StartPlugin,   *)
(* StopPlugin, RestartPlugin and GetPlugins called by the web API, the     *)
(* monitoring service and the runtime's metrics, and rescans of the plugin *)
(* directory.                                                              *)
(*                                                                         *)
(* m.mu is a mutex and pluginCacheMutex a read-write mutex.  m.adapters    *)
(* and m.sinks are Go maps; an access that overlaps a write of the same    *)
(* map is undefined, so a map access is a step of its own.                 *)
(*                                                                         *)
(* A sidecar that is loaded also enters southbound.Registry, the registry  *)
(* of the built-in adapters, under the type in its name, and can be listed *)
(* and started as if it were built in.  The type and the type with the     *)
(* mode, which are registered together, are one name here.  Instances are  *)
(* counted by the name they were started under; that two names may share   *)
(* one proxy is not modelled.                                              *)
(***************************************************************************)
EXTENDS Naturals, FiniteSets

CONSTANTS Threads,   \* request goroutines and the watcher
          Watcher,   \* the goroutine of the watcher loop
          External,  \* plugins described by files in the plugin directory (sidecars)
          Builtin,   \* plugins of the built-in registries
          Plain,     \* the sidecars whose name is also their type
          Configured \* plugins that Init loads and Start starts

ASSUME RegistryAssumption ==
    /\ Watcher \in Threads /\ External \cap Builtin = {}
    /\ Configured \subseteq External \cup Builtin
    /\ Plain \subseteq External

\* The names loadSidecar registers.
Type(n) == <<"type", n>>
Types(n) == {Type(n)} \cup ({n} \cap Plain)

Names == External \cup Builtin \cup {Type(n) : n \in External}
Nobody == "nobody"

VARIABLES
    pc, arg, again,  \* per thread: the step it is at, its plugin, a restart's second half
    mu,              \* holder of m.mu
    cacheLock,       \* writer of pluginCacheMutex
    cacheReaders,    \* readers of pluginCacheMutex
    running,         \* keys of m.adapters and m.sinks
    instances,       \* how many started and not stopped instances a plugin has
    files,           \* plugin files in the directory
    metadatas,       \* the loader's view of them
    processes,       \* the loader's process table: no entry, or one alive or dead
    alive,           \* how many sidecar processes of a plugin exist
    registry,        \* what sidecars have added to southbound.Registry
    cacheValid, pluginCache,
    errored          \* history: since the cache was built or dropped, a rescan or a start
                     \* that returned an error has changed what it should list

locks == <<mu, cacheLock, cacheReaders>>
plugs == <<running, instances>>
procs == <<processes, alive, registry>>
cache == <<cacheValid, pluginCache, errored>>
vars == <<pc, arg, again, locks, plugs, files, metadatas, procs, cache>>

Free == mu = Nobody

TypeOK ==
    /\ pc \in [Threads -> {"idle", "start", "starting", "insert", "stop", "remove", "unload",
                           "invalidate", "get", "read", "rebuildLock", "read2", "rebuild"}]
    /\ arg \in [Threads -> Names] /\ again \in [Threads -> BOOLEAN]
    /\ {mu, cacheLock} \subseteq Threads \cup {Nobody}
    /\ cacheReaders \subseteq Threads
    /\ cacheLock # Nobody => cacheReaders = {}
    /\ running \subseteq Names /\ instances \in [Names -> Nat]
    /\ files \cup metadatas \subseteq External
    /\ processes \in [External -> {"none", "live", "dead"}] /\ alive \in [External -> Nat]
    /\ registry \subseteq Names
    /\ cacheValid \in BOOLEAN /\ pluginCache \subseteq Names /\ errored \in BOOLEAN

\* Init scans the directory and loads every discovered plugin, which starts its process
\* (one that cannot be loaded is logged), and then the configured ones; Start starts those.
Init ==
    /\ pc = [t \in Threads |-> "idle"] /\ again = [t \in Threads |-> FALSE]
    /\ arg \in {[t \in Threads |-> n] : n \in Names}
    /\ mu = Nobody /\ cacheLock = Nobody /\ cacheReaders = {}
    /\ running = Configured
    /\ instances = [n \in Names |-> IF n \in Configured THEN 1 ELSE 0]
    /\ files \in SUBSET External /\ metadatas = files
    /\ \E loaded \in SUBSET files :
          /\ Configured \cap External \subseteq loaded
          /\ processes = [n \in External |-> IF n \in loaded THEN "live" ELSE "none"]
          /\ alive = [n \in External |-> IF n \in loaded THEN 1 ELSE 0]
          /\ registry = UNION {Types(n) : n \in loaded}
    /\ cacheValid = FALSE /\ pluginCache = {} /\ errored = FALSE

Go(t, step) == pc' = [pc EXCEPT ![t] = step]

-----------------------------------------------------------------------------
(* Requests.                                                                *)

Request(t) ==
    /\ pc[t] = "idle" /\ t # Watcher
    /\ \/ /\ \E n \in Names : arg' = [arg EXCEPT ![t] = n]
          /\ \/ Go(t, "start") /\ UNCHANGED again
             \/ Go(t, "stop") /\ again' \in {again, [again EXCEPT ![t] = TRUE]}
       \/ Go(t, "get") /\ UNCHANGED <<arg, again>>
    /\ UNCHANGED <<locks, plugs, files, metadatas, procs, cache>>

\* A start that does not look whether the plugin is running.
BadStartPlugin(t) ==
    /\ pc[t] = "start" /\ Free
    /\ mu' = t /\ Go(t, "starting")
    /\ UNCHANGED <<arg, again, cacheLock, cacheReaders, plugs, files, metadatas, procs,
                   cache>>

\* StartPlugin takes m.mu; a plugin that runs is an error.
StartPlugin(t) ==
    /\ pc[t] = "start" /\ Free
    /\ IF arg[t] \in running THEN Go(t, "idle") /\ UNCHANGED mu
       ELSE Go(t, "starting") /\ mu' = t
    /\ UNCHANGED <<arg, again, cacheLock, cacheReaders, plugs, files, metadatas, procs,
                   cache>>

Killed(n) == IF processes[n] = "live" THEN alive[n] - 1 ELSE alive[n]

\* A sidecar started without ending the process an earlier load left behind.
BadLoad(n) ==
    /\ processes' = [processes EXCEPT ![n] = "live"]
    /\ alive' = [alive EXCEPT ![n] = @ + 1]
    /\ registry' = registry \cup Types(n)

\* loadSidecar: the process the table knows is killed and another one started, and its
\* proxy is registered.
Load(n) ==
    /\ processes' = [processes EXCEPT ![n] = "live"]
    /\ alive' = [alive EXCEPT ![n] = Killed(n) + 1]
    /\ registry' = registry \cup Types(n)

\* The old process is killed and the new one cannot be started ("none"), is killed at
\* once because no proxy can be made for it ("dead"), or stays although its type of
\* plugin is not supported ("live").
LoadFails(n) ==
    /\ \E entry \in {"none", "dead", "live"} :
          /\ processes' = [processes EXCEPT ![n] = entry]
          /\ alive' = [alive EXCEPT ![n] = IF entry = "live" THEN Killed(n) + 1 ELSE Killed(n)]
    /\ UNCHANGED registry

\* A discovered plugin is loaded first; a name that is only registered is started as a
\* built-in.  Loading, Init or Start of the instance may fail; a failure after loading
\* leaves the process and the registration there.
StartInstance(t) ==
    LET n == arg[t] IN
    /\ pc[t] = "starting"
    /\ \/ /\ \/ n \in metadatas /\ Load(n)
             \/ n \in (Builtin \cup registry) \ metadatas /\ UNCHANGED procs
          /\ instances' = [instances EXCEPT ![n] = @ + 1]
          /\ Go(t, "insert") /\ UNCHANGED <<mu, errored>>
       \/ /\ \/ n \in metadatas /\ (Load(n) \/ LoadFails(n))
             \/ UNCHANGED procs
          /\ errored' = (errored \/ registry' # registry)
          /\ Go(t, "idle") /\ mu' = Nobody /\ UNCHANGED instances
    /\ UNCHANGED <<arg, again, cacheLock, cacheReaders, running, files, metadatas, cacheValid, pluginCache>>

Insert(t) ==
    /\ pc[t] = "insert"
    /\ running' = running \cup {arg[t]}
    /\ Go(t, "invalidate")
    /\ UNCHANGED <<arg, again, locks, instances, files, metadatas, procs, cache>>

\* StopPlugin takes m.mu and stops the instance; a plugin that does not run is an error,
\* after which RestartPlugin still starts it.
StopPlugin(t) ==
    /\ pc[t] = "stop" /\ Free
    /\ IF arg[t] \in running
       THEN /\ mu' = t /\ Go(t, "remove")
            /\ instances' = [instances EXCEPT ![arg[t]] = @ - 1]
            /\ UNCHANGED again
       ELSE /\ Go(t, IF again[t] THEN "start" ELSE "idle")
            /\ again' = [again EXCEPT ![t] = FALSE] /\ UNCHANGED <<mu, instances>>
    /\ UNCHANGED <<arg, cacheLock, cacheReaders, running, files, metadatas, procs, cache>>

Remove(t) ==
    /\ pc[t] = "remove"
    /\ running' = running \ {arg[t]}
    /\ Go(t, "unload")
    /\ UNCHANGED <<arg, again, locks, instances, files, metadatas, procs, cache>>

\* Unload: only a plugin whose file the last scan saw is unloaded.
Unload(t) ==
    LET n == arg[t] IN
    /\ pc[t] = "unload"
    /\ IF n \in metadatas
       THEN /\ processes' = [processes EXCEPT ![n] = "none"]
            /\ alive' = [alive EXCEPT ![n] = Killed(n)]
            /\ UNCHANGED registry
       ELSE UNCHANGED procs
    /\ Go(t, "invalidate")
    /\ UNCHANGED <<arg, again, locks, plugs, files, metadatas, cache>>

\* A scan that does not invalidate the cache.
BadScan(t) ==
    /\ t = Watcher /\ pc[t] = "idle" /\ Free
    /\ metadatas' = files
    /\ UNCHANGED <<pc, arg, again, locks, plugs, files, procs, cache>>

\* scanAndLoadMeta, by the watcher loop: Scan drops what it knew and reads the files it
\* can read and parse.
Scan(t) ==
    /\ t = Watcher /\ pc[t] = "idle" /\ Free
    /\ mu' = t /\ metadatas' \in SUBSET files
    /\ Go(t, "invalidate")
    /\ UNCHANGED <<arg, again, cacheLock, cacheReaders, plugs, files, procs, cache>>

\* The directory cannot be read: what was known is dropped all the same, and the cache is
\* not invalidated.
ScanFails(t) ==
    /\ t = Watcher /\ pc[t] = "idle" /\ Free
    /\ metadatas' = {}
    /\ errored' = (errored \/ metadatas' # metadatas)
    /\ UNCHANGED <<pc, arg, again, locks, plugs, files, procs, cacheValid, pluginCache>>

\* invalidatePluginCache, while m.mu is held; then m.mu is released.
Invalidate(t) ==
    /\ pc[t] = "invalidate" /\ cacheLock = Nobody /\ cacheReaders = {}
    /\ cacheValid' = FALSE /\ pluginCache' = {} /\ errored' = FALSE
    /\ mu' = Nobody
    /\ Go(t, IF again[t] THEN "start" ELSE "idle")
    /\ again' = [again EXCEPT ![t] = FALSE]
    /\ UNCHANGED <<arg, cacheLock, cacheReaders, plugs, files, metadatas, procs>>

\* GetPlugins, first check: a valid cache that has not expired is used under the read
\* lock.  updatePluginStatus reads m.adapters and m.sinks without m.mu.
GetCached(t) ==
    /\ pc[t] = "get" /\ cacheLock = Nobody
    /\ \/ cacheValid /\ cacheReaders' = cacheReaders \cup {t} /\ Go(t, "read")
       \/ Go(t, "rebuildLock") /\ UNCHANGED cacheReaders
    /\ UNCHANGED <<arg, again, mu, cacheLock, plugs, files, metadatas, procs, cache>>

ReadDone(t) ==
    /\ pc[t] = "read"
    /\ cacheReaders' = cacheReaders \ {t} /\ Go(t, "idle")
    /\ UNCHANGED <<arg, again, mu, cacheLock, plugs, files, metadatas, procs, cache>>

\* A second check under the read lock only.
BadRebuildLock(t) ==
    /\ pc[t] = "rebuildLock" /\ cacheLock = Nobody
    /\ cacheLock' = t
    /\ \/ cacheValid /\ Go(t, "read2")
       \/ Go(t, "rebuild")
    /\ UNCHANGED <<arg, again, mu, cacheReaders, plugs, files, metadatas, procs, cache>>

\* GetPlugins, second check, under the write lock.
RebuildLock(t) ==
    /\ pc[t] = "rebuildLock" /\ cacheLock = Nobody /\ cacheReaders = {}
    /\ cacheLock' = t
    /\ \/ cacheValid /\ Go(t, "read2")
       \/ Go(t, "rebuild")
    /\ UNCHANGED <<arg, again, mu, cacheReaders, plugs, files, metadatas, procs, cache>>

Read2Done(t) ==
    /\ pc[t] = "read2"
    /\ cacheLock' = Nobody /\ Go(t, "idle")
    /\ UNCHANGED <<arg, again, mu, cacheReaders, plugs, files, metadatas, procs, cache>>

Listing == metadatas \cup Builtin \cup registry

\* m.mu is taken while the write lock of the cache is held, and both are released.
Rebuild(t) ==
    /\ pc[t] = "rebuild" /\ Free
    /\ pluginCache' = Listing /\ cacheValid' = TRUE /\ errored' = FALSE
    /\ cacheLock' = Nobody /\ Go(t, "idle")
    /\ UNCHANGED <<arg, again, mu, cacheReaders, plugs, files, metadatas, procs>>

-----------------------------------------------------------------------------
(* A sidecar ends by itself.                                                 *)
ProcessExit ==
    /\ \E n \in External : /\ processes[n] = "live"
                          /\ processes' = [processes EXCEPT ![n] = "dead"]
                          /\ alive' = [alive EXCEPT ![n] = @ - 1]
                          /\ UNCHANGED registry
    /\ UNCHANGED <<pc, arg, again, locks, plugs, files, metadatas, cache>>

(* A plugin file is added to the directory or deleted from it.               *)
FileChange ==
    /\ \E n \in External : files' \in {files \cup {n}, files \ {n}}
    /\ UNCHANGED <<pc, arg, again, locks, plugs, metadatas, procs, cache>>

Step(t) ==
    \/ StartPlugin(t) \/ StartInstance(t) \/ Insert(t) \/ StopPlugin(t) \/ Remove(t) \/ Unload(t)
    \/ Invalidate(t) \/ GetCached(t) \/ ReadDone(t)
    \/ RebuildLock(t) \/ Read2Done(t) \/ Rebuild(t)
Next ==
    \/ ProcessExit \/ FileChange
    \/ \E t \in Threads : Request(t) \/ Scan(t) \/ ScanFails(t) \/ Step(t)

\* A goroutine that can run does; a mutex is handed to every waiter in turn.
Spec == Init /\ [][Next]_vars /\ \A t \in Threads : SF_vars(Step(t))

-----------------------------------------------------------------------------
\* A cache that GetPlugins may answer from lists exactly the plugins a rebuild would
\* list: no rescan, and no start that registers a sidecar, slips between reading the
\* loader's metadata and the registry and validating.  Only a rescan or a start that
\* fails half way, which is an error to its caller, may leave an old list behind: neither
\* invalidates the cache.
CacheFresh == Free /\ cacheValid /\ ~errored => pluginCache = Listing

\* The instances that run are the ones in the maps: concurrent starts, stops and
\* restarts of one plugin leave neither two instances nor one nobody can stop.
InstancesTracked == Free => \A n \in Names : instances[n] = IF n \in running THEN 1 ELSE 0

\* A sidecar has at most one process, and the loader knows it, so that Unload or
\* Close can end it, however often loading is repeated after failures and rescans.
ProcessesTracked == \A n \in External : alive[n] = IF processes[n] = "live" THEN 1 ELSE 0

\* Every request is answered.
RequestsReturn == \A t \in Threads : pc[t] # "idle" ~> pc[t] = "idle"
=============================================================================
