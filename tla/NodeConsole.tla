------------------------------ MODULE NodeConsole ------------------------------
(***************************************************************************)
(* How TonControl gets into the console of a Rust node: the node's         *)
(* container makes a configuration and the console keys and copies the     *)
(* keys to a volume (docker/rustvalidator/entry.sh); TonControl reads them *)
(* from there and caches what it read (rustconsole/core.py).               *)
(*                                                                         *)
(* Keys are numbered by the configuration they were made with, 0 is none.  *)
(***************************************************************************)
EXTENDS Naturals

CONSTANTS
    Addrs,     \* addresses docker may give the node's container
    MaxFaults  \* bound: stops, re-creations and supplied configurations

ASSUME AddrsAssumption  == Addrs # {} /\ {"unset", "empty"} \cap Addrs = {}
ASSUME FaultsAssumption == MaxFaults \in Nat

VARIABLES
    \* the node's container
    pc,        \* where entry.sh is
    config,    \* config.json: whose keys, and is the console open to others
    console,   \* console_config.json: the server key it names
    made,      \* configurations made so far
    addr,      \* its address
    \* the host's disk and the volume
    supplied,  \* config.json put where entry.sh looks for one to re-use
    db,        \* node_db/db exists
    volume,    \* the two keys on the volume, each with its time
    \* TonControl
    cpc,       \* where _run_command is
    key,       \* the key _read_key reads
    cache,     \* _key_cache
    stat,      \* mtime of _read_key
    confs,     \* conf_*: the address each names, by the keys in its name
    \* history
    interrupted, faults

nodeVars == <<pc, config, console, made, addr>>
diskVars == <<supplied, db, volume>>
controlVars == <<cpc, key, cache, stat, confs>>
vars == <<nodeVars, diskVars, controlVars, interrupted, faults>>

Gens  == 0..(MaxFaults + 1)
Kinds == {"server", "client"}

NoConfig == [gen |-> 0, open |-> FALSE]
NoFile   == [gen |-> 0, at |-> 0]
NoKeys   == [k \in Kinds |-> NoFile]
NoConfs  == [gen \in Gens |-> "unset"]

Matching(files) == files["server"].gen = files["client"].gen /\ files["client"].gen # 0

Init ==
    /\ pc = "off" /\ config = NoConfig /\ console = 0 /\ made = 0 /\ addr = (CHOOSE a \in Addrs : TRUE)
    /\ supplied = NoConfig /\ db = FALSE /\ volume = NoKeys
    /\ cpc = "off" /\ key = "server" /\ cache = NoKeys /\ stat = 0 /\ confs = NoConfs
    /\ interrupted = FALSE /\ faults = 0

Fault == faults < MaxFaults /\ faults' = faults + 1

-------------------------------------------------------------------------------
(* entry.sh of the node's container.                                       *)

\* Mutation: the configuration is looked for in the other folder.
InitializedElsewhere == volume["client"].at # 0 /\ supplied # NoConfig /\ db

Initialized == volume["client"].at # 0 /\ config # NoConfig /\ db

SkipInit ==
    /\ pc = "off" /\ Initialized
    /\ pc' = "exec"
    /\ UNCHANGED <<config, console, made, addr, diskVars, controlVars, interrupted, faults>>

ReuseConfig ==
    /\ pc = "off" /\ ~Initialized /\ supplied # NoConfig
    /\ config' = supplied
    /\ pc' = "exec"
    /\ UNCHANGED <<console, made, addr, diskVars, controlVars, interrupted, faults>>

CreateConfig ==
    /\ pc = "off" /\ ~Initialized /\ supplied = NoConfig
    /\ config' = NoConfig /\ made' = made + 1
    /\ pc' = "generate"
    /\ UNCHANGED <<console, addr, diskVars, controlVars, interrupted, faults>>

(* The node, started to write its two configuration files, in no order the *)
(* script could rely on; until it is patched the console is local.         *)
NodeWrites ==
    /\ pc = "generate"
    /\ \/ config = NoConfig /\ config' = [gen |-> made, open |-> FALSE]
          /\ UNCHANGED console
       \/ console # made /\ console' = made /\ UNCHANGED config
    /\ db' = TRUE
    /\ UNCHANGED <<pc, made, addr, supplied, volume, controlVars, interrupted, faults>>

CheckGenerated ==
    /\ pc = "generate" /\ config # NoConfig /\ console # 0
    /\ pc' = "patch"
    /\ UNCHANGED <<config, console, made, addr, diskVars, controlVars, interrupted, faults>>

\* Mutation: the address of the console is left as it is.
Unpatched == config

Patched == [config EXCEPT !.open = TRUE]

PatchConfig ==
    /\ pc = "patch"
    /\ config' = Patched
    /\ pc' = "client"
    /\ UNCHANGED <<console, made, addr, diskVars, controlVars, interrupted, faults>>

Written(file, gen) == [gen |-> gen, at |-> file.at + 1]

(* cp -f truncates the file and then writes it.                            *)
PublishClient ==
    /\ \/ pc = "client" /\ pc' = "client_open"
          /\ volume' = [volume EXCEPT !["client"] = Written(@, 0)]
       \/ pc = "client_open" /\ pc' = "server"
          /\ volume' = [volume EXCEPT !["client"] = Written(@, config.gen)]
    /\ UNCHANGED <<config, console, made, addr, supplied, db, controlVars, interrupted, faults>>

PublishServer ==
    /\ \/ pc = "server" /\ pc' = "server_open"
          /\ volume' = [volume EXCEPT !["server"] = Written(@, 0)]
          /\ UNCHANGED console
       \/ pc = "server_open" /\ pc' = "exec"
          /\ volume' = [volume EXCEPT !["server"] = Written(@, console)]
          /\ console' = 0
    /\ UNCHANGED <<config, made, addr, supplied, db, controlVars, interrupted, faults>>

ExecNode ==
    /\ pc = "exec"
    /\ pc' = "running" /\ db' = TRUE
    /\ UNCHANGED <<config, console, made, addr, supplied, volume, controlVars, interrupted, faults>>

Publishing == pc \in {"generate", "patch", "client", "client_open", "server", "server_open"}

(* The container is stopped, or a command of entry.sh fails: ten seconds   *)
(* were not enough for the node to write its files, or the configuration   *)
(* of the network cannot be fetched.                                       *)
StopNode ==
    /\ pc # "off" /\ Fault
    /\ pc' = "off" /\ addr' \in Addrs
    /\ interrupted' = (interrupted \/ Publishing)
    /\ UNCHANGED <<config, console, made, diskVars, controlVars>>

(* A new container has none of the files of the old one; what was cut      *)
(* short before matters only if its configuration is used again.           *)
RecreateNode ==
    /\ Fault
    /\ pc' = "off" /\ addr' \in Addrs
    /\ config' = NoConfig /\ console' = 0
    /\ interrupted' = (interrupted /\ supplied # NoConfig)
    /\ UNCHANGED <<made, diskVars, controlVars>>

(* The operator keeps a copy of the configuration the node runs with.      *)
SupplyConfig ==
    /\ pc = "running" /\ supplied = NoConfig /\ Fault
    /\ supplied' = config
    /\ UNCHANGED <<nodeVars, db, volume, controlVars, interrupted>>

-------------------------------------------------------------------------------
(* RustConsole in TonControl.                                              *)

StartControl ==
    /\ cpc = "off" /\ \A k \in Kinds : volume[k].at # 0
    /\ cpc' = "idle"
    /\ UNCHANGED <<nodeVars, diskVars, key, cache, stat, confs, interrupted, faults>>

RunCommand ==
    /\ cpc \in {"idle", "answered"}
    /\ cpc' = "stat" /\ key' = "server"
    /\ UNCHANGED <<nodeVars, diskVars, cache, stat, confs, interrupted, faults>>

NextKey == IF key = "server" THEN cpc' = "stat" /\ key' = "client"
                             ELSE cpc' = "config" /\ key' = "server"

KeyCached ==
    /\ cpc = "stat" /\ cache[key].at = volume[key].at
    /\ NextKey
    /\ UNCHANGED <<nodeVars, diskVars, cache, stat, confs, interrupted, faults>>

KeyChanged ==
    /\ cpc = "stat" /\ cache[key].at # volume[key].at
    /\ stat' = volume[key].at
    /\ cpc' = "read"
    /\ UNCHANGED <<nodeVars, diskVars, key, cache, confs, interrupted, faults>>

\* Mutation: the time of the file is taken after its content.
ReadThenStat ==
    /\ cpc = "read" /\ stat' = 0
    /\ \/ stat # 0 /\ cache' = [cache EXCEPT ![key].gen = volume[key].gen]
          /\ UNCHANGED <<cpc, key>>
       \/ stat = 0 /\ cache' = [cache EXCEPT ![key].at = volume[key].at]
          /\ NextKey
    /\ UNCHANGED <<nodeVars, diskVars, confs, interrupted, faults>>

ReadKey ==
    /\ cpc = "read"
    /\ cache' = [cache EXCEPT ![key] = [gen |-> volume[key].gen, at |-> stat]]
    /\ stat' = 0
    /\ NextKey
    /\ UNCHANGED <<nodeVars, diskVars, confs, interrupted, faults>>

(* Keys that do not belong together, or of which one was read half         *)
(* written, have a configuration of their own, which the node refuses.     *)
MismatchedKeys ==
    /\ cpc = "config" /\ ~Matching(cache)
    /\ cpc' = "idle"
    /\ UNCHANGED <<nodeVars, diskVars, key, cache, stat, confs, interrupted, faults>>

Conf == confs[cache["client"].gen]

\* Mutation: an empty configuration counts as one.
ConfThere == Conf # "unset"

HasConf == Conf \in Addrs

UseConfig ==
    /\ cpc = "config" /\ Matching(cache) /\ HasConf
    /\ cpc' = "exec"
    /\ UNCHANGED <<nodeVars, diskVars, key, cache, stat, confs, interrupted, faults>>

OpenConfig ==
    /\ cpc = "config" /\ Matching(cache) /\ ~HasConf
    /\ confs' = [confs EXCEPT ![cache["client"].gen] = "empty"]
    /\ cpc' = "resolve"
    /\ UNCHANGED <<nodeVars, diskVars, key, cache, stat, interrupted, faults>>

WriteConfig ==
    /\ cpc = "resolve" /\ pc # "off"
    /\ confs' = [confs EXCEPT ![cache["client"].gen] = addr]
    /\ cpc' = "exec"
    /\ UNCHANGED <<nodeVars, diskVars, key, cache, stat, interrupted, faults>>

\* Mutation: the exception ends the thread.
ThreadEnds == "dead"

NextCommand == "idle"

(* The name of a stopped container does not resolve.                       *)
ResolveFails ==
    /\ cpc = "resolve" /\ pc = "off"
    /\ cpc' = NextCommand
    /\ UNCHANGED <<nodeVars, diskVars, key, cache, stat, confs, interrupted, faults>>

LetsIn(files) ==
    /\ pc = "running" /\ config.open
    /\ \A k \in Kinds : files[k].gen = config.gen

Execute ==
    /\ cpc = "exec"
    /\ cpc' = IF LetsIn(cache) /\ Conf = addr THEN "answered" ELSE "idle"
    /\ UNCHANGED <<nodeVars, diskVars, key, cache, stat, confs, interrupted, faults>>

(* The configurations stay with the container, and go with it.             *)
RestartControl ==
    /\ cpc # "off" /\ Fault
    /\ cpc' = "off" /\ key' = "server" /\ cache' = NoKeys /\ stat' = 0
    /\ confs' \in {confs, NoConfs}
    /\ UNCHANGED <<nodeVars, diskVars, interrupted>>

-------------------------------------------------------------------------------
EntryStep ==
    \/ SkipInit \/ ReuseConfig \/ CreateConfig
    \/ NodeWrites \/ CheckGenerated \/ PatchConfig
    \/ PublishClient \/ PublishServer \/ ExecNode

ControlStep ==
    \/ StartControl \/ RunCommand
    \/ KeyCached \/ KeyChanged \/ ReadKey
    \/ MismatchedKeys \/ UseConfig \/ OpenConfig \/ WriteConfig \/ ResolveFails \/ Execute

Next ==
    \/ EntryStep
    \/ StopNode \/ RecreateNode \/ SupplyConfig
    \/ ControlStep \/ RestartControl

Spec == Init /\ [][Next]_vars

(* Docker restarts both containers, and the elections routine keeps        *)
(* asking: elections.py:297-303 asks whether the node is synced in each    *)
(* pass.                                                                   *)
FairSpec == Spec /\ WF_vars(EntryStep) /\ WF_vars(ControlStep)

-------------------------------------------------------------------------------
(* Properties.                                                             *)

(* Every variable keeps its type.                                          *)
TypeOK ==
    /\ pc \in {"off", "generate", "patch", "client", "client_open",
               "server", "server_open", "exec", "running"}
    /\ config \in [gen : Gens, open : BOOLEAN] /\ supplied \in [gen : Gens, open : BOOLEAN]
    /\ console \in Gens /\ made \in Gens /\ addr \in Addrs /\ db \in BOOLEAN
    /\ volume \in [Kinds -> [gen : Gens, at : Nat]]
    /\ cpc \in {"off", "idle", "answered", "stat", "read", "config", "resolve", "exec"}
    /\ key \in Kinds
    /\ cache \in [Kinds -> [gen : Gens, at : Nat]] /\ stat \in Nat
    /\ confs \in [Gens -> Addrs \cup {"unset", "empty"}]
    /\ interrupted \in BOOLEAN /\ faults \in 0..MaxFaults

(* A node whose container was brought up in one piece lets in whoever      *)
(* holds the keys on the volume, whatever befell the containers before it  *)
(* (entry.sh:32-101).                                                      *)
VolumeOpensNode == pc = "running" /\ ~interrupted => LetsIn(volume)

(* A container that was brought up completely is not given new keys when   *)
(* it is only restarted (entry.sh:32).                                     *)
KeysSurviveRestart ==
    [][pc = "off" /\ pc' # "off" /\ config # NoConfig /\ ~interrupted
            => config' = config]_vars

(* A key in the cache that has the time of its file is what the file       *)
(* holds, however the node's container wrote it between the time being     *)
(* taken and the file being read: a stale key is never used a second time  *)
(* (core.py:28-34).                                                        *)
CacheIsCurrent ==
    \A k \in Kinds : cache[k].at = volume[k].at => cache[k].gen = volume[k].gen

(* Once the keys on the volume open the node and stay, neither a key that  *)
(* was cached, half-written ones included, nor a configuration that was    *)
(* left empty keeps TonControl out (core.py:28-62); only one that names an *)
(* address the node has left does.                                         *)
StaleAddress == confs[volume["client"].gen] \in Addrs \ {addr}
ControlGetsIn == <>[](LetsIn(volume) /\ ~StaleAddress) => []<>(cpc = "answered")
===============================================================================
