--------------------------- MODULE NodeConsoleProofs ---------------------------
(***************************************************************************)
(* A node that was brought up in one piece opens to the keys on the        *)
(* volume, and a restart does not change them, for every number of stops   *)
(* and re-creations.  That the keys fit follows from how far the bring-up  *)
(* is: each of its files belongs to the configuration being made.  And no  *)
(* key is taken from the cache that the volume no longer holds.            *)
(***************************************************************************)
EXTENDS NodeConsole, TLAPS

(* A configuration is made at most once per start, and every start but the *)
(* first takes a fault.                                                    *)
MadeCounted == IF pc = "off" THEN made <= faults ELSE made <= faults + 1

Copying == pc \in {"client", "client_open", "server", "server_open"}

(* Both keys on the volume are those of the configuration c.               *)
KeysOf(c) ==
    /\ c.open
    /\ \A k \in Kinds : volume[k].gen = c.gen
    /\ volume["client"].at # 0 /\ db

(* How far the bring-up is, and what is there of it.                       *)
BringUp ==
    /\ pc \in {"off", "exec", "running"} => console = 0
    /\ pc = "off" => config = NoConfig \/ KeysOf(config)
    /\ pc \in {"exec", "running"} => KeysOf(config)
    /\ pc = "generate" => /\ console \in {0, made}
                          /\ config \in {NoConfig, [gen |-> made, open |-> FALSE]}
                          /\ config # NoConfig => db
    /\ pc = "patch" => console = made /\ config = [gen |-> made, open |-> FALSE] /\ db
    /\ Copying => console = made /\ config = [gen |-> made, open |-> TRUE] /\ db
    /\ pc \in {"server", "server_open"} =>
           volume["client"].gen = made /\ volume["client"].at # 0
    /\ supplied # NoConfig => ~Publishing /\ KeysOf(supplied)

ConsoleInv == TypeOK /\ MadeCounted /\ (~interrupted => BringUp)
-------------------------------------------------------------------------------
LEMMA InitConsole == Init => ConsoleInv
  <1> SUFFICES ASSUME Init PROVE ConsoleInv
    OBVIOUS
  <1>1. MaxFaults \in Nat /\ addr \in Addrs
    BY AddrsAssumption, FaultsAssumption DEF Init
  <1>2. TypeOK
    <2>1. /\ NoConfig \in [gen : Gens, open : BOOLEAN] /\ 0 \in Gens /\ 0 \in 0..MaxFaults
          /\ NoKeys \in [Kinds -> [gen : Gens, at : Nat]]
          /\ NoConfs \in [Gens -> Addrs \cup {"unset", "empty"}]
      BY <1>1 DEF NoConfig, NoKeys, NoFile, NoConfs, Gens
    <2>2. "server" \in Kinds
      BY DEF Kinds
    <2>3. QED
      BY <1>1, <2>1, <2>2 DEF Init, TypeOK
  <1>3. MadeCounted /\ BringUp
    BY DEF Init, MadeCounted, BringUp, Copying, Publishing, NoConfig
  <1>4. QED
    BY <1>2, <1>3 DEF ConsoleInv

(* TonControl's steps leave the node and the volume alone.                 *)
LEMMA ControlKeeps ==
  ASSUME ConsoleInv, UNCHANGED <<nodeVars, diskVars, interrupted>>,
         TypeOK', faults' \in Nat, faults <= faults'
  PROVE  ConsoleInv'
  <1>1. made \in Nat /\ faults \in Nat
    BY FaultsAssumption DEF ConsoleInv, TypeOK, Gens
  <1>2. MadeCounted'
    <2>1. pc' = pc /\ made' = made
      BY DEF nodeVars
    <2>2. MadeCounted
      BY DEF ConsoleInv
    <2>3. \A m, f, g \in Nat : f <= g => (m <= f => m <= g) /\ (m <= f + 1 => m <= g + 1)
      OBVIOUS
    <2>4. CASE pc = "off"
      BY <1>1, <2>1, <2>2, <2>3, <2>4 DEF MadeCounted
    <2>5. CASE pc # "off"
      BY <1>1, <2>1, <2>2, <2>3, <2>5 DEF MadeCounted
    <2>6. QED
      BY <2>4, <2>5
  <1>3. ~interrupted' => BringUp'
    BY DEF ConsoleInv, BringUp, Copying, Publishing, KeysOf, nodeVars, diskVars
  <1>4. QED
    BY <1>2, <1>3 DEF ConsoleInv

LEMMA ControlTypes ==
  ASSUME TypeOK, ControlStep \/ RestartControl PROVE TypeOK'
  <1> USE FaultsAssumption DEF TypeOK, nodeVars, diskVars
  <1>1. CASE StartControl \/ RunCommand
    BY <1>1 DEF StartControl, RunCommand, Kinds
  <1>2. CASE KeyCached \/ KeyChanged
    BY <1>2 DEF KeyCached, KeyChanged, NextKey, Kinds
  <1>3. CASE ReadKey
    <2>1. [gen |-> volume[key].gen, at |-> stat] \in [gen : Gens, at : Nat]
      OBVIOUS
    <2>2. cache' \in [Kinds -> [gen : Gens, at : Nat]]
      BY <1>3, <2>1 DEF ReadKey
    <2>3. QED
      BY <1>3, <2>2 DEF ReadKey, NextKey, Kinds
  <1>4. CASE MismatchedKeys \/ UseConfig \/ ResolveFails
    BY <1>4 DEF MismatchedKeys, UseConfig, ResolveFails, NextCommand
  <1>5. CASE OpenConfig \/ WriteConfig
    <2>1. cache["client"].gen \in Gens
      BY DEF Kinds
    <2>2. confs' \in [Gens -> Addrs \cup {"unset", "empty"}]
      BY <1>5, <2>1 DEF OpenConfig, WriteConfig
    <2>3. QED
      BY <1>5, <2>2 DEF OpenConfig, WriteConfig
  <1>6. CASE Execute
    BY <1>6 DEF Execute
  <1>7. CASE RestartControl
    <2>1. /\ NoKeys \in [Kinds -> [gen : Gens, at : Nat]]
          /\ NoConfs \in [Gens -> Addrs \cup {"unset", "empty"}]
      BY DEF NoKeys, NoFile, NoConfs, Gens
    <2>2. QED
      BY <1>7, <2>1 DEF RestartControl, Fault, Kinds
  <1>8. QED
    BY <1>1, <1>2, <1>3, <1>4, <1>5, <1>6, <1>7 DEF ControlStep
-------------------------------------------------------------------------------
(* The bring-up.                                                           *)

LEMMA NodeTypes ==
  ASSUME TypeOK, MadeCounted, EntryStep \/ StopNode \/ RecreateNode \/ SupplyConfig
  PROVE  TypeOK' /\ MadeCounted'
  <1> USE FaultsAssumption DEF TypeOK, Gens, nodeVars, controlVars, diskVars, MadeCounted
  <1>0. NoConfig \in [gen : Gens, open : BOOLEAN] /\ \A g \in Gens, b \in BOOLEAN :
            [gen |-> g, open |-> b] \in [gen : Gens, open : BOOLEAN]
    BY DEF NoConfig
  <1>1. CASE SkipInit \/ ReuseConfig
    BY <1>1 DEF SkipInit, ReuseConfig
  <1>2. CASE CreateConfig
    BY <1>0, <1>2 DEF CreateConfig
  <1>3. CASE NodeWrites
    BY <1>0, <1>3 DEF NodeWrites
  <1>4. CASE CheckGenerated \/ ExecNode
    BY <1>4 DEF CheckGenerated, ExecNode
  <1>5. CASE PatchConfig
    BY <1>5 DEF PatchConfig, Patched
  <1>6. ASSUME NEW k \in Kinds, NEW g \in Gens
        PROVE  [volume EXCEPT ![k] = Written(volume[k], g)] \in [Kinds -> [gen : Gens, at : Nat]]
    <2>1. Written(volume[k], g) \in [gen : Gens, at : Nat]
      BY <1>6 DEF Written
    <2>2. QED
      BY <2>1
  <1>7. "client" \in Kinds /\ "server" \in Kinds /\ 0 \in Gens
    BY DEF Kinds
  <1>8. CASE PublishClient
    <2>1. \E g \in Gens : volume' = [volume EXCEPT !["client"] = Written(volume["client"], g)]
      <3>1. config.gen \in Gens
        OBVIOUS
      <3>2. QED
        BY ONLY <1>7, <1>8, <3>1 DEF PublishClient
    <2>2. volume' \in [Kinds -> [gen : Gens, at : Nat]]
      BY ONLY <1>6, <1>7, <2>1
    <2>3. /\ pc # "off" /\ pc' \in {"client_open", "server"}
          /\ UNCHANGED <<config, console, made, addr, supplied, db, interrupted, faults>>
          /\ UNCHANGED controlVars
      BY <1>8 DEF PublishClient
    <2>4. QED
      BY <2>2, <2>3
  <1>9. CASE PublishServer
    <2>1. \E g \in Gens : volume' = [volume EXCEPT !["server"] = Written(volume["server"], g)]
      <3>1. console \in Gens
        OBVIOUS
      <3>2. QED
        BY ONLY <1>7, <1>9, <3>1 DEF PublishServer
    <2>2. volume' \in [Kinds -> [gen : Gens, at : Nat]]
      BY ONLY <1>6, <1>7, <2>1
    <2>3. /\ pc # "off" /\ pc' \in {"server_open", "exec"} /\ console' \in {console, 0}
          /\ UNCHANGED <<config, made, addr, supplied, db, interrupted, faults>>
          /\ UNCHANGED controlVars
      BY <1>9 DEF PublishServer
    <2>4. QED
      BY <1>7, <2>2, <2>3
  <1>10. CASE StopNode
    BY <1>10 DEF StopNode, Fault, Publishing
  <1>11. CASE RecreateNode
    BY <1>0, <1>11 DEF RecreateNode, Fault
  <1>12. CASE SupplyConfig
    BY <1>12 DEF SupplyConfig, Fault
  <1>13. QED
    BY <1>1, <1>2, <1>3, <1>4, <1>5, <1>8, <1>9, <1>10, <1>11, <1>12 DEF EntryStep

LEMMA BringUpKept ==
  ASSUME TypeOK, BringUp, ~interrupted', EntryStep \/ StopNode \/ SupplyConfig
  PROVE  BringUp'
  <1> USE DEF BringUp, Copying, Publishing, KeysOf, nodeVars, diskVars
  <1>1. CASE SkipInit
    BY <1>1 DEF SkipInit, Initialized
  <1>2. CASE ReuseConfig
    BY <1>2 DEF ReuseConfig
  <1>3. CASE CreateConfig
    BY <1>3 DEF CreateConfig
  <1>4. CASE NodeWrites
    BY <1>4 DEF NodeWrites
  <1>5. CASE CheckGenerated
    BY <1>5 DEF CheckGenerated, NoConfig
  <1>6. CASE PatchConfig
    <2>1. config = [gen |-> made, open |-> FALSE]
      BY <1>6 DEF PatchConfig, Patched
    <2>2. config' = [gen |-> made, open |-> TRUE]
      BY ONLY <1>6, <2>1 DEF PatchConfig, Patched
    <2>3. QED
      BY <1>6, <2>2 DEF PatchConfig, Patched
  <1>7. CASE PublishClient
    BY <1>7 DEF PublishClient, Written, TypeOK, Kinds
  <1>8. CASE PublishServer
    BY <1>8 DEF PublishServer, Written, TypeOK, Kinds
  <1>9. CASE ExecNode
    BY <1>9 DEF ExecNode
  <1>10. CASE StopNode
    <2>1. ~Publishing /\ interrupted' \in BOOLEAN
      BY Zenon, <1>10 DEF StopNode
    <2>2. pc \in {"exec", "running"}
      BY <1>10, <2>1 DEF StopNode, TypeOK
    <2>3. QED
      BY <1>10, <2>2 DEF StopNode
  <1>11. CASE SupplyConfig
    BY <1>11 DEF SupplyConfig
  <1>12. QED
    BY <1>1, <1>2, <1>3, <1>4, <1>5, <1>6, <1>7, <1>8, <1>9, <1>10, <1>11 DEF EntryStep

(* A new container starts over, whatever became of the one before it.      *)
LEMMA BringUpAnew ==
  ASSUME TypeOK, ~interrupted => BringUp, ~interrupted', RecreateNode
  PROVE  BringUp'
  <1> USE DEF BringUp, Copying, Publishing, KeysOf, diskVars
  <1>1. CASE ~interrupted
    BY <1>1 DEF RecreateNode
  <1>2. CASE interrupted
    <2>1. supplied = NoConfig
      BY <1>2 DEF RecreateNode, TypeOK
    <2>2. QED
      BY <2>1 DEF RecreateNode
  <1>3. QED
    BY <1>1, <1>2
-------------------------------------------------------------------------------
LEMMA ConsoleStep == ConsoleInv /\ [Next]_vars => ConsoleInv'
  <1> SUFFICES ASSUME ConsoleInv, [Next]_vars PROVE ConsoleInv'
    OBVIOUS
  <1>1. TypeOK /\ MadeCounted /\ (~interrupted => BringUp)
    BY DEF ConsoleInv
  <1>2. made \in Nat /\ faults \in Nat
    BY <1>1, FaultsAssumption DEF TypeOK, Gens
  <1>3. CASE ControlStep
    <2>1. UNCHANGED <<nodeVars, diskVars, interrupted, faults>>
      BY <1>3 DEF ControlStep, StartControl, RunCommand, KeyCached, KeyChanged, ReadKey,
       MismatchedKeys, UseConfig, OpenConfig, WriteConfig, ResolveFails, Execute,
       NextCommand
    <2>2. TypeOK'
      BY <1>1, <1>3, ControlTypes
    <2>3. UNCHANGED <<nodeVars, diskVars, interrupted>> /\ faults' \in Nat /\ faults <= faults'
      BY <1>2, <2>1
    <2>4. QED
      BY <2>2, <2>3, ControlKeeps
  <1>4. CASE RestartControl
    <2>1. UNCHANGED <<nodeVars, diskVars, interrupted>> /\ faults' \in Nat /\ faults <= faults'
      BY <1>2, <1>4 DEF RestartControl, Fault
    <2>2. TypeOK'
      BY <1>1, <1>4, ControlTypes
    <2>3. QED
      BY <2>1, <2>2, ControlKeeps
  <1>5. CASE EntryStep \/ StopNode \/ RecreateNode \/ SupplyConfig
    <2>1. TypeOK' /\ MadeCounted'
      BY <1>1, <1>5, NodeTypes
    <2>2. EntryStep \/ StopNode \/ SupplyConfig => (~interrupted' => ~interrupted)
      <3>1. CASE EntryStep
        BY <3>1 DEF EntryStep, SkipInit, ReuseConfig, CreateConfig, NodeWrites,
       CheckGenerated, PatchConfig, PublishClient, PublishServer, ExecNode, Patched
      <3>2. CASE StopNode
        BY Zenon, <3>2 DEF StopNode
      <3>3. CASE SupplyConfig
        BY <3>3 DEF SupplyConfig
      <3>4. QED
        BY <3>1, <3>2, <3>3
    <2>3. ~interrupted' => BringUp'
      BY <1>1, <1>5, <2>2, BringUpKept, BringUpAnew
    <2>4. QED
      BY <2>1, <2>3 DEF ConsoleInv
  <1>6. CASE UNCHANGED vars
    <2>1. TypeOK'
      BY <1>1, <1>6 DEF vars, nodeVars, diskVars, controlVars, TypeOK
    <2>2. UNCHANGED <<nodeVars, diskVars, interrupted>> /\ faults' \in Nat /\ faults <= faults'
      BY <1>2, <1>6 DEF vars
    <2>3. QED
      BY <2>1, <2>2, ControlKeeps
  <1>7. QED
    BY <1>3, <1>4, <1>5, <1>6 DEF Next

(* The invariant holds in every state the containers can reach.            *)
THEOREM ConsoleInvariance == Spec => []ConsoleInv
  <1>1. QED
    BY InitConsole, ConsoleStep, PTL DEF Spec

(* Every variable keeps its type; above all the node never makes more      *)
(* configurations than it is stopped or made anew (entry.sh:32-101).       *)
THEOREM ConsoleTypeCorrect == Spec => []TypeOK
  <1>1. ConsoleInv => TypeOK
    BY DEF ConsoleInv
  <1>2. QED
    BY <1>1, ConsoleInvariance, PTL

(* A node whose container was brought up in one piece lets in whoever      *)
(* holds the keys on the volume, whatever befell the containers before it  *)
(* (entry.sh:32-101).                                                      *)
THEOREM VolumeOpens == Spec => []VolumeOpensNode
  <1>1. ConsoleInv => VolumeOpensNode
    BY DEF ConsoleInv, BringUp, KeysOf, VolumeOpensNode, LetsIn
  <1>2. QED
    BY <1>1, ConsoleInvariance, PTL

(* A container that was brought up completely is not given new keys when   *)
(* it is only restarted (entry.sh:32).                                     *)
THEOREM KeysStay == Spec => KeysSurviveRestart
  <1>1. ConsoleInv /\ [Next]_vars
          => [pc = "off" /\ pc' # "off" /\ config # NoConfig /\ ~interrupted
                  => config' = config]_vars
    <2> SUFFICES ASSUME ConsoleInv, Next, pc = "off", pc' # "off",
                        config # NoConfig, ~interrupted
                 PROVE  config' = config
      OBVIOUS
    <2>1. Initialized
      BY DEF ConsoleInv, BringUp, KeysOf, Initialized
    <2>2. CASE EntryStep
      BY <2>1, <2>2 DEF EntryStep, SkipInit, ReuseConfig, CreateConfig, NodeWrites,
       CheckGenerated, PatchConfig, PublishClient, PublishServer, ExecNode, Patched
    <2>3. CASE StopNode \/ RecreateNode \/ SupplyConfig
      BY <2>3 DEF StopNode, RecreateNode, SupplyConfig
    <2>4. CASE ControlStep \/ RestartControl
      BY <2>4 DEF ControlStep, RestartControl, StartControl, RunCommand, KeyCached,
       KeyChanged, ReadKey, MismatchedKeys, UseConfig, OpenConfig, WriteConfig,
       ResolveFails, Execute, nodeVars, NextCommand
    <2>5. QED
      BY <2>2, <2>3, <2>4 DEF Next
  <1>2. QED
    BY <1>1, ConsoleInvariance, PTL DEF Spec, KeysSurviveRestart
-------------------------------------------------------------------------------
(* The cache of the keys.                                                  *)

(* No time TonControl took of a key is later than the key's file; a file   *)
(* without a time was never written.                                       *)
TimesTaken ==
    /\ \A k \in Kinds : volume[k].at = 0 => volume[k].gen = 0
    /\ \A k \in Kinds : cache[k].at <= volume[k].at
    /\ cpc = "read" => stat <= volume[key].at

CacheInv == CacheIsCurrent /\ TimesTaken

LEMMA InitCache == Init => CacheInv
  BY DEF Init, CacheInv, CacheIsCurrent, TimesTaken, NoKeys, NoFile

(* The container gives a file it writes a later time.                      *)
LEMMA VolumeStep ==
  ASSUME TypeOK, EntryStep \/ StopNode \/ RecreateNode \/ SupplyConfig
  PROVE  /\ UNCHANGED controlVars
         /\ \A k \in Kinds : volume'[k] = volume[k] \/ volume'[k].at = volume[k].at + 1
  <1>1. CASE PublishClient
    <2>1. PICK g : volume' = [volume EXCEPT !["client"] = Written(volume["client"], g)]
      BY Zenon, <1>1 DEF PublishClient
    <2>2. QED
      BY <1>1, <2>1 DEF PublishClient, Written, TypeOK, Kinds
  <1>2. CASE PublishServer
    <2>1. PICK g : volume' = [volume EXCEPT !["server"] = Written(volume["server"], g)]
      BY Zenon, <1>2 DEF PublishServer
    <2>2. QED
      BY <1>2, <2>1 DEF PublishServer, Written, TypeOK, Kinds
  <1>3. CASE EntryStep /\ ~PublishClient /\ ~PublishServer
    BY <1>3 DEF EntryStep, SkipInit, ReuseConfig, CreateConfig, NodeWrites, CheckGenerated,
       PatchConfig, ExecNode, diskVars
  <1>4. CASE StopNode \/ RecreateNode \/ SupplyConfig
    BY <1>4 DEF StopNode, RecreateNode, SupplyConfig, diskVars
  <1>5. QED
    BY <1>1, <1>2, <1>3, <1>4

LEMMA CacheStep == TypeOK /\ CacheInv /\ [Next]_vars => CacheInv'
  <1> SUFFICES ASSUME TypeOK, CacheInv, [Next]_vars PROVE CacheInv'
    OBVIOUS
  <1> USE DEF CacheInv, CacheIsCurrent, TimesTaken
  <1>0. /\ \A k \in Kinds : cache[k].at \in Nat /\ volume[k].at \in Nat
        /\ key \in Kinds /\ stat \in Nat
    BY DEF TypeOK
  <1>1. CASE EntryStep \/ StopNode \/ RecreateNode \/ SupplyConfig
    <2>1. /\ cache' = cache /\ cpc' = cpc /\ key' = key /\ stat' = stat
          /\ \A k \in Kinds : volume'[k] = volume[k] \/ volume'[k].at = volume[k].at + 1
      BY <1>1, VolumeStep DEF controlVars
    <2>2. QED
      BY <1>0, <2>1
  <1>2. CASE KeyChanged
    BY <1>0, <1>2 DEF KeyChanged, diskVars
  <1>3. CASE ReadKey
    <2>1. /\ volume' = volume /\ cpc' # "read" /\ cache \in [Kinds -> [gen : Gens, at : Nat]]
          /\ cache' = [cache EXCEPT ![key] = [gen |-> volume[key].gen, at |-> stat]]
      BY <1>3 DEF ReadKey, NextKey, diskVars, TypeOK
    <2>2. /\ cache'[key] = [gen |-> volume[key].gen, at |-> stat]
          /\ \A k \in Kinds : k # key => cache'[k] = cache[k]
      BY <1>0, <2>1
    <2>3. stat <= volume[key].at
      BY <1>3 DEF ReadKey
    <2>4. QED
      BY <1>0, <2>1, <2>2, <2>3
  <1>4. CASE RestartControl
    <2>1. /\ volume' = volume /\ cpc' = "off"
          /\ \A k \in Kinds : cache'[k].at = 0 /\ cache'[k].gen = 0
      BY <1>4 DEF RestartControl, diskVars, NoKeys, NoFile
    <2>2. QED
      BY <1>0, <2>1
  <1>5. CASE ControlStep /\ ~KeyChanged /\ ~ReadKey
    <2>1. volume' = volume /\ cache' = cache /\ cpc' # "read"
      BY <1>5 DEF ControlStep, StartControl, RunCommand, KeyCached, NextKey, MismatchedKeys,
         UseConfig, OpenConfig, WriteConfig, ResolveFails, NextCommand, Execute, diskVars
    <2>2. QED
      BY <2>1
  <1>6. CASE UNCHANGED vars
    BY <1>6 DEF vars, diskVars, controlVars
  <1>7. QED
    BY <1>1, <1>2, <1>3, <1>4, <1>5, <1>6 DEF Next

(* A key in the cache that has the time of its file is what the file       *)
(* holds, however the node's container wrote it between the time being     *)
(* taken and the file being read (core.py:28-34).                          *)
THEOREM CacheStaysCurrent == Spec => []CacheIsCurrent
  <1>1. CacheInv => CacheIsCurrent
    BY DEF CacheInv
  <1>2. QED
    BY <1>1, InitCache, CacheStep, ConsoleTypeCorrect, PTL DEF Spec
===============================================================================
