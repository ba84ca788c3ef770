--------------------------- MODULE DeploymentProofs ---------------------------
(***************************************************************************)
(* The safety of a deployment, for every list of versions and keys and any *)
(* number of stops: where a key is that was put, which key and settings a  *)
(* process works with, and how complete the configuration of tonos-cli is. *)
(***************************************************************************)
EXTENDS Deployment, TLAPS

(* The tool runs once there are settings, a container is made with some.   *)
MadeOf ==
    /\ tool # "idle" => wanted # NoVersion
    /\ pc # "none" => made # NoVersion

(* While a key is put no start knows of picks up, it is nowhere in between.*)
GivenInPlace ==
    given # NoVersion =>
        /\ tool # "put"
        /\ IF pickUp = NoFile THEN keysDir = KeyOf[given] ELSE pickUp = KeyOf[given]
        /\ pc = "copy" => pickUp # NoFile
        /\ pc = "remove" => keysDir = KeyOf[given]

PutAlone == tool = "put" /\ ~raced => ~PickingUp

(* Where the key of a fresh start is, step by step.                        *)
FreshInPlace ==
    fresh =>
        /\ tool = "put" => ~PickingUp
        /\ pc = "copy" => pickUp = KeyOf[made]
        /\ pc \in {"remove", "main"} => keysDir = KeyOf[made]
        /\ pc \in Running => key = KeyOf[made]

SettingsLoaded == pc \in Running => settings = InForce(made)

(* A round without an error has run every command it came to.              *)
ConfMade ==
    /\ pc = "configure" /\ ret = "ok" => 1..(step - 1) \subseteq conf
    /\ pc # "configure" => conf \in {{}, 1..Commands} \/ marred
    /\ pc = "work" => conf = 1..Commands \/ marred

DeploymentInv ==
    TypeOK /\ MadeOf /\ GivenInPlace /\ PutAlone /\ FreshInPlace /\ SettingsLoaded /\ ConfMade
-------------------------------------------------------------------------------
(* The settings in force.                                                  *)

Undone == {"sync_diff", "queue_provider", "secret_provider"}

LEMMA SettingsType ==
  ASSUME NEW v \in Versions PROVE Settings(v) \in [Fields -> Versions \cup {Default}]
  BY DEF Settings

(* The JSON text has every field but the connection; what overrides it is  *)
(* the field's own value, three defaults apart.                            *)
LEMMA InForceIsSettings ==
  ASSUME NEW v \in Versions
  PROVE  /\ InForce(v) \in [Fields -> Versions \cup {Default}]
         /\ \A f \in Fields \ Undone : InForce(v)[f] = Settings(v)[f]
  <1> DEFINE s == Settings(v)
             env == Exported(s)
             args == Parsed(Passed(env))
             over == Override(args, FromJson(s))
             exported == {"connection", "stake", "max_factor", "queue_name", "network_addr",
                          "lite_addr"}
  <1>1. DOMAIN s = Fields /\ \A f \in Fields : s[f] \in Versions \cup {Default}
    BY SettingsType
  <1>2. env = [f \in exported |-> s[f]]
    BY DEF Exported, Restrict
  <1>3. Passed(env) = [f \in exported \ {"connection"} |-> s[f]]
    BY <1>2 DEF Passed, Restrict
  <1>4. args = [f \in (exported \ {"connection"}) \cup Undone |->
                   IF f \in Undone THEN Default ELSE s[f]]
    BY <1>3 DEF Over, Parsed, Restrict, Undone, Fields
  <1>5. over = [f \in Fields \ {"connection"} |-> IF f \in Undone THEN Default ELSE s[f]]
    BY <1>1, <1>4 DEF Over, Override, FromJson, Restrict, Undone, Fields
  <1>6. InForce(v) = [f \in Fields |-> IF f \in Undone THEN Default ELSE s[f]]
    BY <1>1, <1>2, <1>5 DEF Over, InForce, Restrict, Undone, Fields
  <1>7. QED
    BY <1>1, <1>6
-------------------------------------------------------------------------------
(* Types.                                                                  *)

LEMMA InitDeployment == Init => DeploymentInv
  <1> SUFFICES ASSUME Init PROVE DeploymentInv
    OBVIOUS
  <1>1. TypeOK
    <2>1. {wanted, made, given} \subseteq Versions \cup {NoVersion}
      BY DEF Init
    <2>2. {pickUp, keysDir, key} \subseteq Keys \cup {NoFile, Torn}
      BY DEF Init
    <2>3. settings = NoSettings /\ pc = "none" /\ tool = "idle" /\ ret = "ok"
      BY DEF Init
    <2>4. conf = {} /\ step = 1 /\ round = 1 /\ faults = 0
      BY DEF Init
    <2>5. raced \in BOOLEAN /\ fresh \in BOOLEAN /\ marred \in BOOLEAN
      BY DEF Init
    <2>6. step \in 1..(Commands + 1) /\ round \in 1..MaxRounds /\ faults \in 0..MaxFaults
      BY <2>4, BoundsAssumption
    <2>7. QED
      BY <2>1, <2>2, <2>3, <2>4, <2>5, <2>6 DEF TypeOK
  <1>2. MadeOf /\ GivenInPlace /\ PutAlone /\ FreshInPlace /\ SettingsLoaded /\ ConfMade
    BY DEF Init, MadeOf, GivenInPlace, PutAlone, PickingUp, FreshInPlace, SettingsLoaded,
       Running, ConfMade
  <1>3. QED
    BY <1>1, <1>2 DEF DeploymentInv

LEMMA TypesKept == TypeOK /\ MadeOf /\ [Next]_vars => TypeOK' /\ MadeOf'
  <1> SUFFICES ASSUME TypeOK, MadeOf, [Next]_vars PROVE TypeOK' /\ MadeOf'
    OBVIOUS
  <1>0. /\ Commands \in Nat /\ MaxRounds \in Nat /\ MaxFaults \in Nat
        /\ 1 \in 1..(Commands + 1) /\ 1 \in 1..MaxRounds
        /\ Fault => faults' \in 0..MaxFaults
        /\ \A i \in 1..MaxRounds : i < MaxRounds => i + 1 \in 1..MaxRounds
        /\ \A v \in Versions : KeyOf[v] \in Keys
    <2>1. Commands \in Nat /\ MaxRounds \in Nat /\ MaxFaults \in Nat /\ MaxRounds # 0
      BY BoundsAssumption
    <2>2. faults \in 0..MaxFaults
      BY DEF TypeOK
    <2>3. \A v \in Versions : KeyOf[v] \in Keys
      BY KeysAssumption
    <2>4. QED
      BY <2>1, <2>2, <2>3 DEF Fault
  <1> USE <1>0 DEF TypeOK, MadeOf, Running, hostVars, processVars, UnchangedHost
  <1>1. ASSUME NEW v \in Versions, EditSettings(v) PROVE TypeOK' /\ MadeOf'
    BY <1>1 DEF EditSettings
  <1>2. ASSUME NEW command, NEW name, StartTool(command, name) PROVE TypeOK' /\ MadeOf'
    BY <1>2 DEF StartTool
  <1>3. CASE OpenUpload
    BY <1>3 DEF OpenUpload, PickingUp
  <1>4. CASE CloseUpload
    BY <1>4 DEF CloseUpload
  <1>5. CASE UploadFails \/ UpFails
    BY <1>5 DEF UploadFails, UpFails
  <1>6. ASSUME NEW newImage \in BOOLEAN, Up(newImage) PROVE TypeOK' /\ MadeOf'
    BY <1>6 DEF Up, Recreate
  <1>7. CASE CheckPickUp
    BY <1>7 DEF CheckPickUp
  <1>8. CASE CopyKeys \/ RemoveKeys
    BY <1>8 DEF CopyKeys, Copied, RemoveKeys
  <1>9. CASE Main
    BY <1>9, InForceIsSettings DEF Main
  <1>10. CASE MainFails
    BY <1>10 DEF MainFails, Restart, AfterExit
  <1>11. CASE StartPass \/ RetryRound
    BY <1>11 DEF StartPass, RetryRound, StartRound, Retry, RoundOver
  <1>12. CASE ConfigCommand
    BY <1>12 DEF ConfigCommand
  <1>13. ASSUME NEW how \in {"error", "timeout"}, ConfigCommandFails(how)
         PROVE  TypeOK' /\ MadeOf'
    BY <1>13 DEF ConfigCommandFails
  <1>14. CASE EndConfigure \/ NextPass
    BY <1>14 DEF EndConfigure, RoundOver, Retry, NextPass
  <1>15. CASE Stop
    BY <1>15 DEF Stop, Restart, AfterExit
  <1>16. CASE UNCHANGED vars
    BY <1>16 DEF vars
  <1>17. QED
    BY <1>1, <1>2, <1>3, <1>4, <1>5, <1>6, <1>7, <1>8, <1>9, <1>10, <1>11, <1>12, <1>13, <1>14,
       <1>15, <1>16
    DEF Next, Operator, Tool, Entry, Routine, Configure
-------------------------------------------------------------------------------
(* Where the key is.                                                       *)

Places == GivenInPlace /\ PutAlone /\ FreshInPlace

LEMMA PlacesKept == TypeOK /\ MadeOf /\ Places /\ [Next]_vars => Places'
  <1> SUFFICES ASSUME TypeOK, MadeOf, Places, [Next]_vars PROVE Places'
    OBVIOUS
  <1>0. /\ \A v \in Versions : v # NoVersion /\ KeyOf[v] \in Keys
        /\ NoFile \notin Keys /\ Torn # NoFile
        /\ {raced, fresh} \subseteq BOOLEAN
        /\ tool # "idle" => wanted \in Versions
    BY VersionsAssumption, KeysAssumption DEF TypeOK, MadeOf, NoFile, Torn
  <1> USE DEF Places, GivenInPlace, PutAlone, FreshInPlace, PickingUp, Running, hostVars,
          processVars, UnchangedHost
  <1>1. ASSUME NEW v \in Versions, EditSettings(v) PROVE Places'
    BY <1>1 DEF EditSettings
  <1>2. ASSUME NEW command, NEW name, StartTool(command, name) PROVE Places'
    BY <1>2 DEF StartTool
  <1>3. CASE OpenUpload
    BY <1>0, <1>3 DEF OpenUpload
  <1>4. CASE CloseUpload
    BY <1>0, <1>4 DEF CloseUpload
  <1>5. CASE UploadFails \/ UpFails
    BY <1>5 DEF UploadFails, UpFails
  <1>6. ASSUME NEW newImage \in BOOLEAN, Up(newImage) PROVE Places'
    BY <1>6 DEF Up, Recreate
  <1>7. CASE CheckPickUp
    BY <1>0, <1>7 DEF CheckPickUp
  <1>8. CASE CopyKeys \/ RemoveKeys
    BY <1>8 DEF CopyKeys, Copied, RemoveKeys
  <1>9. CASE Main
    BY <1>9 DEF Main
  <1>10. CASE MainFails
    BY <1>10 DEF MainFails, Restart, AfterExit
  <1>11. CASE StartPass \/ RetryRound
    BY <1>11 DEF StartPass, RetryRound, StartRound, RoundOver
  <1>12. CASE ConfigCommand \/ NextPass
    BY <1>12 DEF ConfigCommand, NextPass
  <1>13. ASSUME NEW how \in {"error", "timeout"}, ConfigCommandFails(how) PROVE Places'
    BY <1>13 DEF ConfigCommandFails
  <1>14. CASE EndConfigure
    BY <1>14 DEF EndConfigure, RoundOver
  <1>15. CASE Stop
    BY <1>15 DEF Stop, Restart, AfterExit
  <1>16. CASE UNCHANGED vars
    BY <1>16 DEF vars
  <1>17. QED
    BY <1>1, <1>2, <1>3, <1>4, <1>5, <1>6, <1>7, <1>8, <1>9, <1>10, <1>11, <1>12, <1>13, <1>14,
       <1>15, <1>16
    DEF Next, Operator, Tool, Entry, Routine, Configure
-------------------------------------------------------------------------------
(* What the process works with.                                            *)

Loaded == SettingsLoaded /\ ConfMade

LEMMA LoadedKept == TypeOK /\ Loaded /\ [Next]_vars => Loaded'
  <1> SUFFICES ASSUME TypeOK, Loaded, [Next]_vars PROVE Loaded'
    OBVIOUS
  <1>0. /\ step \in Nat /\ Commands \in Nat /\ MaxRounds \in Nat /\ conf \subseteq 1..Commands
        /\ round \in 1..MaxRounds /\ ret \in {"ok", "error", "timeout"}
        /\ step \in 1..(Commands + 1)
    BY BoundsAssumption DEF TypeOK
  <1> USE DEF Loaded, SettingsLoaded, ConfMade, Running, hostVars, processVars, UnchangedHost
  <1>1. ASSUME NEW v \in Versions, EditSettings(v) PROVE Loaded'
    BY <1>1 DEF EditSettings
  <1>2. ASSUME NEW command, NEW name, StartTool(command, name) PROVE Loaded'
    BY <1>2 DEF StartTool
  <1>3. CASE OpenUpload \/ CloseUpload \/ UploadFails \/ UpFails
    BY <1>3 DEF OpenUpload, CloseUpload, UploadFails, UpFails
  <1>4. ASSUME NEW newImage \in BOOLEAN, Up(newImage) PROVE Loaded'
    BY <1>4 DEF Up, Recreate
  <1>5. CASE CheckPickUp \/ CopyKeys \/ RemoveKeys
    BY <1>5 DEF CheckPickUp, CopyKeys, RemoveKeys
  <1>6. CASE Main
    BY <1>6 DEF Main
  <1>7. CASE MainFails \/ Stop
    BY <1>7 DEF MainFails, Stop, Restart, AfterExit
  <1>8. CASE StartPass \/ RetryRound
    BY <1>8 DEF StartPass, RetryRound, StartRound, RoundOver
  <1>9. CASE ConfigCommand
    <2>1. pc' = pc /\ pc = "configure" /\ UNCHANGED <<settings, made, ret, marred>>
      BY <1>9 DEF ConfigCommand
    <2>2. 1..(step' - 1) \subseteq (1..(step - 1)) \cup {step} /\ conf' = conf \cup {step}
      BY <1>0, <1>9 DEF ConfigCommand
    <2>3. QED
      BY <2>1, <2>2
  <1>10. ASSUME NEW how \in {"error", "timeout"}, ConfigCommandFails(how) PROVE Loaded'
    BY <1>10 DEF ConfigCommandFails
  <1>11. CASE EndConfigure
    <2>1. step = Commands + 1 /\ (ret = "ok" => conf = 1..Commands)
      <3>1. step > Commands /\ pc = "configure"
        BY <1>11 DEF EndConfigure, RoundOver
      <3>2. step = Commands + 1
        BY <1>0, <3>1
      <3>3. step - 1 = Commands
        BY <1>0, <3>2
      <3>4. QED
        BY <1>0, <3>1, <3>2, <3>3
    <2>2. ret = "timeout" => round = MaxRounds
      BY <1>0, <1>11 DEF EndConfigure, Retry
    <2>3. marred' \/ conf = 1..Commands
      BY <1>0, <1>11, <2>1, <2>2 DEF EndConfigure
    <2>4. pc' \in {"pass", "work"} /\ UNCHANGED <<settings, made, conf>> /\ pc = "configure"
      BY <1>11 DEF EndConfigure, RoundOver
    <2>5. QED
      BY <2>3, <2>4
  <1>12. CASE NextPass
    BY <1>12 DEF NextPass
  <1>13. CASE UNCHANGED vars
    BY <1>13 DEF vars
  <1>14. QED
    BY <1>1, <1>2, <1>3, <1>4, <1>5, <1>6, <1>7, <1>8, <1>9, <1>10, <1>11, <1>12, <1>13
    DEF Next, Operator, Tool, Entry, Routine, Configure
-------------------------------------------------------------------------------
(* Types, the place of the keys and what the process loaded are an         *)
(* inductive invariant.                                                    *)
THEOREM DeploymentInvariance == Spec => []DeploymentInv
  <1>1. DeploymentInv /\ [Next]_vars => DeploymentInv'
    BY TypesKept, PlacesKept, LoadedKept DEF DeploymentInv, Places, Loaded
  <1>2. QED
    BY InitDeployment, <1>1, PTL DEF Spec

(* Every variable keeps its type.                                          *)
THEOREM DeploymentTypeCorrect == Spec => []TypeOK
  <1>1. DeploymentInv => TypeOK
    BY DEF DeploymentInv
  <1>2. QED
    BY <1>1, DeploymentInvariance, PTL

(* A key that was put while no start picked keys up is not lost, wherever  *)
(* starts are stopped (entry.sh:24-31).                                    *)
THEOREM GivenKeyStays == Spec => []GivenKeyKept
  <1>1. DeploymentInv => GivenKeyKept
    BY DEF DeploymentInv, GivenInPlace, GivenKeyKept
  <1>2. QED
    BY <1>1, DeploymentInvariance, PTL

(* An undisturbed start decrypts with the right key                        *)
(* (envprovider/core.py:17-23, entry.sh:24-31).                            *)
THEOREM UndisturbedKeyFits == Spec => []FreshKeyFits
  <1>1. DeploymentInv => FreshKeyFits
    BY DEF DeploymentInv, FreshInPlace, FreshKeyFits
  <1>2. QED
    BY <1>1, DeploymentInvariance, PTL

(* Three of the thirteen settings apart, the process works with those its  *)
(* container was made with (main.py:119-144, core.py:83-120, entry.sh:64-  *)
(* 75).                                                                    *)
THEOREM SettingsArrive == Spec => []SettingsInForce
  <1>1. DeploymentInv => SettingsInForce
    <2> SUFFICES ASSUME DeploymentInv, pc \in Running PROVE SettingsInForce
      BY DEF SettingsInForce
    <2>1. made \in Versions /\ settings = InForce(made)
      BY DEF DeploymentInv, TypeOK, MadeOf, SettingsLoaded, Running
    <2>2. QED
      BY <2>1, InForceIsSettings DEF SettingsInForce, Undone
  <1>2. QED
    BY <1>1, DeploymentInvariance, PTL

(* A command of tonos-cli runs with its whole configuration, unless a      *)
(* config command failed for good or the process ended in between          *)
(* (tonoscli/core.py:49-75).                                               *)
THEOREM TimeoutsAreMadeUpFor == Spec => []UsesFullConfiguration
  <1>1. DeploymentInv => UsesFullConfiguration
    BY DEF DeploymentInv, ConfMade, UsesFullConfiguration
  <1>2. QED
    BY <1>1, DeploymentInvariance, PTL
===============================================================================
