------------------------------ MODULE Deployment ------------------------------
(***************************************************************************)
(* A deployment and what it starts.  The manage tool (core.py, services.py,*)
(* ssh_client.py) puts the key the secrets are encrypted with into a       *)
(* directory of the host and has docker-compose make the toncontrol        *)
(* container with the settings; the container's entry.sh picks the key up  *)
(* into a volume and removes it from the host; main.py loads it and the    *)
(* settings, and the first call to tonos-cli configures that tool.  The    *)
(* container restarts whenever its process ends, with no regard to what    *)
(* the manage tool is doing.                                               *)
(*                                                                         *)
(* A version of the settings stands for everything beside manage.py at one *)
(* time: its NodeSettings and the key in its configs/keys.                 *)
(***************************************************************************)
EXTENDS Naturals, SettingsFlow

CONSTANTS
    Keys,        \* encryption keys
    KeyOf,       \* the key the secrets of a version are encrypted with
    Commands,    \* how many config commands tonos-cli takes
    MaxRounds,   \* retries of _run_command
    MaxFaults    \* bound: stops, cut uploads, failed ups and config commands

NoVersion == 0
NoFile    == "none"
Torn      == "torn"

ASSUME VersionsAssumption == Versions \subseteq Nat \ {NoVersion}
ASSUME KeysAssumption     == Keys \cap {NoFile, Torn} = {} /\ KeyOf \in [Versions -> Keys]
ASSUME BoundsAssumption   == {Commands, MaxRounds} \subseteq Nat \ {0} /\ MaxFaults \in Nat

VARIABLES
    \* the operator's side
    wanted,    \* the version beside manage.py
    tool,      \* where a run of the manage tool is
    \* the host and the volume, each with room for the one key file
    pickUp,    \* TON_CONTROL_WORK_DIR/configs/keys
    keysDir,   \* ton-control-keys
    \* the container
    made,      \* the version it was made with
    pc,        \* where its process is
    key,       \* EnvSecretProvider._private_key
    settings,  \* ton_control_settings
    conf,      \* the config commands tonos-cli.conf.json holds; {} when there is none
    step,      \* the config command to run next
    round,     \* i
    ret,       \* what the config commands of this round returned
    \* history
    given,     \* the version whose key was put without a start in between
    raced,     \* a start picked keys up during the last put
    fresh,     \* this start found a key complete and nothing was put meanwhile
    marred,    \* the configuration of tonos-cli failed for good or was cut short
    faults

hostVars    == <<wanted, tool, given>>
processVars == <<key, settings, step, round, ret>>
vars == <<hostVars, pickUp, keysDir, made, pc, processVars, conf, raced, fresh, marred, faults>>

Running == {"pass", "configure", "work"}
NoSettings == [f \in {} |-> Default]

Init ==
    /\ wanted = NoVersion /\ tool = "idle" /\ given = NoVersion
    /\ pickUp = NoFile /\ keysDir = NoFile
    /\ made = NoVersion /\ pc = "none"
    /\ key = NoFile /\ settings = NoSettings /\ step = 1 /\ round = 1 /\ ret = "ok"
    /\ conf = {} /\ raced = FALSE /\ fresh = FALSE /\ marred = FALSE /\ faults = 0

Fault == faults < MaxFaults /\ faults' = faults + 1

-------------------------------------------------------------------------------
(* The manage tool.                                                        *)

EditSettings(v) ==
    /\ tool = "idle" /\ v > wanted
    /\ wanted' = v
    /\ UNCHANGED <<tool, given, pickUp, keysDir, made, pc, processVars, conf, raced, fresh,
                   marred, faults>>

Services == {"tonvalidator", "toncontrol", "tonlogstash"}

(* --service: a name that is none of the services runs all of them.        *)
ServicesToRun(name) == IF name \in Services THEN {name} ELSE Services

(* "run" prepares the service before it is brought up, "docker" does not.  *)
StartTool(command, name) ==
    /\ tool = "idle" /\ wanted # NoVersion
    /\ "toncontrol" \in ServicesToRun(name)
    /\ tool' = IF command = "run" THEN "prepare" ELSE "up"
    /\ UNCHANGED <<wanted, given, pickUp, keysDir, made, pc, processVars, conf, raced, fresh,
                   marred, faults>>

PickingUp == pc \in {"copy", "remove"}

(* put opens the file for writing: what was in it is gone.                 *)
OpenUpload ==
    /\ tool = "prepare"
    /\ tool' = "put" /\ pickUp' = Torn
    /\ given' = NoVersion /\ raced' = PickingUp
    /\ fresh' = (fresh /\ ~PickingUp)
    /\ UNCHANGED <<wanted, keysDir, made, pc, processVars, conf, marred, faults>>

(* put checks the file it wrote: when it is gone, the tool ends there.     *)
CloseUpload ==
    /\ tool = "put"
    /\ IF pickUp = NoFile
       THEN tool' = "idle" /\ UNCHANGED <<given, pickUp>>
       ELSE /\ tool' = "up" /\ pickUp' = KeyOf[wanted]
            /\ given' = IF raced THEN NoVersion ELSE wanted
    /\ UNCHANGED <<wanted, keysDir, made, pc, processVars, conf, raced, fresh, marred, faults>>

UploadFails ==
    /\ tool \in {"prepare", "put"} /\ Fault
    /\ tool' = "idle"
    /\ UNCHANGED <<wanted, given, pickUp, keysDir, made, pc, processVars, conf, raced, fresh,
                   marred>>

(* A new container; the volume stays.                                      *)
Recreate ==
    /\ made' = wanted /\ pc' = "entry"
    /\ conf' = {} /\ marred' = FALSE /\ fresh' = FALSE
    /\ key' = NoFile /\ settings' = NoSettings /\ step' = 1 /\ round' = 1 /\ ret' = "ok"

(* up leaves a container alone whose settings and image did not change.    *)
Up(newImage) ==
    /\ tool = "up" /\ tool' = "idle"
    /\ IF made # wanted \/ newImage
       THEN Recreate
       ELSE UNCHANGED <<made, pc, processVars, conf, marred, fresh>>
    /\ UNCHANGED <<wanted, given, pickUp, keysDir, raced, faults>>

(* The return code of docker-compose is not looked at.                     *)
UpFails ==
    /\ tool = "up" /\ Fault
    /\ tool' = "idle"
    /\ UNCHANGED <<wanted, given, pickUp, keysDir, made, pc, processVars, conf, raced, fresh,
                   marred>>

-------------------------------------------------------------------------------
(* The container: entry.sh.                                                *)

UnchangedHost == UNCHANGED <<hostVars, made, faults>>

CheckPickUp ==
    /\ pc = "entry"
    /\ pc' = IF pickUp = NoFile THEN "main" ELSE "copy"
    /\ fresh' = (given # NoVersion /\ KeyOf[given] = KeyOf[made])
    /\ raced' = (raced \/ tool = "put")
    /\ UnchangedHost /\ UNCHANGED <<pickUp, keysDir, processVars, conf, marred>>

\* Mutation: a key of the volume is not overwritten.
CopiedIfNone == IF keysDir = NoFile THEN pickUp ELSE keysDir

\* what the volume gets
Copied == pickUp

CopyKeys ==
    /\ pc = "copy"
    /\ keysDir' = Copied
    /\ pc' = "remove"
    /\ UnchangedHost /\ UNCHANGED <<pickUp, processVars, conf, raced, fresh, marred>>

RemoveKeys ==
    /\ pc = "remove"
    /\ pickUp' = NoFile
    /\ pc' = "main"
    /\ UnchangedHost /\ UNCHANGED <<keysDir, processVars, conf, raced, fresh, marred>>

\* Mutation: restarted on failure only, and main.py ends without one.
AfterExitOnFailure == "none"

AfterExit == "entry"

(* Whatever ends the process, the container starts it again from the top.  *)
Restart(at) ==
    /\ pc' = AfterExit /\ fresh' = FALSE
    /\ marred' = (marred \/ (at = "configure" /\ conf # {}))
    /\ key' = NoFile /\ settings' = NoSettings /\ step' = 1 /\ round' = 1 /\ ret' = "ok"

(* A stop in the middle of the copy leaves half a key in the volume.       *)
Stop ==
    /\ pc # "none" /\ Fault
    /\ Restart(pc)
    /\ keysDir' \in IF pc = "copy" THEN {keysDir, Torn} ELSE {keysDir}
    /\ UNCHANGED <<hostVars, pickUp, made, conf, raced>>

-------------------------------------------------------------------------------
(* The process: main.py and the first call of the routine.                 *)

Main ==
    /\ pc = "main" /\ keysDir \in Keys
    /\ key' = keysDir /\ settings' = InForce(made)
    /\ pc' = "pass"
    /\ UnchangedHost
    /\ UNCHANGED <<pickUp, keysDir, step, round, ret, conf, raced, fresh, marred>>

(* No key, half a key, or no console keys yet: main ends.                  *)
MainFails ==
    /\ pc = "main"
    /\ Restart(pc)
    /\ UnchangedHost /\ UNCHANGED <<pickUp, keysDir, conf, raced>>

StartRound(i) == step' = 1 /\ round' = i /\ ret' = "ok"

(* The configuration of tonos-cli is made where there is none.             *)
StartPass ==
    /\ pc = "pass"
    /\ pc' = IF conf = {} THEN "configure" ELSE "work"
    /\ StartRound(1)
    /\ UnchangedHost
    /\ UNCHANGED <<pickUp, keysDir, key, settings, conf, raced, fresh, marred>>

ConfigCommand ==
    /\ pc = "configure" /\ step <= Commands
    /\ conf' = conf \cup {step} /\ step' = step + 1
    /\ UnchangedHost
    /\ UNCHANGED <<pickUp, keysDir, pc, key, settings, round, ret, raced, fresh, marred>>

(* One output that speaks of a timeout makes the whole round one.          *)
ConfigCommandFails(how) ==
    /\ pc = "configure" /\ step <= Commands /\ Fault
    /\ step' = step + 1
    /\ ret' = IF ret = "timeout" THEN ret ELSE how
    /\ UNCHANGED <<hostVars, made, pickUp, keysDir, pc, key, settings, conf, round, raced,
                   fresh, marred>>

\* Mutations: a round that timed out is not run again, or is for ever.
RetryNever == FALSE
RetryAlways == ret = "timeout"

Retry == ret = "timeout" /\ round < MaxRounds

RoundOver == pc = "configure" /\ step > Commands

RetryRound ==
    /\ RoundOver /\ Retry
    /\ StartRound(round + 1)
    /\ UnchangedHost
    /\ UNCHANGED <<pickUp, keysDir, pc, key, settings, conf, raced, fresh, marred>>

(* The last round is used as it is, unless it failed and left no file.     *)
EndConfigure ==
    /\ RoundOver /\ ~Retry
    /\ pc' = IF ret = "error" /\ conf = {} THEN "pass" ELSE "work"
    /\ marred' = (marred \/ ret = "error" \/ (ret = "timeout" /\ round = MaxRounds))
    /\ UnchangedHost
    /\ UNCHANGED <<pickUp, keysDir, processVars, conf, raced, fresh>>

(* The passes that follow: ElectionsRoutine.                               *)
NextPass ==
    /\ pc = "work" /\ pc' = "pass"
    /\ UnchangedHost
    /\ UNCHANGED <<pickUp, keysDir, processVars, conf, raced, fresh, marred>>

-------------------------------------------------------------------------------
Tool ==
    \/ OpenUpload \/ CloseUpload \/ UploadFails
    \/ (\E newImage \in BOOLEAN : Up(newImage)) \/ UpFails

Operator ==
    \/ \E v \in Versions : EditSettings(v)
    \/ \E command \in {"run", "docker"}, name \in {"toncontrol", "tonlogstash", "every"} :
          StartTool(command, name)

Configure ==
    \/ ConfigCommand \/ (\E how \in {"error", "timeout"} : ConfigCommandFails(how))
    \/ RetryRound \/ EndConfigure

Entry == CheckPickUp \/ CopyKeys \/ RemoveKeys \/ Main \/ MainFails
Routine == StartPass \/ Configure \/ NextPass

Next == Operator \/ Tool \/ Entry \/ Routine \/ Stop

Spec == Init /\ [][Next]_vars

(* The container runs, and a start that may succeed again and again does.  *)
FairSpec == Spec /\ WF_vars(Entry \/ Routine) /\ SF_vars(Main)

-------------------------------------------------------------------------------
(* Every variable keeps its type.                                          *)
TypeOK ==
    /\ {wanted, made, given} \subseteq Versions \cup {NoVersion}
    /\ tool \in {"idle", "prepare", "put", "up"}
    /\ {pickUp, keysDir, key} \subseteq Keys \cup {NoFile, Torn}
    /\ pc \in {"none", "entry", "copy", "remove", "main"} \cup Running
    /\ settings \in [Fields -> Versions \cup {Default}] \cup {NoSettings}
    /\ conf \subseteq 1..Commands /\ step \in 1..(Commands + 1) /\ round \in 1..MaxRounds
    /\ ret \in {"ok", "error", "timeout"}
    /\ raced \in BOOLEAN /\ fresh \in BOOLEAN /\ marred \in BOOLEAN
    /\ faults \in 0..MaxFaults

(* A key that was put while no start was picking keys up is on the host or *)
(* in the volume, wherever a start is stopped (entry.sh:24-31: copied      *)
(* first, removed then).                                                   *)
GivenKeyKept == given # NoVersion => KeyOf[given] \in {pickUp, keysDir}

(* A process whose start found its key complete, and was not disturbed by  *)
(* another put, decrypts with the key its secrets are encrypted with       *)
(* (envprovider/core.py:17-23, entry.sh:24-31).                            *)
FreshKeyFits == fresh /\ pc \in Running => key = KeyOf[made]

(* A process works with the settings its container was made with, but for  *)
(* three whose arguments nobody passes (main.py:119-144, core.py:83-120,   *)
(* entry.sh:64-75).                                                        *)
SettingsInForce ==
    pc \in Running =>
        \A f \in Fields \ {"sync_diff", "queue_provider", "secret_provider"} :
            settings[f] = Settings(made)[f]

(* Timeouts of the configuration are made up for: a command runs with all  *)
(* of it unless a config command failed otherwise, every round timed out,  *)
(* or the process ended in between (tonoscli/core.py:49-75).               *)
UsesFullConfiguration == pc = "work" => conf = 1..Commands \/ marred

Serves == pc \in Running /\ key = KeyOf[made]

(* Once a key is given and the container starts after that, or is new, it  *)
(* gets to work with that key unless the tool is run again (core.py:139-   *)
(* 151, docker-compose.yml:65, 79).                                        *)
Given == given # NoVersion /\ made # NoVersion /\ KeyOf[given] = KeyOf[made] /\ tool = "idle"

GivenKeyServes == (Given /\ pc = "entry") ~> (Serves \/ ~Given)
===============================================================================
