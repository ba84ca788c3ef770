----------------------------- MODULE SettingsFlow -----------------------------
(***************************************************************************)
(* How the settings beside manage.py reach the process in the container:   *)
(* as the JSON text of TON_CONTROL_SETTINGS, and, some of them, as         *)
(* variables of their own that entry.sh turns into arguments of main.py.   *)
(* An argument beats the JSON text, and an argument nobody passes has the  *)
(* value the class was written with.                                       *)
(***************************************************************************)
EXTENDS Functions

CONSTANTS
    Versions,  \* the settings an operator deploys one after the other
    Own        \* Own[v]: the fields the settings of version v set themselves

Fields == {"connection", "stake", "max_factor", "mode", "depools", "endpoints", "project",
           "queue_name", "network_addr", "lite_addr", "sync_diff", "queue_provider",
           "secret_provider"}

ASSUME SettingsFlowAssumption == Own \in [Versions -> SUBSET Fields]

Default == 0  \* the value of a field in class TonSettings

(* The attributes of NodeSettings: its own and the inherited ones.         *)
Settings(v) == [f \in Fields |-> IF f \in Own[v] THEN v ELSE Default]

(* What over has of a field beats what under has.                          *)
Over(over, under) ==
    [f \in DOMAIN over \cup DOMAIN under |-> IF f \in DOMAIN over THEN over[f] ELSE under[f]]

\* Mutation: the stake is not exported.
ExportedWithoutStake(settings) ==
    Restrict(settings, {"connection", "max_factor", "queue_name", "network_addr", "lite_addr"})

(* The environment manage.py runs docker-compose in, as far as             *)
(* docker-compose.yml hands it on to the container.  A field is handed on  *)
(* when it is not empty; a version sets no field to an empty value.        *)
Exported(settings) ==
    Restrict(settings, {"connection", "stake", "max_factor", "queue_name", "network_addr",
                        "lite_addr"})

(* TON_CONTROL_SETTINGS there and back: every attribute, subclasses under  *)
(* the name of the class main.py knows.  The connection string of the      *)
(* secrets is read from a variable of its own instead.                     *)
FromJson(settings) == Restrict(settings, Fields \ {"connection"})

(* What entry.sh passes of the environment, when it is set.                *)
Passed(environment) ==
    Restrict(environment,
             DOMAIN environment \cap {"stake", "max_factor", "queue_name", "network_addr",
                                      "lite_addr"})

(* The arguments that override a field; stake_max_factor is parsed and not *)
(* used.                                                                   *)
Parsed(arguments) ==
    Over(arguments, [f \in {"stake", "queue_name", "network_addr", "lite_addr", "sync_diff",
                            "queue_provider", "secret_provider"} |-> Default])

Override(arguments, settings) ==
    Over(Restrict(arguments, DOMAIN arguments \ {"max_factor"}), settings)

(* The settings a process made with version v works with.                  *)
InForce(v) ==
    LET environment == Exported(Settings(v))
    IN  Over(Restrict(environment, {"connection"}),
             Override(Parsed(Passed(environment)), FromJson(Settings(v))))
===============================================================================
