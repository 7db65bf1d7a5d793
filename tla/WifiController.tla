---- MODULE WifiController ----
(***************************************************************************)
(* src/src/wifiController.c over the settings storage: the wifi is started *)
(* by app_main before any other task exists, and again by the dispatcher   *)
(* after each Set of WifiMode, successful or not. An ESP_ERROR_CHECK that  *)
(* fails on the way resets the device, as Crash may at any step.           *)
(***************************************************************************)
EXTENDS ParamsStorage

CONSTANT ApPasswordLength   \* strlen(WIFI_AP_PASSWORD) in config.h

ASSUME WifiAssumption == "WifiMode" \in Params
ASSUME PasswordAssumption == ApPasswordLength \in Nat

VARIABLES
    at,             \* where restartWifi is; "booting" until app_main calls it
    caller,         \* the task that called it last
    mode,           \* the value of WifiMode it has read
    initialized,    \* the static flag of initialiseWifi
    radio,          \* what esp_wifi_set_mode was last called with
    fellBack        \* history: the last read failed and gave another value

wifiVars == <<at, caller, mode, initialized, radio, fellBack>>
allVars == <<vars, wifiVars>>

WifiOff == /\ at' = "booting"
           /\ caller' = "app_main"
           /\ mode' = 1
           /\ initialized' = FALSE
           /\ radio' = "off"
           /\ fellBack' = FALSE

WifiInit == /\ Init
            /\ at = "booting" /\ caller = "app_main" /\ mode = 1
            /\ initialized = FALSE /\ radio = "off" /\ fellBack = FALSE

WifiIs(setting) ==
    IF setting = NotSet THEN DefaultValue["WifiMode"] ELSE setting

-----------------------------------------------------------------------------
(* restartWifi.                                                            *)

GetWifiMode ==
    /\ at = "read"
    /\ mode' \in GetPreParameter("WifiMode")
    /\ fellBack' = (mode' # WifiIs(visible["WifiMode"]))
    /\ at' = "initialise"
    /\ UNCHANGED <<vars, caller, initialized, radio>>

InitialiseWifi ==
    /\ at = "initialise"
    /\ radio' = IF initialized THEN radio ELSE "null"
    /\ initialized' = TRUE
    /\ at' = IF mode = 1 THEN "access point" ELSE "client"
    /\ UNCHANGED <<vars, caller, mode, fellBack>>

(* A password of 1 to 7 characters is refused, and the radio left as it is. *)
StartAsAccessPoint ==
    /\ at = "access point"
    /\ IF ApPasswordLength \in 1..7
         THEN at' = "done" /\ UNCHANGED radio
         ELSE at' = "config" /\ radio' = "access point"
    /\ UNCHANGED <<vars, caller, mode, initialized, fellBack>>

StartAsClientMode ==
    /\ at = "client"
    /\ radio' = "client"
    /\ at' = "config"
    /\ UNCHANGED <<vars, caller, mode, initialized, fellBack>>

(* esp_wifi_set_config, and esp_wifi_connect for a client.                  *)
SetConfig ==
    /\ at = "config"
    /\ at' = "done"
    /\ UNCHANGED <<vars, caller, mode, initialized, radio, fellBack>>

-----------------------------------------------------------------------------
(* Its callers.                                                            *)

AppMain == /\ Boot
           /\ at' = "read"
           /\ UNCHANGED <<caller, mode, initialized, radio, fellBack>>

(* The other tasks are created after the first restartWifi.                *)
TasksRun == at = "done" \/ caller = "dispatcher"
DispatcherFree == at = "done"

(* Mutant: the wifi is restarted only after a Set without error.           *)
AckAndRestart_ifOk ==
    /\ SendAck
    /\ IF req.param = "WifiMode" /\ req.ok
         THEN at' = "read" /\ caller' = "dispatcher"
         ELSE UNCHANGED <<at, caller>>
    /\ UNCHANGED <<mode, initialized, radio, fellBack>>

(* The answer is queued before the wifi its client came by is restarted.   *)
AckAndRestart ==
    /\ SendAck
    /\ IF req.param = "WifiMode"
         THEN at' = "read" /\ caller' = "dispatcher"
         ELSE UNCHANGED <<at, caller>>
    /\ UNCHANGED <<mode, initialized, radio, fellBack>>

Restart == GetWifiMode \/ InitialiseWifi \/ StartAsAccessPoint
           \/ StartAsClientMode \/ SetConfig

Storage == \/ \E p \in Params, v \in Values : SetPreParameter(p, v)
           \/ OpenStorage
           \/ NvsSet
           \/ NvsCommit

ModeReads == ReadDecrease \/ ReadFinish \/ NextRound

WifiNext == \/ AppMain
            \/ (Crash \/ Reflash) /\ WifiOff
            \/ DispatcherFree /\ Storage /\ UNCHANGED wifiVars
            \/ AckAndRestart
            \/ TasksRun /\ ModeReads /\ UNCHANGED wifiVars
            \/ Restart

WifiSpec == WifiInit /\ [][WifiNext]_allVars

-----------------------------------------------------------------------------
(* Properties.                                                             *)

(* Every variable keeps its type, and WifiMode is read as 0 or 1.          *)
WifiTypeOK ==
    /\ at \in {"booting", "read", "initialise", "access point", "client",
               "config", "done"}
    /\ caller \in {"app_main", "dispatcher"}
    /\ mode \in {0, 1}
    /\ initialized \in BOOLEAN
    /\ radio \in {"off", "null", "access point", "client"}
    /\ fellBack \in BOOLEAN

RadioFor(setting) == IF setting = 1 THEN "access point" ELSE "client"

(* A client that a switch of the wifi cuts off before it reads its answer  *)
(* (jsonClient.c 82-84) finds the device in the mode that the storage       *)
(* shows, whatever came of the write and of its commit, and so does a      *)
(* client after any reset: unless the read failed or the access point's     *)
(* password is too short.                                                   *)
WifiFollowsStorage ==
    /\ at = "done" /\ ~fellBack /\ ApPasswordLength \notin 1..7
    /\ ~(req.param = "WifiMode" /\ req.at \in {"commit", "answer"})
    => radio = RadioFor(WifiIs(visible["WifiMode"]))
====
