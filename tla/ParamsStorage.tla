---- MODULE ParamsStorage ----
(***************************************************************************)
(* src/src/paramsStorage.c: the still's settings in the ESP32's            *)
(* non-volatile storage (NVS), written by the dispatcher on a client's     *)
(* request (jsonClient.c 78-84) and read by the working modes.             *)
(*                                                                         *)
(* A value that nvs_set_i32 has stored is visible to every reader at once; *)
(* it is sure to survive a reset only after nvs_commit.                    *)
(***************************************************************************)
EXTENDS Integers

CONSTANTS
    Params,     \* the settings in use, a set of names from PreParamNames
    Values,     \* values a client asks for, in and out of range
    NotSet      \* what NVS holds for a setting never written

PreParamNames == {"WifiMode", "HeadPickingSpeed", "BodyPickingSpeed",
                  "FinishTemperature", "ValvePickingSpeed",
                  "HimselfWorkingTime", "ValvePeriod", "DeltaTemperature",
                  "DecreasePickingTemperature", "CoolingActivationTemperature"}

ASSUME ParamsAssumption ==
    /\ Params \subseteq PreParamNames
    /\ {"DecreasePickingTemperature", "FinishTemperature"} \subseteq Params
ASSUME ValuesAssumption == Values \subseteq Nat
ASSUME NotSetAssumption == NotSet \notin Nat

(* getRangeForPreParameter *)
PreParameterRange ==
    [WifiMode                     |-> 0..1,
     HeadPickingSpeed             |-> 0..100,
     BodyPickingSpeed             |-> 0..100,
     FinishTemperature            |-> 85..100,
     ValvePickingSpeed            |-> 100..10000,
     HimselfWorkingTime           |-> 1..180,
     ValvePeriod                  |-> 1000..20000,
     DeltaTemperature             |-> 1..20,
     DecreasePickingTemperature   |-> 75..85,
     CoolingActivationTemperature |-> 60..75]

(* getDefaultValueForPreParameter *)
DefaultValue ==
    [WifiMode                     |-> 1,
     HeadPickingSpeed             |-> 10,
     BodyPickingSpeed             |-> 50,
     FinishTemperature            |-> 93,
     ValvePickingSpeed            |-> 2000,
     HimselfWorkingTime           |-> 30,
     ValvePeriod                  |-> 8000,
     DeltaTemperature             |-> 3,
     DecreasePickingTemperature   |-> 85,
     CoolingActivationTemperature |-> 73]

VARIABLES
    visible,    \* what nvs_get_i32 finds
    durable,    \* what is sure to be found after a reset
    nvs,        \* "good", or "truncated": nvs_flash_init has no free pages
    sys,        \* "booting" until app_main has read WifiMode, then "up"
    req,        \* the dispatcher's call of setPreParameter
    pair,       \* a working mode's reads of lines 97-98 of operationModes.c
    acked       \* history: the last value acknowledged and not superseded

vars == <<visible, durable, nvs, sys, req, pair, acked>>

Decrease == "DecreasePickingTemperature"
Finish == "FinishTemperature"
Nothing == [p \in Params |-> NotSet]
NoReq == [param |-> Finish, value |-> 0, at |-> "idle", ok |-> FALSE]
NoPair == [at |-> "start", decrease |-> 0, finish |-> 0]

Init == /\ visible = Nothing
        /\ durable = Nothing
        /\ nvs \in {"good", "truncated"}
        /\ sys = "booting"
        /\ req = NoReq
        /\ pair = NoPair
        /\ acked = Nothing

(* Mutant: a failed read leaves the 0 that value was initialised with.     *)
GetPreParameter_zero(p) ==
    {IF visible[p] = NotSet THEN 0 ELSE visible[p], 0}

(* getPreParameter gives the default for a value never written and, without *)
(* telling its caller, for one it fails to read.                           *)
GetPreParameter(p) ==
    {IF visible[p] = NotSet THEN DefaultValue[p] ELSE visible[p],
     DefaultValue[p]}

-----------------------------------------------------------------------------
(* A reset: power loss, panic, or ESP_ERROR_CHECK failing in initStorage   *)
(* (lines 49 and 52). What was not committed may have reached the flash.   *)
Reset == /\ \E flashed \in SUBSET Params :
               visible' = [p \in Params |-> IF p \in flashed THEN visible[p]
                                                             ELSE durable[p]]
         /\ durable' = visible'
         /\ sys' = "booting"
         /\ req' = NoReq
         /\ pair' = NoPair
         /\ UNCHANGED acked

Crash == Reset /\ UNCHANGED nvs

(* New firmware comes with another partition table.                        *)
Reflash == Reset /\ nvs' = "truncated"

(* app_main's restartWifi is the first to call initStorage, before any     *)
(* other task exists: a truncated partition is erased here.                *)
Boot == /\ sys = "booting"
        /\ sys' = "up"
        /\ IF nvs = "truncated"
             THEN /\ visible' = Nothing
                  /\ durable' = Nothing
                  /\ acked' = Nothing
             ELSE UNCHANGED <<visible, durable, acked>>
        /\ nvs' = "good"
        /\ UNCHANGED <<req, pair>>

-----------------------------------------------------------------------------
(* The dispatcher's setPreParameter.                                       *)

Answer(ok) == req' = [req EXCEPT !.at = "answer", !.ok = ok]

(* A value out of range is refused before the storage is touched.          *)
SetPreParameter(p, v) ==
    /\ sys = "up"
    /\ req.at = "idle"
    /\ req' = [param |-> p, value |-> v, ok |-> FALSE,
               at |-> IF v \in PreParameterRange[p] THEN "open" ELSE "answer"]
    /\ UNCHANGED <<visible, durable, nvs, sys, pair, acked>>

OpenStorage ==
    /\ req.at = "open"
    /\ \/ req' = [req EXCEPT !.at = "set"]
       \/ Answer(FALSE)
    /\ UNCHANGED <<visible, durable, nvs, sys, pair, acked>>

NvsSet ==
    /\ req.at = "set"
    /\ \/ /\ visible' = [visible EXCEPT ![req.param] = req.value]
          /\ acked' = [acked EXCEPT ![req.param] = NotSet]
          /\ req' = [req EXCEPT !.at = "commit"]
       \/ /\ Answer(FALSE)
          /\ UNCHANGED <<visible, acked>>
    /\ UNCHANGED <<durable, nvs, sys, pair>>

(* Mutant: the result of nvs_set_i32 is returned without a commit.         *)
NvsCommit_skipped ==
    /\ req.at = "commit"
    /\ Answer(TRUE)
    /\ UNCHANGED <<visible, durable, nvs, sys, pair, acked>>

NvsCommit ==
    /\ req.at = "commit"
    /\ \/ /\ durable' = [durable EXCEPT ![req.param] = visible[req.param]]
          /\ Answer(TRUE)
       \/ /\ Answer(FALSE)
          /\ UNCHANGED durable
    /\ UNCHANGED <<visible, nvs, sys, pair, acked>>

(* handleClientMessage, sendAckToClient(err) *)
SendAck ==
    /\ req.at = "answer"
    /\ acked' = IF req.ok THEN [acked EXCEPT ![req.param] = req.value]
                          ELSE acked
    /\ req' = NoReq
    /\ UNCHANGED <<visible, durable, nvs, sys, pair>>

-----------------------------------------------------------------------------
(* A working mode reads the two ends of its temperature band one after the *)
(* other; the dispatcher may store either in between, or delete the mode.  *)

ReadDecrease ==
    /\ sys = "up"
    /\ pair.at = "start"
    /\ \E value \in GetPreParameter(Decrease) :
          pair' = [pair EXCEPT !.decrease = value, !.at = "decrease"]
    /\ UNCHANGED <<visible, durable, nvs, sys, req, acked>>

ReadFinish ==
    /\ pair.at = "decrease"
    /\ \E value \in GetPreParameter(Finish) :
          pair' = [pair EXCEPT !.finish = value, !.at = "both"]
    /\ UNCHANGED <<visible, durable, nvs, sys, req, acked>>

NextRound ==
    /\ pair.at # "start"
    /\ pair' = NoPair
    /\ UNCHANGED <<visible, durable, nvs, sys, req, acked>>

Next == \/ Boot
        \/ Crash
        \/ Reflash
        \/ \E p \in Params, v \in Values : SetPreParameter(p, v)
        \/ OpenStorage
        \/ NvsSet
        \/ NvsCommit
        \/ SendAck
        \/ ReadDecrease
        \/ ReadFinish
        \/ NextRound

Spec == Init /\ [][Next]_vars

-----------------------------------------------------------------------------
(* Properties.                                                             *)

(* Every variable keeps its type, and every stored value, acknowledged or  *)
(* not, committed or not, is in the range of its setting.                  *)
TypeOK ==
    /\ \A p \in Params :
          /\ visible[p] \in PreParameterRange[p] \cup {NotSet}
          /\ durable[p] \in PreParameterRange[p] \cup {NotSet}
          /\ acked[p] \in PreParameterRange[p] \cup {NotSet}
    /\ visible \in [Params -> Nat \cup {NotSet}]
    /\ durable \in [Params -> Nat \cup {NotSet}]
    /\ acked \in [Params -> Nat \cup {NotSet}]
    /\ nvs \in {"good", "truncated"}
    /\ sys \in {"booting", "up"}
    /\ req \in [param : Params, value : Nat, ok : BOOLEAN,
                at : {"idle", "open", "set", "commit", "answer"}]
    /\ pair \in [at : {"start", "decrease", "both"}, decrease : Nat,
                 finish : Nat]

(* The unsigned difference finish_temp - decrease_temp that a mode forms   *)
(* (operationModes.c 110) never wraps: although the two settings are read  *)
(* apart and either read may fall back on its default, the lower end is    *)
(* never above the upper one.                                              *)
BandIsNotNegative == pair.at = "both" => pair.decrease <= pair.finish

(* A value whose setting was answered with "no error" is what readers see  *)
(* and what a reset finds, until a later write of the same setting or the  *)
(* erasure of a truncated partition (paramsStorage.c 46-51, 209-214).      *)
AckedIsDurable ==
    \A p \in Params :
        acked[p] # NotSet => visible[p] = acked[p] /\ durable[p] = acked[p]
====
