---- MODULE StillControl ----
(***************************************************************************)
(* The still under control: the dispatcher that deletes and creates the    *)
(* working mode (src/src/dispatcher.c), the six working modes              *)
(* (src/src/operationModes.c), the settings they read, the temperatures    *)
(* they read under temperatureMutex (src/src/temperatureChecker.c) and the *)
(* valve task, composed with the actions of ValveController.               *)
(*                                                                         *)
(* Temperatures are in tenths of a degree, settings in the units of        *)
(* paramsStorage.h.  Messages and sounds are sent without waiting and      *)
(* steer nothing here: they are left to other modules.                     *)
(***************************************************************************)
EXTENDS ValveController

CONSTANTS
    Modes,          \* the working modes a client asks for
    SettingValues,  \* for each setting, the values a client gives it
    CubeTemps,      \* temperatures of the cube
    ColumnTemps     \* temperatures of the column

ModeNames == {"testOfHardware", "boostMode", "selfEmployment", "pickingHeads",
              "pickingBodyByCubeTemperature", "pickingBodyByColumnTemperature"}
Settings == {"HeadPickingSpeed", "BodyPickingSpeed", "FinishTemperature",
             "ValvePeriod", "DecreasePickingTemperature"}
BodyModes == {"pickingBodyByCubeTemperature", "pickingBodyByColumnTemperature"}

ASSUME ModesAssumption == Modes \subseteq ModeNames
ASSUME SettingsAssumption ==
    SettingValues \in [Settings -> SUBSET Nat]
ASSUME TempsAssumption == CubeTemps \subseteq Int /\ ColumnTemps \subseteq Int

(* getDefaultValueForPreParameter, for the settings the modes read.        *)
DefaultSetting == [HeadPickingSpeed |-> 10, BodyPickingSpeed |-> 50,
                   FinishTemperature |-> 93, ValvePeriod |-> 8000,
                   DecreasePickingTemperature |-> 85]

(* What a setting may be. The ranges of the two ends of the band meet in   *)
(* 85 (paramsStorage.c 95-97, 115-117).                                    *)
ValuesOf(p) == SettingValues[p] \cup {DefaultSetting[p]}
ASSUME BandAssumption ==
    \A d \in ValuesOf("DecreasePickingTemperature"),
       f \in ValuesOf("FinishTemperature") : d <= f

VARIABLES
    next,       \* the mode changeWorkingMode has still to create, or "none"
    which,      \* the function the working mode's task runs
    mpc,        \* the statement it is at
    loc,        \* its locals
    setting,    \* the settings stored
    temp,       \* the temperatures last published
    tlock,      \* temperatureMutex: "free", "mode" or "deleted"
    late        \* history: openings by the present mode after its end

modeVars == <<which, mpc, loc>>
envVars == <<setting, temp>>
stillVars == <<next, modeVars, envVars, tlock, late>>
allVars == <<vars, stillVars>>

NoTemps == [cube |-> 0, column |-> 0]
NoLocals == [decrease |-> 0, finish |-> 0, duty |-> 0, period |-> 0,
             stable |-> 0, info |-> NoTemps]
LateBound == 3      \* where the history variable late stops counting

StillInit == /\ Init
             /\ next = "none"
             /\ which = "boostMode"
             /\ mpc = "start"
             /\ loc = NoLocals
             /\ setting = DefaultSetting
             /\ temp = NoTemps
             /\ tlock = "free"
             /\ late = 0

(* A read of a setting gives what is stored, or its default when it fails. *)
GetSetting(p) == {setting[p], DefaultSetting[p]}

-----------------------------------------------------------------------------
(* Statements of the modes.                                                *)

At(m, here) == /\ mode = "running"
               /\ which = m
               /\ mpc = here
               /\ call.at = "out"

Goto(there) == mpc' = there /\ UNCHANGED which

Read(m, here, field, p, there) ==
    /\ At(m, here)
    /\ \E value \in GetSetting(p) : loc' = [loc EXCEPT ![field] = value]
    /\ Goto(there)
    /\ UNCHANGED <<vars, next, envVars, tlock, late>>

(* getTemperatures: the copy is made under the mutex, and the task may be  *)
(* deleted while it holds it.                                              *)
TakeTemps(m, here, there) ==
    /\ At(m, here)
    /\ tlock = "free"
    /\ tlock' = "mode"
    /\ Goto(there)
    /\ UNCHANGED <<vars, next, loc, envVars, late>>

CopyTemps(m, here, there) ==
    /\ At(m, here)
    /\ loc' = [loc EXCEPT !.info = temp]
    /\ tlock' = "free"
    /\ Goto(there)
    /\ UNCHANGED <<vars, next, envVars, late>>

SetPeriod(m, here, ms, there) ==
    /\ At(m, here)
    /\ SetValvePeriodMillisec(ms)
    /\ Goto(there)
    /\ UNCHANGED <<next, loc, envVars, tlock, late>>

(* setValvePWM refuses a duty above 100 and the modes ignore the refusal.  *)
SetPwm(m, here, percents, there) ==
    /\ At(m, here)
    /\ IF percents <= 100 THEN SetValvePWM(percents) ELSE UNCHANGED vars
    /\ Goto(there)
    /\ UNCHANGED <<next, loc, envVars, tlock, late>>

(* Mutant: the temperatures are read but the mutex is not given back.      *)
Status_keepsMutex(m, here, there) ==
    \/ TakeTemps(m, here, "status")
    \/ /\ At(m, "status")
       /\ Goto(there)
       /\ loc' = [NoLocals EXCEPT !.stable = loc.stable]
       /\ UNCHANGED <<vars, next, envVars, tlock, late>>

(* sendStatusToClient, whose only lasting effect here is the mutex it      *)
(* takes, then the delay that ends an iteration and its locals.            *)
Status(m, here, there) ==
    \/ TakeTemps(m, here, "status")
    \/ /\ At(m, "status")
       /\ tlock' = "free"
       /\ Goto(there)
       /\ loc' = [NoLocals EXCEPT !.stable = loc.stable]
       /\ UNCHANGED <<vars, next, envVars, late>>

Suspend(m, here) ==
    /\ At(m, here)
    /\ SuspendMode
    /\ UNCHANGED stillVars

-----------------------------------------------------------------------------
(* The six modes.                                                          *)

TestPeriod == 100

TestOfHardware ==
    LET m == "testOfHardware"
    IN  \/ Status(m, "start", "setPeriod")
        \/ SetPeriod(m, "setPeriod", TestPeriod, "setPwm")
        \/ SetPwm(m, "setPwm", 100, "end")
        \/ Suspend(m, "end")

(* It beeps once and feeds nothing.                                        *)
BoostMode ==
    LET m == "boostMode"
    IN  \/ TakeTemps(m, "start", "info")
        \/ CopyTemps(m, "info", "loop")
        \/ Status(m, "loop", "start")

(* When its time is up it beeps and suspends itself.                       *)
SelfEmployment ==
    LET m == "selfEmployment"
    IN  \/ Suspend(m, "start")
        \/ Status(m, "start", "start")

(* Mutant: the speed and the period are set once, as in testOfHardware.    *)
PickingHeads_once ==
    LET m == "pickingHeads"
    IN  \/ Read(m, "start", "duty", "HeadPickingSpeed", "period")
        \/ Read(m, "period", "period", "ValvePeriod", "setPeriod")
        \/ SetPeriod(m, "setPeriod", loc.period, "setPwm")
        \/ SetPwm(m, "setPwm", loc.duty, "send")
        \/ Status(m, "send", "send")

PickingHeads ==
    LET m == "pickingHeads"
    IN  \/ Read(m, "start", "duty", "HeadPickingSpeed", "period")
        \/ Read(m, "period", "period", "ValvePeriod", "setPeriod")
        \/ SetPeriod(m, "setPeriod", loc.period, "setPwm")
        \/ SetPwm(m, "setPwm", loc.duty, "send")
        \/ Status(m, "send", "start")

(* uint32_t overstatement = decrease_temp - info.cubeTemperature: the      *)
(* float is truncated towards zero; at or below -1 the result is undefined. *)
Overstatement(decrease, cube) ==
    UintOfFloat(-((cube - 10 * decrease) \div 10))

(* Lines 107-113: the duties a cube temperature not above the finish leads *)
(* to. All the arithmetic is on unsigned integers.                         *)
CubeDuties(decrease, finish, base, cube) ==
    LET delta == finish - decrease
    IN  IF cube < 10 * decrease
          THEN {base}
          ELSE {((((delta - over) % UintMod) \div delta) * base) % UintMod :
                    over \in Overstatement(decrease, cube)}

Finished == loc.info.cube > 10 * loc.finish

(* An unsigned division by zero raises an exception on the ESP32.          *)
DividesByZero == /\ ~Finished
                 /\ loc.info.cube >= 10 * loc.decrease
                 /\ loc.finish = loc.decrease

(* Mutant: the finish is not looked at.                                    *)
DecideByCube_noFinish(m) ==
    /\ At(m, "decide")
    /\ loc.finish # loc.decrease
    /\ \E pwm \in CubeDuties(loc.decrease, loc.finish, loc.duty, loc.info.cube) :
          loc' = [loc EXCEPT !.duty = pwm]
    /\ Goto("setPwm")
    /\ UNCHANGED <<vars, next, envVars, tlock, late>>

DecideByCube(m) ==
    \/ /\ Finished
       /\ Suspend(m, "decide")
    \/ /\ At(m, "decide")
       /\ ~Finished
       /\ ~DividesByZero
       /\ \E pwm \in CubeDuties(loc.decrease, loc.finish, loc.duty, loc.info.cube) :
             loc' = [loc EXCEPT !.duty = pwm]
       /\ Goto("setPwm")
       /\ UNCHANGED <<vars, next, envVars, tlock, late>>

(* A panic resets the chip: only the settings survive.                     *)
PanicOnDivision ==
    /\ At("pickingBodyByCubeTemperature", "decide")
    /\ DividesByZero
    /\ cell' = Zeros
    /\ mutex' = [l \in Lock |-> "free"]
    /\ gpio' = 0
    /\ vpc' = "check"
    /\ todo' = {}
    /\ got' = Zeros
    /\ low' = 0
    /\ mode' = "absent"
    /\ call' = NoCall
    /\ next' = "none"
    /\ mpc' = "start"
    /\ loc' = NoLocals
    /\ temp' = NoTemps
    /\ tlock' = "free"
    /\ UNCHANGED <<stale, which, setting, late>>

PickingBodyByCubeTemperature ==
    LET m == "pickingBodyByCubeTemperature"
    IN  \/ Read(m, "start", "decrease", "DecreasePickingTemperature", "finish")
        \/ Read(m, "finish", "finish", "FinishTemperature", "base")
        \/ Read(m, "base", "duty", "BodyPickingSpeed", "period")
        \/ Read(m, "period", "period", "ValvePeriod", "setPeriod")
        \/ SetPeriod(m, "setPeriod", loc.period, "temps")
        \/ TakeTemps(m, "temps", "info")
        \/ CopyTemps(m, "info", "decide")
        \/ DecideByCube(m)
        \/ SetPwm(m, "setPwm", loc.duty, "send")
        \/ Status(m, "send", "start")

(* float delta = 0.5, in tenths of a degree.                               *)
ColumnDelta == 5

(* Mutant: at the finish the mode beeps, stores no duty and goes on.       *)
DecideByColumn_goesOn(m) ==
    /\ At(m, "decide")
    /\ Goto(IF ~Finished /\ loc.info.column - loc.stable < ColumnDelta
              THEN "setPwm" ELSE "send")
    /\ UNCHANGED <<vars, next, loc, envVars, tlock, late>>

DecideByColumn(m) ==
    \/ /\ Finished
       /\ Suspend(m, "decide")
    \/ /\ At(m, "decide")
       /\ ~Finished
       /\ Goto(IF loc.info.column - loc.stable < ColumnDelta THEN "setPwm"
                                                             ELSE "send")
       /\ UNCHANGED <<vars, next, loc, envVars, tlock, late>>

PickingBodyByColumnTemperature ==
    LET m == "pickingBodyByColumnTemperature"
    IN  \/ TakeTemps(m, "start", "stable")
        \/ /\ At(m, "stable")
           /\ loc' = [loc EXCEPT !.stable = temp.column]
           /\ tlock' = "free"
           /\ Goto("finish")
           /\ UNCHANGED <<vars, next, envVars, late>>
        \/ Read(m, "finish", "finish", "FinishTemperature", "base")
        \/ Read(m, "base", "duty", "BodyPickingSpeed", "period")
        \/ Read(m, "period", "period", "ValvePeriod", "setPeriod")
        \/ SetPeriod(m, "setPeriod", loc.period, "temps")
        \/ TakeTemps(m, "temps", "info")
        \/ CopyTemps(m, "info", "decide")
        \/ DecideByColumn(m)
        \/ SetPwm(m, "setPwm", loc.duty, "send")
        \/ Status(m, "send", "finish")

(* The rest of a setter the mode has entered.                              *)
InSetter == /\ TakeMutex \/ StoreValue \/ GiveMutex
            /\ UNCHANGED stillVars

ModeProgram == \/ TestOfHardware
               \/ BoostMode
               \/ SelfEmployment
               \/ PickingHeads
               \/ PickingBodyByCubeTemperature
               \/ PickingBodyByColumnTemperature
               \/ PanicOnDivision
               \/ InSetter

-----------------------------------------------------------------------------
(* The dispatcher's changeWorkingMode, the client's settings, the probes.  *)

(* stopWorkingTask: the handle is NULL exactly when there is no mode.      *)
StopWorkingTask(m) ==
    /\ next = "none"
    /\ next' = m
    /\ IF mode # "absent" THEN DeleteMode ELSE UNCHANGED vars
    /\ tlock' = IF tlock = "mode" THEN "deleted" ELSE tlock
    /\ late' = 0
    /\ UNCHANGED <<modeVars, envVars>>

(* xTaskCreate, whose failure is not looked at.                            *)
CreateWorkingTask ==
    /\ next # "none"
    /\ next' = "none"
    /\ \/ /\ StartMode
          /\ which' = next
          /\ mpc' = "start"
          /\ loc' = NoLocals
       \/ UNCHANGED <<vars, modeVars>>
    /\ UNCHANGED <<envVars, tlock, late>>

StoreSetting(p) ==
    /\ \E value \in SettingValues[p] : setting' = [setting EXCEPT ![p] = value]
    /\ UNCHANGED <<vars, next, modeVars, temp, tlock, late>>

(* The cube is above every finish temperature there is.                    *)
Hot == \A f \in ValuesOf("FinishTemperature") : temp.cube > 10 * f

(* setTemperature, one probe at a time, under the same mutex.              *)
PublishTemperature ==
    /\ tlock = "free"
    /\ \/ \E t \in CubeTemps : temp' = [temp EXCEPT !.cube = t]
       \/ \E t \in ColumnTemps : temp' = [temp EXCEPT !.column = t]
    /\ late' = IF Hot' THEN late ELSE 0
    /\ UNCHANGED <<vars, next, modeVars, setting, tlock>>

Valve == /\ ValveStep
         /\ late' = IF /\ vpc = "open"
                       /\ Hot
                       /\ mode # "absent"
                       /\ which \in BodyModes
                       /\ late < LateBound
                      THEN late + 1 ELSE late
         /\ UNCHANGED <<next, modeVars, envVars, tlock>>

StillNext == \/ Valve
             \/ ModeProgram
             \/ \E m \in Modes : StopWorkingTask(m)
             \/ CreateWorkingTask
             \/ \E p \in Settings : StoreSetting(p)
             \/ PublishTemperature

(* The valve task has the higher priority and the mode sleeps between its  *)
(* rounds; a working mode that is not blocked runs on, and the dispatcher  *)
(* does not stop between deleting a mode and creating the next.            *)
StillFairness == /\ SF_allVars(Valve)
                 /\ WF_allVars(ModeProgram)
                 /\ WF_allVars(CreateWorkingTask)

StillSpec == StillInit /\ [][StillNext]_allVars /\ StillFairness

-----------------------------------------------------------------------------
(* Properties.                                                             *)

MpcStates == {"start", "setPeriod", "setPwm", "end", "info", "loop", "period",
              "send", "status", "finish", "base", "temps", "decide", "stable"}
TempsType == [cube : Int, column : Int]

(* Every variable of the composition keeps its type.                       *)
StillTypeOK ==
    /\ TypeOK
    /\ next \in Modes \cup {"none"}
    /\ which \in ModeNames
    /\ mpc \in MpcStates
    /\ loc \in [decrease : Nat, finish : Nat, duty : Nat, period : Nat,
                stable : Int, info : TempsType]
    /\ setting \in [Settings -> Nat]
    /\ temp \in TempsType
    /\ tlock \in {"free", "mode", "deleted"}
    /\ late \in 0..LateBound

(* The mode holds temperatureMutex exactly between the take and the give   *)
(* of getTemperatures (temperatureChecker.c 49-56): a mode that suspends   *)
(* itself or goes on to a setter never does so with the mutex held.        *)
TemperatureMutexOwnership ==
    /\ StillTypeOK
    /\ tlock = "mode" <=> /\ mode = "running"
                          /\ mpc \in {"info", "status", "stable"}

(* When the cube is, and stays, above every finish temperature, the body   *)
(* mode that is running opens the valve at most twice more: for the duty   *)
(* already stored and for the one decided on the temperature before        *)
(* (operationModes.c 103-114 and 130-135, valveController.c 82).           *)
AtMostTwoPulsesAfterFinish == late <= 2

NoOrphan == ~Orphan /\ tlock # "deleted"

(* A body run in a cube that stays too hot ends: the mode suspends itself  *)
(* and the valve stays closed (operationModes.c 104-106, 131-133), unless  *)
(* a deleted mode has left one of the mutexes taken.                       *)
FinishIsNoticed ==
    []NoOrphan /\ <>[](Hot /\ which \in BodyModes /\ mode # "absent")
        => <>[](mode = "suspended" /\ gpio = 0)

(* As long as heads are picked at a speed above 0 the valve opens again    *)
(* and again: a duty that a cycle's reset wiped out (valveController.c 82) *)
(* is stored anew by the next round of the mode (operationModes.c 83-91).  *)
HeadsAreFed ==
    []NoOrphan /\ <>[](/\ mode = "running"
                       /\ which = "pickingHeads"
                       /\ setting["HeadPickingSpeed"] # 0)
        => []<>(gpio = 1)

(* The two delays of a cycle add up to a period that was set: "valve       *)
(* actuation period in ms" (paramsStorage.h 37), or the test's 100 ms.     *)
CycleIsASetPeriod ==
    vpc = "open" => High + low \in ValuesOf("ValvePeriod") \cup {TestPeriod}

(* The duty picked by the cube temperature is reduced once the cube is a   *)
(* degree or more above the temperature of decrease: "auto-reduction"      *)
(* (operationModes.c 112).                                                 *)
DutyIsReduced ==
    At("pickingBodyByCubeTemperature", "decide") /\ ~Finished /\ ~DividesByZero
    /\ loc.duty > 0 /\ loc.info.cube >= 10 * (loc.decrease + 1)
        => \A pwm \in CubeDuties(loc.decrease, loc.finish, loc.duty, loc.info.cube) :
              pwm < loc.duty
====
