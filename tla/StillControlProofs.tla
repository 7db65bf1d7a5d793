---- MODULE StillControlProofs ----
(***************************************************************************)
(* First theorems about ValveController for any set of duties and periods  *)
(* the modes may pass and any width of unsigned int: its type invariant,   *)
(* the ownership of the mutexes, the bound on what a stopped mode leaves   *)
(* behind, the bound on a pulse, and that every step of the controller is  *)
(* a step of ValvePromise or a stutter. Then theorems about StillControl   *)
(* for any modes, settings and temperatures: what was shown of the valve   *)
(* alone holds with the six modes, the dispatcher and the probes; the      *)
(* mutex of the temperatures is held only inside getTemperatures; and a    *)
(* body mode in a hot cube opens the valve at most twice more.             *)
(***************************************************************************)
EXTENDS StillControl, TLAPS

-----------------------------------------------------------------------------
(* The valve controller with any mode.                                     *)

(* Converting a duration to uint32_t gives a natural number.               *)
LEMMA UintOfFloatType ==
    ASSUME NEW x \in Int
    PROVE  UintOfFloat(x) \subseteq Nat
<1>1. CASE x >= 0
  BY <1>1 DEF UintOfFloat
<1>2. CASE ~(x >= 0)
  <2>1. x % UintMod \in Nat
    BY UintModAssumption
  <2>2. UintMod \div 2 \in Nat
    BY UintModAssumption
  <2> QED
    BY <1>2, <2>1, <2>2 DEF UintOfFloat
<1> QED
  BY <1>1, <1>2

(* The high part of a cycle is a natural number.                           *)
LEMMA HighType ==
    ASSUME got \in [Lock -> Nat]
    PROVE  High \in Nat
<1>1. got["period"] \in Nat /\ got["pwm"] \in Nat
  BY DEF Lock
<1> DEFINE p == got["period"] * got["pwm"]
<1>2. p \in Nat
  BY <1>1
<1> HIDE DEF p
<1>3. p % UintMod \in Nat
  BY <1>2, UintModAssumption
<1>4. (p % UintMod) \div 100 \in Nat
  BY <1>3
<1> QED
  BY <1>4 DEF High, p

(* A step of the controller whatever the mode passes to the setters.       *)
SetterCall == \/ \E value \in Nat : SetValvePWM(value) \/ SetValvePeriodMillisec(value)
              \/ TakeMutex \/ StoreValue \/ GiveMutex
AnyStep == ValveStep \/ SetterCall \/ StartMode \/ SuspendMode \/ DeleteMode

LEMMA NextIsAnyStep == [Next]_vars => [AnyStep]_vars
  BY PercentsAssumption, PeriodsAssumption DEF Next, ModeStep, AnyStep, SetterCall

(* TypeOK is inductive: every step of the valve task, of a setter and of   *)
(* the mode's life (valveController.c, dispatcher.c 39-45) keeps the types. *)
LEMMA TypeStep == ASSUME TypeOK, [AnyStep]_vars PROVE TypeOK'
<1> USE DEF TypeOK, Lock, VpcStates
<1>1. CASE CheckPwm
  BY <1>1 DEF CheckPwm
<1>2. ASSUME NEW l \in Lock, GetDuty(l)
      PROVE  TypeOK'
  BY <1>2 DEF GetDuty
<1>3. CASE GetLow
  <2>1. cell["period"] - High \in Int
    BY HighType
  <2>2. low' \in Nat
    BY <1>3, <2>1, UintOfFloatType DEF GetLow
  <2> QED
    BY <1>3, <2>2 DEF GetLow
<1>4. CASE OpenValve
  BY <1>4 DEF OpenValve, StaleBound
<1>5. CASE CloseValve
  BY <1>5 DEF CloseValve
<1>6. CASE ResetPwm
  BY <1>6 DEF ResetPwm, Zeros
<1>7. ASSUME NEW pct \in Nat, SetValvePWM(pct)
      PROVE  TypeOK'
  BY <1>7 DEF SetValvePWM, BeginSet, valveVars
<1>8. ASSUME NEW ms \in Nat, SetValvePeriodMillisec(ms)
      PROVE  TypeOK'
  BY <1>8 DEF SetValvePeriodMillisec, BeginSet, valveVars
<1>9. CASE TakeMutex
  BY <1>9 DEF TakeMutex, valveVars
<1>10. CASE StoreValue
  BY <1>10 DEF StoreValue, valveVars
<1>11. CASE GiveMutex
  BY <1>11 DEF GiveMutex, NoCall, valveVars
<1>12. CASE StartMode
  BY <1>12 DEF StartMode, valveVars
<1>13. CASE SuspendMode
  BY <1>13 DEF SuspendMode, valveVars
<1>14. CASE DeleteMode
  BY <1>14 DEF DeleteMode, NoCall, valveVars
<1>15. CASE UNCHANGED vars
  BY <1>15 DEF vars, valveVars
<1> QED
  BY <1>1, <1>2, <1>3, <1>4, <1>5, <1>6, <1>7, <1>8, <1>9, <1>10, <1>11,
     <1>12, <1>13, <1>14, <1>15 DEF AnyStep, ValveStep, SetterCall

(* Every variable of the controller keeps its type.                        *)
THEOREM TypeCorrect == SafetySpec => []TypeOK
<1>1. Init => TypeOK
  BY DEF Init, TypeOK, Zeros, Lock, NoCall, VpcStates
<1> QED
  BY <1>1, TypeStep, NextIsAnyStep, PTL DEF SafetySpec

-----------------------------------------------------------------------------
(* The inductive invariant. A setter is entered only by a running mode and *)
(* with a duty in range, and nothing has opened since a mode that still    *)
(* runs was started: with these, the listed invariants carry themselves.   *)

DutyInRange == /\ cell["pwm"] <= 100
               /\ got["pwm"] <= 100
               /\ call.lock = "pwm" => call.arg <= 100

CallerRuns == call.at # "out" => mode = "running"

PinFollowsTask == gpio = 1 <=> vpc = "opened"

NothingStaleWhileRunning == mode = "running" => stale = 0

IndInv == /\ DutyInRange
          /\ CallerRuns
          /\ MutexOwnership
          /\ PinFollowsTask
          /\ NothingStaleWhileRunning
          /\ AtMostOnePulseAfterStop

LEMMA InitEstablishes == Init => IndInv
  BY DEF Init, IndInv, DutyInRange, CallerRuns, MutexOwnership, PinFollowsTask,
         NothingStaleWhileRunning, AtMostOnePulseAfterStop, Armed, Zeros,
         NoCall, Lock

(* The valve task's steps: none touches a setter, a mutex or the mode, and *)
(* an opening uses up what armed it.                                       *)
LEMMA ValveStepPreserves ==
    ASSUME TypeOK, IndInv, ValveStep
    PROVE  IndInv'
<1> USE DEF TypeOK, IndInv, DutyInRange, CallerRuns, MutexOwnership,
            PinFollowsTask, NothingStaleWhileRunning,
            AtMostOnePulseAfterStop, Armed, Lock, VpcStates
<1>1. CASE CheckPwm
  BY <1>1 DEF CheckPwm
<1>2. ASSUME NEW l \in Lock, GetDuty(l)
      PROVE  IndInv'
  <2>1. got'["pwm"] <= 100
    BY <1>2 DEF GetDuty
  <2> QED
    BY <1>2, <2>1 DEF GetDuty
<1>3. CASE GetLow
  BY <1>3 DEF GetLow
<1>4. CASE OpenValve
  BY <1>4 DEF OpenValve, StaleBound
<1>5. CASE CloseValve
  BY <1>5 DEF CloseValve
<1>6. CASE ResetPwm
  BY <1>6 DEF ResetPwm, Zeros
<1> QED
  BY <1>1, <1>2, <1>3, <1>4, <1>5, <1>6 DEF ValveStep

(* The setters: the range check keeps the duty in range, and the mutex is  *)
(* taken and given back by the call that owns it.                          *)
LEMMA SetterPreserves ==
    ASSUME TypeOK, IndInv, SetterCall
    PROVE  IndInv'
<1> USE DEF TypeOK, IndInv, DutyInRange, CallerRuns, MutexOwnership,
            PinFollowsTask, NothingStaleWhileRunning,
            AtMostOnePulseAfterStop, Armed, Lock, valveVars
<1>1. ASSUME NEW pct \in Nat, SetValvePWM(pct)
      PROVE  IndInv'
  BY <1>1 DEF SetValvePWM, BeginSet
<1>2. ASSUME NEW ms \in Nat, SetValvePeriodMillisec(ms)
      PROVE  IndInv'
  BY <1>2 DEF SetValvePeriodMillisec, BeginSet
<1>3. CASE TakeMutex
  BY <1>3 DEF TakeMutex
<1>4. CASE StoreValue
  BY <1>4 DEF StoreValue
<1>5. CASE GiveMutex
  BY <1>5 DEF GiveMutex, NoCall
<1> QED
  BY <1>1, <1>2, <1>3, <1>4, <1>5 DEF SetterCall

(* The mode's life: a mode is started only when no setter is in progress,  *)
(* suspends itself outside one, and a deletion takes its call with it.     *)
LEMMA LifePreserves ==
    ASSUME TypeOK, IndInv, StartMode \/ SuspendMode \/ DeleteMode
    PROVE  IndInv'
<1> USE DEF TypeOK, IndInv, DutyInRange, CallerRuns, MutexOwnership,
            PinFollowsTask, NothingStaleWhileRunning,
            AtMostOnePulseAfterStop, Armed, Lock, valveVars
<1>1. CASE StartMode
  BY <1>1 DEF StartMode
<1>2. CASE SuspendMode
  BY <1>2 DEF SuspendMode
<1>3. CASE DeleteMode
  BY <1>3 DEF DeleteMode, NoCall
<1> QED
  BY <1>1, <1>2, <1>3

LEMMA IndInvStep == ASSUME TypeOK, IndInv, [AnyStep]_vars PROVE IndInv'
<1>1. CASE UNCHANGED vars
  BY <1>1 DEF vars, valveVars, IndInv, DutyInRange, CallerRuns, MutexOwnership,
     PinFollowsTask, NothingStaleWhileRunning, AtMostOnePulseAfterStop, Armed
<1> QED
  BY <1>1, ValveStepPreserves, SetterPreserves, LifePreserves DEF AnyStep

(* The inductive invariant holds of every behaviour.                       *)
THEOREM IndInvCorrect == SafetySpec => []IndInv
  BY IndInvStep, NextIsAnyStep, InitEstablishes, TypeCorrect, PTL DEF SafetySpec

(* A stopped mode leaves at most one more opening behind.                  *)
THEOREM StoppedModeLeavesOnePulse == SafetySpec => []AtMostOnePulseAfterStop
<1>1. IndInv => AtMostOnePulseAfterStop
  BY DEF IndInv
<1> QED
  BY <1>1, IndInvCorrect, PTL

(* Only a live mode inside a setter holds a mutex.                         *)
THEOREM MutexOwnershipCorrect == SafetySpec => []MutexOwnership
<1>1. IndInv => MutexOwnership
  BY DEF IndInv
<1> QED
  BY <1>1, IndInvCorrect, PTL

-----------------------------------------------------------------------------
(* A duty of at most 100 percent gives a high part of at most the period,  *)
(* also when the product wraps.                                            *)
LEMMA HighAtMostPeriod ==
    ASSUME got \in [Lock -> Nat], got["pwm"] <= 100
    PROVE  High <= got["period"]
<1> DEFINE p == got["period"]
           w == got["pwm"]
<1>1. p \in Nat /\ w \in Nat /\ w <= 100
  BY DEF Lock
<1>2. p * w <= p * 100 /\ p * w \in Nat
  <2> HIDE DEF p, w
  <2>1. p * (100 - w) >= 0
    BY <1>1
  <2>2. p * (100 - w) = p * 100 - p * w
    BY <1>1
  <2> QED
    BY <1>1, <2>1, <2>2
<1> DEFINE x == p * w
           r == x % UintMod
<1>3. r \in Nat /\ r <= x
  <2>1. x \in Nat
    BY <1>2
  <2> HIDE DEF x
  <2>2. x = UintMod * (x \div UintMod) + r
    BY <2>1, UintModAssumption
  <2>3. x \div UintMod \in Nat
    BY <2>1, UintModAssumption
  <2>4. UintMod * (x \div UintMod) \in Nat
    BY <2>3, UintModAssumption
  <2>5. r \in Nat
    BY <2>1, UintModAssumption
  <2> QED
    BY <2>1, <2>2, <2>4, <2>5
<1>4. r <= p * 100
  <2> HIDE DEF r, p
  <2> QED
    BY <1>1, <1>2, <1>3
<1>5. r \div 100 <= p
  <2> HIDE DEF r, p
  <2> QED
    BY <1>1, <1>3, <1>4
<1> QED
  BY <1>5 DEF High

LEMMA PulseBound == ASSUME TypeOK, IndInv PROVE PulseIsBounded
  BY HighAtMostPeriod DEF TypeOK, IndInv, DutyInRange, PinFollowsTask, PulseIsBounded

(* The valve is open only inside a pulse, and no longer than the period.   *)
THEOREM PulseIsBoundedCorrect == SafetySpec => []PulseIsBounded
  BY PulseBound, TypeCorrect, IndInvCorrect, PTL

-----------------------------------------------------------------------------
(* The controller implements the promise: each of its steps is a step of   *)
(* ValvePromise on the mapped state, or leaves it unchanged.               *)
THEOREM ImplementsPromise == SafetySpec => Promise!SafetySpec
<1>1. Init => Promise!Init
  BY DEF Init, Promise!Init, Armed, Zeros, Lock
<1>2. TypeOK /\ IndInv /\ [Next]_vars => [Promise!Next]_(Promise!vars)
  <2> SUFFICES ASSUME TypeOK, IndInv, [Next]_vars
               PROVE  [Promise!Next]_(Promise!vars)
    OBVIOUS
  <2> USE DEF TypeOK, IndInv, PinFollowsTask, CallerRuns, Armed, Lock,
              VpcStates, valveVars, Promise!vars, Promise!Next
  <2>1. CASE CheckPwm
    BY <2>1 DEF CheckPwm
  <2>2. ASSUME NEW l \in Lock, GetDuty(l)
        PROVE  UNCHANGED Promise!vars
    BY <2>2 DEF GetDuty
  <2>3. CASE GetLow
    BY <2>3 DEF GetLow
  <2>4. CASE OpenValve
    BY <2>4 DEF OpenValve, Promise!Open
  <2>5. CASE CloseValve
    BY <2>5 DEF CloseValve, Promise!Close
  <2>6. CASE ResetPwm
    BY <2>6 DEF ResetPwm
  <2>7. ASSUME NEW pct \in Percents, SetValvePWM(pct)
        PROVE  UNCHANGED Promise!vars
    BY <2>7 DEF SetValvePWM, BeginSet
  <2>8. ASSUME NEW ms \in Periods, SetValvePeriodMillisec(ms)
        PROVE  UNCHANGED Promise!vars
    BY <2>8 DEF SetValvePeriodMillisec, BeginSet
  <2>9. CASE TakeMutex
    BY <2>9 DEF TakeMutex
  <2>10. CASE StoreValue
    BY <2>10 DEF StoreValue, Promise!Arm, Promise!Disarm
  <2>11. CASE GiveMutex
    BY <2>11 DEF GiveMutex
  <2>12. CASE StartMode
    BY <2>12 DEF StartMode, Promise!Start
  <2>13. CASE SuspendMode
    BY <2>13 DEF SuspendMode, Promise!Stop
  <2>14. CASE DeleteMode
    BY <2>14 DEF DeleteMode, Promise!Stop
  <2>15. CASE UNCHANGED vars
    BY <2>15 DEF vars
  <2> QED
    BY <2>1, <2>2, <2>3, <2>4, <2>5, <2>6, <2>7, <2>8, <2>9, <2>10, <2>11,
       <2>12, <2>13, <2>14, <2>15 DEF Next, ValveStep, ModeStep
<1> QED
  BY <1>1, <1>2, TypeCorrect, IndInvCorrect, PTL
     DEF SafetySpec, Promise!SafetySpec

-----------------------------------------------------------------------------
(* The valve in the composition.                                           *)

RestTypes ==
    /\ next \in Modes \cup {"none"}
    /\ which \in ModeNames
    /\ mpc \in MpcStates
    /\ loc \in [decrease : Nat, finish : Nat, duty : Nat, period : Nat,
                stable : Int, info : TempsType]
    /\ setting \in [Settings -> Nat]
    /\ temp \in TempsType
    /\ tlock \in {"free", "mode", "deleted"}
    /\ late \in 0..LateBound

LEMMA SetPwmIsAnyStep ==
    ASSUME NEW m, NEW here, NEW pct \in Nat, NEW there, SetPwm(m, here, pct, there)
    PROVE  [AnyStep]_vars
  BY DEF SetPwm, AnyStep, SetterCall

LEMMA SetPeriodIsAnyStep ==
    ASSUME NEW m, NEW here, NEW ms \in Nat, NEW there, SetPeriod(m, here, ms, there)
    PROVE  [AnyStep]_vars
  BY DEF SetPeriod, AnyStep, SetterCall

LEMMA QuietSteps ==
    ASSUME NEW m, NEW here, NEW there, NEW field, NEW p,
           \/ Read(m, here, field, p, there) \/ TakeTemps(m, here, there)
           \/ CopyTemps(m, here, there) \/ Status(m, here, there)
    PROVE  UNCHANGED vars
  BY DEF Read, TakeTemps, CopyTemps, Status

LEMMA SuspendIsAnyStep ==
    ASSUME NEW m, NEW here, Suspend(m, here)
    PROVE  [AnyStep]_vars
  BY DEF Suspend, AnyStep

(* Whatever the still does is a step of the valve controller, or leaves it *)
(* alone, or is the reset of the chip.                                     *)
LEMMA StillStepIsAnyStep ==
    ASSUME RestTypes, [StillNext]_allVars, ~PanicOnDivision
    PROVE  [AnyStep]_vars
<1>1. loc.duty \in Nat /\ loc.period \in Nat /\ 100 \in Nat /\ TestPeriod \in Nat
  BY DEF RestTypes, TestPeriod
<1>2. CASE TestOfHardware
  BY <1>1, <1>2, QuietSteps, SetPwmIsAnyStep, SetPeriodIsAnyStep, SuspendIsAnyStep, Zenon
  DEF TestOfHardware
<1>3. CASE BoostMode
  BY <1>3, QuietSteps, Zenon DEF BoostMode
<1>4. CASE SelfEmployment
  BY <1>4, QuietSteps, SuspendIsAnyStep, Zenon DEF SelfEmployment
<1>5. CASE PickingHeads
  BY <1>1, <1>5, QuietSteps, SetPwmIsAnyStep, SetPeriodIsAnyStep, Zenon DEF PickingHeads
<1>6. CASE PickingBodyByCubeTemperature
  <2>1. ASSUME NEW m, DecideByCube(m) PROVE [AnyStep]_vars
    BY <2>1, SuspendIsAnyStep DEF DecideByCube
  <2> QED
    BY <1>1, <1>6, <2>1, QuietSteps, SetPwmIsAnyStep, SetPeriodIsAnyStep, Zenon
    DEF PickingBodyByCubeTemperature
<1>7. CASE PickingBodyByColumnTemperature
  <2>1. ASSUME NEW m, DecideByColumn(m) PROVE [AnyStep]_vars
    BY <2>1, SuspendIsAnyStep DEF DecideByColumn
  <2> QED
    BY <1>1, <1>7, <2>1, QuietSteps, SetPwmIsAnyStep, SetPeriodIsAnyStep, Zenon
    DEF PickingBodyByColumnTemperature
<1>8. CASE InSetter
  BY <1>8 DEF InSetter, AnyStep, SetterCall
<1>9. CASE Valve
  BY <1>9 DEF Valve, AnyStep
<1>10. ASSUME NEW m \in Modes, StopWorkingTask(m)
       PROVE  [AnyStep]_vars
  BY <1>10 DEF StopWorkingTask, AnyStep
<1>11. CASE CreateWorkingTask
  BY <1>11 DEF CreateWorkingTask, AnyStep
<1>12. CASE \/ \E p \in Settings : StoreSetting(p)
            \/ PublishTemperature
            \/ UNCHANGED allVars
  BY <1>12 DEF StoreSetting, PublishTemperature, allVars
<1> QED
  BY <1>2, <1>3, <1>4, <1>5, <1>6, <1>7, <1>8, <1>9, <1>10, <1>11, <1>12
  DEF StillNext, ModeProgram

(* The reset leaves the valve closed with nothing to open it.              *)
LEMMA PanicKeepsValve ==
    ASSUME TypeOK, IndInv, PanicOnDivision
    PROVE  TypeOK' /\ IndInv'
<1>1. mode = "running" /\ stale = 0
  BY DEF PanicOnDivision, At, IndInv, NothingStaleWhileRunning
<1>2. TypeOK'
  BY DEF PanicOnDivision, TypeOK, Zeros, Lock, NoCall, VpcStates
<1>3. IndInv'
  BY <1>1 DEF PanicOnDivision, IndInv, DutyInRange, CallerRuns, MutexOwnership,
     PinFollowsTask, NothingStaleWhileRunning, AtMostOnePulseAfterStop, Armed,
     Zeros, NoCall, Lock
<1> QED
  BY <1>2, <1>3

LEMMA StillKeepsValve ==
    ASSUME TypeOK, IndInv, RestTypes, [StillNext]_allVars
    PROVE  TypeOK' /\ IndInv'
  BY PanicKeepsValve, StillStepIsAnyStep, TypeStep, IndInvStep

-----------------------------------------------------------------------------
(* The readings of a body mode: between its read of an end of the band and *)
(* its decision the mode holds a value that end may have.                  *)

AfterFinish == {"base", "period", "setPeriod", "temps", "info", "decide"}
HoldsDecrease == /\ which = "pickingBodyByCubeTemperature"
                 /\ mpc \in {"finish"} \cup AfterFinish
HoldsFinish == which \in BodyModes /\ mpc \in AfterFinish

Readings ==
    /\ \A p \in Settings : setting[p] \in ValuesOf(p)
    /\ HoldsDecrease => loc.decrease \in ValuesOf("DecreasePickingTemperature")
    /\ HoldsFinish => loc.finish \in ValuesOf("FinishTemperature")

LEMMA ValuesAreNat ==
    /\ \A p \in Settings : ValuesOf(p) \subseteq Nat /\ DefaultSetting[p] \in ValuesOf(p)
    /\ \A p \in Settings : setting[p] \in ValuesOf(p) => GetSetting(p) \subseteq ValuesOf(p)
<1>1. \A p \in Settings : DefaultSetting[p] \in Nat
  BY DEF Settings, DefaultSetting
<1>2. \A p \in Settings : SettingValues[p] \subseteq Nat
  BY SettingsAssumption
<1> QED
  BY <1>1, <1>2 DEF ValuesOf, GetSetting

(* A step that changes neither the settings nor the two ends of the band   *)
(* keeps the readings, if the mode does not go where it would need more.   *)
LEMMA ReadingsMove ==
    ASSUME Readings, UNCHANGED setting,
           loc'.decrease = loc.decrease, loc'.finish = loc.finish,
           HoldsDecrease' => HoldsDecrease, HoldsFinish' => HoldsFinish
    PROVE  Readings'
  BY DEF Readings

LEMMA SetterStepReadings ==
    ASSUME Readings, UNCHANGED <<loc, setting, which>>,
           mpc' \in AfterFinish => mpc \in AfterFinish,
           mpc' # "finish"
    PROVE  Readings'
<1>1. (HoldsDecrease' => HoldsDecrease) /\ (HoldsFinish' => HoldsFinish)
  BY DEF HoldsDecrease, HoldsFinish
<1> QED
  BY <1>1, ReadingsMove

(* Where the mode is not a body mode there is nothing to show.             *)
LEMMA OtherModeReadings ==
    ASSUME Readings, UNCHANGED setting, which' \notin BodyModes
    PROVE  Readings'
  BY DEF Readings, HoldsDecrease, HoldsFinish, BodyModes

LEMMA CubeReadings ==
    ASSUME RestTypes, Readings, PickingBodyByCubeTemperature
    PROVE  Readings'
<1> DEFINE m == "pickingBodyByCubeTemperature"
<1> USE DEF At, Goto, HoldsDecrease, HoldsFinish, AfterFinish, envVars
<1>1. CASE Read(m, "start", "decrease", "DecreasePickingTemperature", "finish")
  <2>1. /\ UNCHANGED setting /\ mpc' = "finish" /\ which' = which
        /\ \E value \in GetSetting("DecreasePickingTemperature") :
              loc' = [loc EXCEPT !.decrease = value]
    BY <1>1 DEF Read
  <2>2. loc'.decrease \in ValuesOf("DecreasePickingTemperature")
    BY <2>1, ValuesAreNat DEF Readings, Settings, RestTypes
  <2> QED
    BY <2>1, <2>2 DEF Readings
<1>2. CASE Read(m, "finish", "finish", "FinishTemperature", "base")
  <2>1. /\ UNCHANGED setting /\ mpc = "finish" /\ mpc' = "base" /\ which' = which
        /\ \E value \in GetSetting("FinishTemperature") :
              loc' = [loc EXCEPT !.finish = value]
        /\ which = m
    BY <1>2 DEF Read
  <2>2. loc'.finish \in ValuesOf("FinishTemperature") /\ loc'.decrease = loc.decrease
    BY <2>1, ValuesAreNat DEF Readings, Settings, RestTypes
  <2> QED
    BY <2>1, <2>2 DEF Readings
<1>3. CASE \/ Read(m, "base", "duty", "BodyPickingSpeed", "period")
           \/ Read(m, "period", "period", "ValvePeriod", "setPeriod")
  <2>1. loc'.decrease = loc.decrease /\ loc'.finish = loc.finish
    BY <1>3 DEF Read, RestTypes
  <2> QED
    BY <1>3, <2>1, ReadingsMove DEF Read
<1>4. CASE \/ SetPeriod(m, "setPeriod", loc.period, "temps")
           \/ TakeTemps(m, "temps", "info")
           \/ SetPwm(m, "setPwm", loc.duty, "send")
  BY <1>4, SetterStepReadings DEF SetPeriod, TakeTemps, SetPwm
<1>5. CASE CopyTemps(m, "info", "decide")
  <2>1. loc'.decrease = loc.decrease /\ loc'.finish = loc.finish
    BY <1>5 DEF CopyTemps, RestTypes
  <2> QED
    BY <1>5, <2>1, ReadingsMove DEF CopyTemps
<1>6. CASE DecideByCube(m)
  BY <1>6 DEF DecideByCube, Suspend, stillVars, modeVars, Readings
<1>7. CASE Status(m, "send", "start")
  BY <1>7 DEF Status, TakeTemps, Readings
<1> QED
  BY <1>1, <1>2, <1>3, <1>4, <1>5, <1>6, <1>7 DEF PickingBodyByCubeTemperature

LEMMA ColumnReadings ==
    ASSUME RestTypes, Readings, PickingBodyByColumnTemperature
    PROVE  Readings'
<1> DEFINE m == "pickingBodyByColumnTemperature"
<1> USE DEF At, Goto, HoldsDecrease, HoldsFinish, AfterFinish, envVars
<1>1. CASE Read(m, "finish", "finish", "FinishTemperature", "base")
  <2>1. /\ UNCHANGED setting /\ mpc' = "base" /\ which' = which /\ which = m
        /\ \E value \in GetSetting("FinishTemperature") :
              loc' = [loc EXCEPT !.finish = value]
    BY <1>1 DEF Read
  <2>2. loc'.finish \in ValuesOf("FinishTemperature")
    BY <2>1, ValuesAreNat DEF Readings, Settings, RestTypes
  <2> QED
    BY <2>1, <2>2 DEF Readings
<1>2. CASE \/ Read(m, "base", "duty", "BodyPickingSpeed", "period")
           \/ Read(m, "period", "period", "ValvePeriod", "setPeriod")
  <2>1. loc'.decrease = loc.decrease /\ loc'.finish = loc.finish
    BY <1>2 DEF Read, RestTypes
  <2> QED
    BY <1>2, <2>1, ReadingsMove DEF Read
<1>3. CASE \/ SetPeriod(m, "setPeriod", loc.period, "temps")
           \/ TakeTemps(m, "temps", "info")
           \/ TakeTemps(m, "start", "stable")
           \/ SetPwm(m, "setPwm", loc.duty, "send")
  BY <1>3, SetterStepReadings DEF SetPeriod, TakeTemps, SetPwm
<1>4. CASE CopyTemps(m, "info", "decide")
  <2>1. loc'.decrease = loc.decrease /\ loc'.finish = loc.finish
    BY <1>4 DEF CopyTemps, RestTypes
  <2> QED
    BY <1>4, <2>1, ReadingsMove DEF CopyTemps
<1>5. CASE DecideByColumn(m)
  BY <1>5 DEF DecideByColumn, Suspend, stillVars, modeVars, Readings
<1>6. CASE Status(m, "send", "finish")
  BY <1>6 DEF Status, TakeTemps, Readings
<1>7. CASE /\ At(m, "stable")
           /\ Goto("finish")
           /\ UNCHANGED <<vars, next, envVars, late>>
  BY <1>7 DEF Readings
<1> QED
  BY <1>1, <1>2, <1>3, <1>4, <1>5, <1>6, <1>7 DEF PickingBodyByColumnTemperature

LEMMA OtherModesReadings ==
    ASSUME Readings, TestOfHardware \/ BoostMode \/ SelfEmployment \/ PickingHeads
    PROVE  Readings'
<1>1. UNCHANGED <<which, setting>> /\ which \notin BodyModes
  BY DEF TestOfHardware, BoostMode, SelfEmployment, PickingHeads, Status, TakeTemps,
     CopyTemps, Read, SetPeriod, SetPwm, Suspend, At, Goto, BodyModes, envVars,
     stillVars, modeVars
<1> QED
  BY <1>1, OtherModeReadings

LEMMA ReadingsStep ==
    ASSUME RestTypes, Readings, [StillNext]_allVars
    PROVE  Readings'
<1>1. CASE \/ Valve \/ InSetter \/ PublishTemperature \/ UNCHANGED allVars
           \/ \E m \in Modes : StopWorkingTask(m)
  <2>1. UNCHANGED <<which, mpc, loc, setting>>
    BY <1>1 DEF Valve, InSetter, PublishTemperature, StopWorkingTask, allVars, stillVars,
       modeVars, envVars
  <2> QED
    BY <2>1 DEF Readings, HoldsDecrease, HoldsFinish
<1>2. CASE CreateWorkingTask
  BY <1>2 DEF CreateWorkingTask, envVars, modeVars, Readings, HoldsDecrease,
     HoldsFinish, AfterFinish
<1>3. ASSUME NEW p \in Settings, StoreSetting(p)
      PROVE  Readings'
  <2>1. \A q \in Settings : setting'[q] \in ValuesOf(q)
    BY <1>3 DEF StoreSetting, Readings, ValuesOf, RestTypes
  <2> QED
    BY <1>3, <2>1 DEF StoreSetting, Readings, HoldsDecrease, HoldsFinish, modeVars
<1>4. CASE PanicOnDivision
  BY <1>4 DEF PanicOnDivision, Readings, HoldsDecrease, HoldsFinish, AfterFinish
<1> QED
  BY <1>1, <1>2, <1>3, <1>4, CubeReadings, ColumnReadings, OtherModesReadings
  DEF StillNext, ModeProgram

-----------------------------------------------------------------------------
(* The types and the mutex of the temperatures.                            *)

Holding == {"info", "status", "stable"}
TempsInv == tlock = "mode" <=> mode = "running" /\ mpc \in Holding
ControlInv == RestTypes /\ TempsInv

Outside == MpcStates \ Holding

LEMMA ReadControl ==
    ASSUME ControlInv, NEW m, NEW here \in Outside, NEW there \in Outside,
           NEW field \in {"decrease", "finish", "duty", "period"}, NEW p \in Settings,
           Read(m, here, field, p, there)
    PROVE  ControlInv'
<1>1. PICK value \in GetSetting(p) : loc' = [loc EXCEPT ![field] = value]
  BY DEF Read
<1>2. value \in Nat
  BY <1>1, ValuesAreNat DEF GetSetting, ControlInv, RestTypes
<1>3. loc' \in [decrease : Nat, finish : Nat, duty : Nat, period : Nat,
                stable : Int, info : TempsType]
  <2>1. CASE field = "decrease"
    BY <1>1, <1>2, <2>1 DEF ControlInv, RestTypes
  <2>2. CASE field = "finish"
    BY <1>1, <1>2, <2>2 DEF ControlInv, RestTypes
  <2>3. CASE field = "duty"
    BY <1>1, <1>2, <2>3 DEF ControlInv, RestTypes
  <2>4. CASE field = "period"
    BY <1>1, <1>2, <2>4 DEF ControlInv, RestTypes
  <2> QED
    BY <2>1, <2>2, <2>3, <2>4
<1> QED
  BY <1>3 DEF Read, At, Goto, ControlInv, RestTypes, TempsInv, Outside, vars, envVars

LEMMA TakeControl ==
    ASSUME ControlInv, NEW m, NEW here \in Outside, NEW there \in Holding,
           TakeTemps(m, here, there)
    PROVE  ControlInv'
  BY DEF TakeTemps, At, Goto, ControlInv, RestTypes, TempsInv, Holding, MpcStates, vars,
         envVars

LEMMA CopyControl ==
    ASSUME ControlInv, NEW m, NEW there \in Outside, CopyTemps(m, "info", there)
    PROVE  ControlInv'
  BY DEF CopyTemps, At, Goto, ControlInv, RestTypes, TempsInv, Outside, vars, envVars

LEMMA NoLocalsType ==
    NoLocals \in [decrease : Nat, finish : Nat, duty : Nat, period : Nat,
                  stable : Int, info : TempsType]
  BY DEF NoLocals, NoTemps, TempsType

LEMMA StatusControl ==
    ASSUME ControlInv, NEW m, NEW here \in Outside, NEW there \in Outside,
           Status(m, here, there)
    PROVE  ControlInv'
<1>1. CASE TakeTemps(m, here, "status")
  BY <1>1, TakeControl DEF Holding
<1>2. CASE ~TakeTemps(m, here, "status")
  <2>1. [NoLocals EXCEPT !.stable = loc.stable] \in
            [decrease : Nat, finish : Nat, duty : Nat, period : Nat,
             stable : Int, info : TempsType]
    BY NoLocalsType DEF ControlInv, RestTypes
  <2> QED
    BY <1>2, <2>1 DEF Status, At, Goto, ControlInv, RestTypes, TempsInv, Outside, vars,
       envVars
<1> QED
  BY <1>1, <1>2

LEMMA SetterControl ==
    ASSUME ControlInv, NEW m, NEW here \in Outside, NEW there \in Outside, NEW value,
           SetPeriod(m, here, value, there) \/ SetPwm(m, here, value, there)
    PROVE  ControlInv'
<1>1. /\ UNCHANGED <<mode, next, loc, which, setting, temp, tlock, late>>
      /\ mpc = here /\ mpc' = there
  BY DEF SetPeriod, SetPwm, SetValvePWM, SetValvePeriodMillisec, BeginSet, vars, At, Goto,
     envVars
<1> QED
  BY <1>1 DEF ControlInv, RestTypes, TempsInv, Outside

LEMMA SuspendControl ==
    ASSUME ControlInv, NEW m, NEW here \in Outside, Suspend(m, here)
    PROVE  ControlInv'
  BY DEF Suspend, SuspendMode, At, ControlInv, RestTypes, TempsInv, Outside, stillVars,
     modeVars, envVars

(* The arithmetic of line 107-113 is on unsigned integers and divides by   *)
(* the width of the band, which is not negative.                           *)
LEMMA CubeDutyType ==
    ASSUME NEW decrease \in Nat, NEW finish \in Nat, NEW base \in Nat, NEW cube \in Int,
           decrease <= finish, cube >= 10 * decrease => finish # decrease
    PROVE  CubeDuties(decrease, finish, base, cube) \subseteq Nat
<1> DEFINE delta == finish - decrease
<1>1. CASE cube < 10 * decrease
  BY <1>1 DEF CubeDuties
<1>2. CASE ~(cube < 10 * decrease)
  <2>1. delta \in Nat \ {0}
    BY <1>2
  <2>2. Overstatement(decrease, cube) \subseteq Nat
    <3>1. -((cube - 10 * decrease) \div 10) \in Int
      OBVIOUS
    <3> QED
      BY <3>1, UintOfFloatType DEF Overstatement
  <2>3. ASSUME NEW over \in Overstatement(decrease, cube)
        PROVE  ((((delta - over) % UintMod) \div delta) * base) % UintMod \in Nat
    <3> HIDE DEF delta
    <3>1. delta - over \in Int
      BY <2>1, <2>2
    <3>2. (delta - over) % UintMod \in Nat
      BY <3>1, UintModAssumption
    <3> DEFINE x == (delta - over) % UintMod
    <3> HIDE DEF x
    <3>3. x \div delta \in Nat
      BY <2>1, <3>2 DEF x
    <3> DEFINE y == x \div delta
    <3> HIDE DEF y
    <3>4. y * base \in Nat
      BY <3>3 DEF y
    <3>5. (y * base) % UintMod \in Nat
      BY <3>4, UintModAssumption
    <3> QED
      BY <3>5 DEF x, y
  <2> QED
    BY <1>2, <2>3 DEF CubeDuties
<1> QED
  BY <1>1, <1>2

LEMMA DecideByCubeControl ==
    ASSUME ControlInv, Readings, DecideByCube("pickingBodyByCubeTemperature")
    PROVE  ControlInv'
<1> DEFINE m == "pickingBodyByCubeTemperature"
<1>1. CASE Suspend(m, "decide")
  BY <1>1, SuspendControl DEF Outside, MpcStates, Holding
<1>2. CASE ~Suspend(m, "decide")
  <2>1. /\ At(m, "decide") /\ ~Finished /\ ~DividesByZero /\ Goto("setPwm")
        /\ UNCHANGED <<vars, next, envVars, tlock, late>>
        /\ \E pwm \in CubeDuties(loc.decrease, loc.finish, loc.duty, loc.info.cube) :
              loc' = [loc EXCEPT !.duty = pwm]
    BY <1>2 DEF DecideByCube
  <2>2. /\ loc.decrease \in Nat /\ loc.finish \in Nat /\ loc.duty \in Nat
        /\ loc.info.cube \in Int
    BY DEF ControlInv, RestTypes, TempsType
  <2>3. loc.decrease <= loc.finish
    BY <2>1, BandAssumption
    DEF Readings, HoldsDecrease, HoldsFinish, AfterFinish, BodyModes, At
  <2>4. loc.info.cube >= 10 * loc.decrease => loc.finish # loc.decrease
    BY <2>1 DEF DividesByZero
  <2>5. CubeDuties(loc.decrease, loc.finish, loc.duty, loc.info.cube) \subseteq Nat
    BY <2>2, <2>3, <2>4, CubeDutyType
  <2>6. loc' \in [decrease : Nat, finish : Nat, duty : Nat, period : Nat,
                  stable : Int, info : TempsType]
    BY <2>1, <2>5 DEF ControlInv, RestTypes
  <2> QED
    BY <2>1, <2>6 DEF At, Goto, ControlInv, RestTypes, TempsInv, Holding, MpcStates, vars,
       envVars
<1> QED
  BY <1>1, <1>2

LEMMA DecideByColumnControl ==
    ASSUME ControlInv, NEW m, DecideByColumn(m)
    PROVE  ControlInv'
<1>1. CASE Suspend(m, "decide")
  BY <1>1, SuspendControl DEF Outside, MpcStates, Holding
<1>2. CASE ~Suspend(m, "decide")
  BY <1>2 DEF DecideByColumn, At, Goto, ControlInv, RestTypes, TempsInv, Holding,
     MpcStates, vars, envVars
<1> QED
  BY <1>1, <1>2

LEMMA ModeControl ==
    ASSUME ControlInv, Readings,
           \/ TestOfHardware \/ BoostMode \/ SelfEmployment \/ PickingHeads
           \/ PickingBodyByCubeTemperature \/ PickingBodyByColumnTemperature
    PROVE  ControlInv'
<1> USE DEF Outside, MpcStates, Holding, Settings
<1>1. CASE TestOfHardware
  BY <1>1, StatusControl, SetterControl, SuspendControl DEF TestOfHardware
<1>2. CASE BoostMode
  BY <1>2, TakeControl, CopyControl, StatusControl DEF BoostMode
<1>3. CASE SelfEmployment
  BY <1>3, SuspendControl, StatusControl DEF SelfEmployment
<1>4. CASE PickingHeads
  BY <1>4, ReadControl, SetterControl, StatusControl DEF PickingHeads
<1>5. CASE PickingBodyByCubeTemperature
  BY <1>5, ReadControl, SetterControl, TakeControl, CopyControl, DecideByCubeControl,
     StatusControl
  DEF PickingBodyByCubeTemperature
<1>6. CASE PickingBodyByColumnTemperature
  <2>1. ASSUME /\ At("pickingBodyByColumnTemperature", "stable")
               /\ loc' = [loc EXCEPT !.stable = temp.column]
               /\ tlock' = "free"
               /\ Goto("finish")
               /\ UNCHANGED <<vars, next, envVars, late>>
        PROVE  ControlInv'
    BY <2>1 DEF At, Goto, ControlInv, RestTypes, TempsInv, TempsType, vars, envVars
  <2> QED
    BY <1>6, <2>1, ReadControl, SetterControl, TakeControl, CopyControl,
       DecideByColumnControl, StatusControl
    DEF PickingBodyByColumnTemperature
<1> QED
  BY <1>1, <1>2, <1>3, <1>4, <1>5, <1>6

LEMMA ControlStep ==
    ASSUME TypeOK, ControlInv, Readings, [StillNext]_allVars
    PROVE  ControlInv'
<1>1. CASE Valve
  <2>1. UNCHANGED mode
    BY <1>1 DEF Valve, ValveStep, CheckPwm, GetDuty, GetLow, OpenValve, CloseValve,
       ResetPwm
  <2> QED
    BY <1>1, <2>1 DEF Valve, ControlInv, RestTypes, TempsInv, LateBound, modeVars, envVars
<1>2. CASE InSetter
  BY <1>2 DEF InSetter, TakeMutex, StoreValue, GiveMutex, ControlInv, RestTypes, TempsInv,
     stillVars, modeVars, envVars
<1>3. CASE PanicOnDivision
  BY <1>3, NoLocalsType DEF PanicOnDivision, ControlInv, RestTypes, TempsInv, NoTemps,
     TempsType, MpcStates
<1>4. ASSUME NEW m \in Modes, StopWorkingTask(m)
      PROVE  ControlInv'
  BY <1>4 DEF StopWorkingTask, DeleteMode, ControlInv, RestTypes, TempsInv, LateBound,
     vars, modeVars, envVars
<1>5. CASE CreateWorkingTask
  <2>1. next \in ModeNames
    BY <1>5, ModesAssumption DEF CreateWorkingTask, ControlInv, RestTypes
  <2>2. CASE UNCHANGED <<vars, modeVars>>
    BY <1>5, <2>2 DEF CreateWorkingTask, ControlInv, RestTypes, TempsInv, vars,
       modeVars, envVars
  <2>3. CASE /\ StartMode /\ which' = next /\ mpc' = "start" /\ loc' = NoLocals
    BY <1>5, <2>1, <2>3, NoLocalsType DEF CreateWorkingTask, StartMode, ControlInv,
       RestTypes, TempsInv, Holding, MpcStates, envVars
  <2> QED
    BY <1>5, <2>2, <2>3 DEF CreateWorkingTask
<1>6. ASSUME NEW p \in Settings, StoreSetting(p)
      PROVE  ControlInv'
  <2>1. SettingValues[p] \subseteq Nat
    BY SettingsAssumption
  <2> QED
    BY <1>6, <2>1 DEF StoreSetting, ControlInv, RestTypes, TempsInv, vars, modeVars
<1>7. CASE PublishTemperature
  BY <1>7, TempsAssumption DEF PublishTemperature, ControlInv, RestTypes, TempsInv,
     TempsType, LateBound, vars, modeVars
<1>8. CASE UNCHANGED allVars
  BY <1>8 DEF allVars, stillVars, vars, modeVars, envVars, ControlInv, RestTypes,
     TempsInv
<1> QED
  BY <1>1, <1>2, <1>3, <1>4, <1>5, <1>6, <1>7, <1>8, ModeControl DEF StillNext, ModeProgram

-----------------------------------------------------------------------------
(* The late pulses. Besides the openings so far, an armed valve is good    *)
(* for one more, and so is a mode that is about to store a duty. A mode     *)
(* that copies the temperatures of a hot cube will store none.             *)

Storing == /\ mode = "running"
           /\ \/ call.lock = "pwm" /\ call.at \in {"take", "write"}
              \/ mpc = "setPwm"
              \/ mpc = "decide" /\ ~Finished

One(condition) == IF condition THEN 1 ELSE 0

LateInv ==
    /\ call.at # "out" /\ call.lock = "pwm" => mpc \notin {"setPwm", "decide"}
    /\ next # "none" => mode = "absent" /\ late = 0
    /\ ~Hot /\ mode # "absent" => late = 0
    /\ which \notin BodyModes => late = 0
    /\ which \in BodyModes => late + One(Armed) + One(Storing) <= 2


(* A statement of the mode outside a setter that leaves the valve alone.   *)
LEMMA QuietLate ==
    ASSUME RestTypes, LateInv, call.at = "out",
           UNCHANGED <<vars, next, which, temp, late>>,
           Storing' => Storing \/ ~Hot
    PROVE  LateInv'
<1>1. Hot' = Hot /\ Armed' = Armed
  BY DEF Hot, Armed, vars, valveVars
<1>2. /\ One(Armed)' = One(Armed) /\ One(Armed) \in {0, 1}
      /\ One(Storing) = IF Storing THEN 1 ELSE 0
      /\ One(Storing)' = IF Storing' THEN 1 ELSE 0
  BY <1>1 DEF One
<1>3. late \in Nat
  BY DEF RestTypes, LateBound
<1>4. Storing' /\ ~Storing => late = 0
  <2>1. Storing' => mode # "absent"
    BY DEF Storing, vars
  <2> QED
    BY <2>1 DEF LateInv
<1>5. which \in BodyModes => late + One(Armed)' + One(Storing)' <= 2
  BY <1>2, <1>3, <1>4 DEF LateInv
<1> QED
  BY <1>1, <1>5 DEF LateInv, vars

LEMMA ValveLate ==
    ASSUME TypeOK, RestTypes, LateInv, Valve
    PROVE  LateInv'
<1> USE DEF TypeOK, Lock, VpcStates
<1>1. UNCHANGED <<mode, call, next, which, mpc, loc, temp>>
  BY DEF Valve, ValveStep, CheckPwm, GetDuty, GetLow, OpenValve, CloseValve, ResetPwm,
     modeVars, envVars
<1>2. Hot' = Hot /\ Storing' = Storing
  BY <1>1 DEF Hot, Storing, Finished
<1>3. One(Storing)' = One(Storing)
  BY <1>2 DEF One
<1>4. late \in Nat /\ One(Storing) \in {0, 1}
  BY DEF RestTypes, LateBound, One
<1>5. CASE OpenValve
  <2>1. One(Armed) = 1 /\ One(Armed)' = 0 /\ late' <= late + 1 /\ late' \in Nat
    BY <1>4, <1>5 DEF OpenValve, Armed, One, Valve
  <2>2. (~Hot \/ which \notin BodyModes \/ mode = "absent") => late' = late
    BY DEF Valve
  <2> QED
    BY <1>1, <1>2, <1>3, <1>4, <2>1, <2>2 DEF LateInv
<1>6. CASE ~OpenValve
  <2>1. late' = late /\ (Armed' => Armed)
    BY <1>6 DEF Valve, ValveStep, CheckPwm, GetDuty, GetLow, OpenValve, CloseValve,
       ResetPwm, Armed
  <2>2. One(Armed)' <= One(Armed) /\ One(Armed) \in {0, 1} /\ One(Armed)' \in {0, 1}
    BY <2>1 DEF One
  <2> QED
    BY <1>1, <1>2, <1>3, <1>4, <2>1, <2>2 DEF LateInv
<1> QED
  BY <1>5, <1>6

LEMMA SetterLate ==
    ASSUME TypeOK, IndInv, RestTypes, LateInv, InSetter
    PROVE  LateInv'
<1>1. /\ UNCHANGED <<mode, next, which, mpc, loc, temp, late, vpc>>
      /\ mode = "running"
  BY DEF InSetter, TakeMutex, StoreValue, GiveMutex, stillVars, modeVars, envVars,
     valveVars, IndInv, CallerRuns
<1>2. Hot' = Hot
  BY <1>1 DEF Hot
<1>3. late \in Nat
  BY DEF RestTypes, LateBound
<1>4. CASE StoreValue /\ call.lock = "pwm"
  <2>1. Storing /\ ~Storing'
    BY <1>1, <1>4 DEF StoreValue, Storing, LateInv, TypeOK
  <2>2. One(Storing) = 1 /\ One(Storing)' = 0 /\ One(Armed) \in {0, 1}
        /\ One(Armed)' \in {0, 1}
    BY <2>1 DEF One
  <2>3. call'.at = "give" /\ call'.lock = call.lock
    BY <1>4 DEF StoreValue, TypeOK
  <2>4. which \in BodyModes => late + One(Armed)' + One(Storing)' <= 2
    BY <1>3, <2>2 DEF LateInv
  <2> QED
    BY <1>1, <1>2, <1>4, <2>3, <2>4 DEF LateInv, StoreValue
<1>5. CASE ~(StoreValue /\ call.lock = "pwm")
  <2>1. Armed' = Armed
    BY <1>1, <1>5
    DEF InSetter, TakeMutex, StoreValue, GiveMutex, Armed, TypeOK, Lock
  <2>2. Storing' => Storing
    BY <1>1, <1>5
    DEF InSetter, TakeMutex, StoreValue, GiveMutex, Storing, Finished, NoCall, TypeOK
  <2>3. /\ One(Armed)' = One(Armed) /\ One(Armed) \in {0, 1}
        /\ One(Storing)' <= One(Storing)
        /\ One(Storing) \in {0, 1} /\ One(Storing)' \in {0, 1}
    BY <2>1, <2>2 DEF One
  <2>4. which \in BodyModes => late + One(Armed)' + One(Storing)' <= 2
    BY <1>3, <2>3 DEF LateInv
  <2>5. call'.at # "out" /\ call'.lock = "pwm" => call.at # "out" /\ call.lock = "pwm"
    BY DEF InSetter, TakeMutex, StoreValue, GiveMutex, NoCall, TypeOK
  <2> QED
    BY <1>1, <1>2, <2>4, <2>5 DEF LateInv
<1> QED
  BY <1>4, <1>5

(* The entry into a setter: the duty about to be stored was accounted for. *)
LEMMA EntryLate ==
    ASSUME TypeOK, RestTypes, LateInv, NEW m, NEW here, NEW there, NEW value,
           \/ SetPeriod(m, here, value, there)
           \/ here = "setPwm" /\ SetPwm(m, here, value, there),
           which \in BodyModes => there \notin {"setPwm", "decide"},
           there # "decide", here = "setPwm" => there # "setPwm"
    PROVE  LateInv'
<1>1. /\ UNCHANGED <<cell, vpc, mode, next, which, loc, temp, late>>
      /\ mode = "running" /\ call.at = "out" /\ mpc = here /\ mpc' = there
      /\ \/ call'.lock = "period"
         \/ here = "setPwm"
  BY DEF SetPeriod, SetPwm, SetValvePWM, SetValvePeriodMillisec, BeginSet, vars, valveVars,
     At, Goto, envVars
<1>2. Hot' = Hot /\ Armed' = Armed
  BY <1>1 DEF Hot, Armed
<1>3. which \in BodyModes => (Storing' => Storing)
  BY <1>1 DEF Storing
<1>4. late \in Nat /\ One(Armed) \in {0, 1} /\ One(Storing) \in {0, 1}
      /\ One(Storing)' \in {0, 1} /\ One(Armed)' = One(Armed)
  BY <1>2 DEF RestTypes, LateBound, One
<1>5. which \in BodyModes => One(Storing)' <= One(Storing)
  BY <1>3 DEF One
<1>6. call'.lock = "pwm" => mpc' \notin {"setPwm", "decide"}
  BY <1>1
<1> QED
  BY <1>1, <1>2, <1>4, <1>5, <1>6 DEF LateInv

LEMMA SuspendLate ==
    ASSUME RestTypes, LateInv, NEW m, NEW here, Suspend(m, here)
    PROVE  LateInv'
<1>1. /\ UNCHANGED <<cell, vpc, call, next, which, mpc, loc, temp, late>>
      /\ mode = "running" /\ mode' = "suspended"
  BY DEF Suspend, SuspendMode, At, stillVars, modeVars, envVars, valveVars
<1>2. Hot' = Hot /\ Armed' = Armed /\ ~Storing'
  BY <1>1 DEF Hot, Armed, Storing
<1>3. late \in Nat /\ One(Armed)' = One(Armed) /\ One(Armed) \in {0, 1}
      /\ One(Storing)' = 0 /\ One(Storing) \in {0, 1}
  BY <1>2 DEF RestTypes, LateBound, One
<1> QED
  BY <1>1, <1>2, <1>3 DEF LateInv

(* Statements that do not lead to a decision or a setter of the duty.      *)
LEMMA PlainLate ==
    ASSUME RestTypes, LateInv, call.at = "out",
           UNCHANGED <<vars, next, which, temp, late>>,
           mpc' \notin {"setPwm", "decide"}
    PROVE  LateInv'
<1>1. ~Storing'
  BY DEF Storing, vars
<1> QED
  BY <1>1, QuietLate

LEMMA ReadLate ==
    ASSUME RestTypes, LateInv, NEW m, NEW here, NEW field, NEW p,
           NEW there, there \notin {"setPwm", "decide"}, Read(m, here, field, p, there)
    PROVE  LateInv'
  BY PlainLate DEF Read, At, Goto, envVars

LEMMA TempsLate ==
    ASSUME RestTypes, LateInv, NEW m, NEW here,
           NEW there, there \notin {"setPwm", "decide"},
           \/ TakeTemps(m, here, there) \/ CopyTemps(m, here, there)
           \/ Status(m, here, there)
    PROVE  LateInv'
  BY PlainLate DEF TakeTemps, CopyTemps, Status, At, Goto, envVars

(* A mode that copies the temperatures of a hot cube is finished.          *)
LEMMA CopyLate ==
    ASSUME RestTypes, LateInv, Readings, NEW m \in BodyModes,
           CopyTemps(m, "info", "decide")
    PROVE  LateInv'
<1>1. /\ call.at = "out" /\ UNCHANGED <<vars, next, which, temp, late>>
      /\ mpc' = "decide" /\ mpc = "info" /\ which \in BodyModes
      /\ loc' = [loc EXCEPT !.info = temp]
  BY DEF CopyTemps, At, Goto, envVars
<1>2. loc.finish \in ValuesOf("FinishTemperature")
  BY <1>1 DEF Readings, HoldsFinish, AfterFinish
<1>3. loc'.finish = loc.finish /\ loc'.info = temp
  BY <1>1 DEF RestTypes
<1>4. Hot => Finished'
  BY <1>2, <1>3 DEF Hot, Finished
<1>5. Storing' => ~Hot
  BY <1>1, <1>4 DEF Storing, vars
<1> QED
  BY <1>1, <1>5, QuietLate

LEMMA DecideLate ==
    ASSUME RestTypes, LateInv, NEW m, DecideByCube(m) \/ DecideByColumn(m)
    PROVE  LateInv'
<1>1. CASE Suspend(m, "decide")
  BY <1>1, SuspendLate
<1>2. CASE ~Suspend(m, "decide")
  <2>1. /\ call.at = "out" /\ UNCHANGED <<vars, next, which, temp, late>>
        /\ mpc = "decide" /\ ~Finished /\ mode = "running"
    BY <1>2 DEF DecideByCube, DecideByColumn, At, Goto, envVars
  <2>2. Storing
    BY <2>1 DEF Storing
  <2> QED
    BY <2>1, <2>2, QuietLate
<1> QED
  BY <1>1, <1>2

LEMMA CubeLate ==
    ASSUME TypeOK, RestTypes, LateInv, Readings, PickingBodyByCubeTemperature
    PROVE  LateInv'
<1> DEFINE m == "pickingBodyByCubeTemperature"
<1>1. CASE \/ Read(m, "start", "decrease", "DecreasePickingTemperature", "finish")
           \/ Read(m, "finish", "finish", "FinishTemperature", "base")
           \/ Read(m, "base", "duty", "BodyPickingSpeed", "period")
           \/ Read(m, "period", "period", "ValvePeriod", "setPeriod")
  BY <1>1, ReadLate
<1>2. CASE TakeTemps(m, "temps", "info") \/ Status(m, "send", "start")
  BY <1>2, TempsLate
<1>3. CASE CopyTemps(m, "info", "decide")
  BY <1>3, CopyLate DEF BodyModes
<1>4. CASE DecideByCube(m)
  BY <1>4, DecideLate
<1>5. CASE SetPeriod(m, "setPeriod", loc.period, "temps")
  BY <1>5, EntryLate
<1>6. CASE SetPwm(m, "setPwm", loc.duty, "send")
  BY <1>6, EntryLate
<1> QED
  BY <1>1, <1>2, <1>3, <1>4, <1>5, <1>6 DEF PickingBodyByCubeTemperature

LEMMA ColumnLate ==
    ASSUME TypeOK, RestTypes, LateInv, Readings, PickingBodyByColumnTemperature
    PROVE  LateInv'
<1> DEFINE m == "pickingBodyByColumnTemperature"
<1>1. CASE \/ Read(m, "finish", "finish", "FinishTemperature", "base")
           \/ Read(m, "base", "duty", "BodyPickingSpeed", "period")
           \/ Read(m, "period", "period", "ValvePeriod", "setPeriod")
  BY <1>1, ReadLate
<1>2. CASE \/ TakeTemps(m, "start", "stable") \/ TakeTemps(m, "temps", "info")
           \/ Status(m, "send", "finish")
  BY <1>2, TempsLate
<1>3. CASE CopyTemps(m, "info", "decide")
  BY <1>3, CopyLate DEF BodyModes
<1>4. CASE DecideByColumn(m)
  BY <1>4, DecideLate
<1>5. CASE SetPeriod(m, "setPeriod", loc.period, "temps")
  BY <1>5, EntryLate
<1>6. CASE SetPwm(m, "setPwm", loc.duty, "send")
  BY <1>6, EntryLate
<1>7. CASE At(m, "stable") /\ Goto("finish") /\ UNCHANGED <<vars, next, envVars, late>>
  BY <1>7, PlainLate DEF At, Goto, envVars
<1> QED
  BY <1>1, <1>2, <1>3, <1>4, <1>5, <1>6, <1>7 DEF PickingBodyByColumnTemperature

LEMMA OtherModesLate ==
    ASSUME TypeOK, RestTypes, LateInv,
           TestOfHardware \/ BoostMode \/ SelfEmployment \/ PickingHeads
    PROVE  LateInv'
<1>1. CASE TestOfHardware
  <2>1. CASE SetPeriod("testOfHardware", "setPeriod", TestPeriod, "setPwm")
    BY <2>1, EntryLate DEF SetPeriod, At, BodyModes
  <2>2. CASE SetPwm("testOfHardware", "setPwm", 100, "end")
    BY <2>2, EntryLate
  <2> QED
    BY <1>1, <2>1, <2>2, TempsLate, SuspendLate DEF TestOfHardware
<1>2. CASE BoostMode
  BY <1>2, TempsLate DEF BoostMode
<1>3. CASE SelfEmployment
  BY <1>3, TempsLate, SuspendLate DEF SelfEmployment
<1>4. CASE PickingHeads
  <2>1. CASE SetPeriod("pickingHeads", "setPeriod", loc.period, "setPwm")
    BY <2>1, EntryLate DEF SetPeriod, At, BodyModes
  <2>2. CASE SetPwm("pickingHeads", "setPwm", loc.duty, "send")
    BY <2>2, EntryLate
  <2> QED
    BY <1>4, <2>1, <2>2, ReadLate, TempsLate DEF PickingHeads
<1> QED
  BY <1>1, <1>2, <1>3, <1>4

LEMMA LateStep ==
    ASSUME TypeOK, IndInv, ControlInv, Readings, LateInv, [StillNext]_allVars
    PROVE  LateInv'
<1>1. late \in Nat /\ One(Armed)' \in {0, 1} /\ One(Storing)' \in {0, 1}
      /\ One(Armed) \in {0, 1} /\ One(Storing) \in {0, 1} /\ RestTypes
  BY DEF ControlInv, RestTypes, LateBound, One
<1>2. CASE PanicOnDivision
  <2>1. ~Armed' /\ ~Storing' /\ call'.at = "out" /\ next' = "none"
    BY <1>2 DEF PanicOnDivision, Armed, Storing, Zeros, Lock, NoCall
  <2>2. which' = which /\ late' = late /\ which \in BodyModes /\ mode' = "absent"
    BY <1>2 DEF PanicOnDivision, At, BodyModes
  <2> QED
    BY <1>1, <2>1, <2>2 DEF LateInv, One
<1>3. ASSUME NEW m \in Modes, StopWorkingTask(m)
      PROVE  LateInv'
  <2>1. late' = 0 /\ mode' = "absent"
    BY <1>3 DEF StopWorkingTask, DeleteMode, vars
  <2>2. UNCHANGED <<which, mpc>> /\ ~Storing' /\ (call' = call \/ call' = NoCall)
    BY <1>3, <2>1 DEF StopWorkingTask, DeleteMode, vars, modeVars, Storing
  <2> QED
    BY <1>1, <2>1, <2>2 DEF LateInv, NoCall
<1>4. CASE CreateWorkingTask
  <2>1. late' = 0 /\ next' = "none"
    BY <1>4 DEF CreateWorkingTask, LateInv
  <2>2. call.at = "out" /\ call' = call
    BY <1>4 DEF CreateWorkingTask, LateInv, IndInv, CallerRuns, StartMode, vars
  <2> QED
    BY <1>1, <2>1, <2>2 DEF LateInv
<1>5. ASSUME NEW p \in Settings, StoreSetting(p)
      PROVE  LateInv'
  BY <1>5 DEF StoreSetting, LateInv, Hot, Armed, Storing, Finished, One, vars, valveVars,
     modeVars
<1>6. CASE PublishTemperature
  <2>1. UNCHANGED <<vars, next, which, mpc, loc>> /\ late' \in {late, 0}
        /\ (~Hot' => late' = 0)
    BY <1>6 DEF PublishTemperature, modeVars
  <2>2. Armed' = Armed /\ Storing' = Storing
    BY <2>1 DEF Armed, Storing, Finished, vars, valveVars
  <2>3. One(Armed)' = One(Armed) /\ One(Storing)' = One(Storing)
    BY <2>2 DEF One
  <2> QED
    BY <1>1, <2>1, <2>3 DEF LateInv, vars
<1>7. CASE UNCHANGED allVars
  BY <1>7 DEF allVars, stillVars, LateInv, Hot, Armed, Storing, Finished, One, vars,
     valveVars, modeVars, envVars
<1> QED
  BY <1>1, <1>2, <1>3, <1>4, <1>5, <1>6, <1>7, ValveLate, SetterLate, CubeLate,
     ColumnLate, OtherModesLate
  DEF StillNext, ModeProgram

-----------------------------------------------------------------------------
(* The theorems.                                                           *)

StillInv == TypeOK /\ IndInv /\ ControlInv /\ Readings /\ LateInv

LEMMA StillInvHolds == StillSpec => []StillInv
<1>1. StillInit => StillInv
  <2> SUFFICES ASSUME StillInit PROVE StillInv
    OBVIOUS
  <2>1. TypeOK /\ IndInv
    BY InitEstablishes DEF StillInit, Init, TypeOK, Zeros, Lock, NoCall, VpcStates
  <2>2. RestTypes
    BY NoLocalsType DEF StillInit, RestTypes, ModeNames, MpcStates, Settings,
       DefaultSetting, NoTemps, TempsType, LateBound
  <2>3. TempsInv /\ Readings
    BY ValuesAreNat DEF StillInit, Init, TempsInv, Readings, HoldsDecrease, HoldsFinish,
       BodyModes, AfterFinish
  <2>4. LateInv
    BY DEF StillInit, Init, LateInv, NoCall, BodyModes
  <2> QED
    BY <2>1, <2>2, <2>3, <2>4 DEF StillInv, ControlInv
<1>2. StillInv /\ [StillNext]_allVars => StillInv'
  BY StillKeepsValve, ControlStep, ReadingsStep, LateStep DEF StillInv, ControlInv
<1> QED
  BY <1>1, <1>2, PTL DEF StillSpec

(* What was shown of the valve under any mode holds under the six modes,   *)
(* with the dispatcher, the probes and the resets after a division by zero. *)
THEOREM StillValveCorrect ==
    StillSpec => [](MutexOwnership /\ PulseIsBounded /\ AtMostOnePulseAfterStop)
<1>1. StillInv => MutexOwnership /\ PulseIsBounded /\ AtMostOnePulseAfterStop
  BY PulseBound DEF StillInv, IndInv
<1> QED
  BY <1>1, StillInvHolds, PTL

(* The mutex of the temperatures is held by a live mode only inside        *)
(* getTemperatures, for any modes, settings and temperatures.              *)
THEOREM TemperatureMutexCorrect == StillSpec => []TemperatureMutexOwnership
<1>1. StillInv => TemperatureMutexOwnership
  BY DEF StillInv, ControlInv, RestTypes, TempsInv, Holding, StillTypeOK,
     TemperatureMutexOwnership
<1> QED
  BY <1>1, StillInvHolds, PTL

(* In a cube that is too hot for every finish temperature a body mode opens *)
(* the valve at most twice more, whatever the settings and the probes do.  *)
THEOREM LatePulsesCorrect == StillSpec => []AtMostTwoPulsesAfterFinish
<1>1. StillInv => AtMostTwoPulsesAfterFinish
  BY DEF StillInv, LateInv, ControlInv, RestTypes, LateBound, One,
     AtMostTwoPulsesAfterFinish
<1> QED
  BY <1>1, StillInvHolds, PTL
====
