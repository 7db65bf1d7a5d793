---- MODULE ParamsStorageProofs ----
(***************************************************************************)
(* Theorems about ParamsStorage, and about WifiController on top of it, for *)
(* every set of settings and every value a client can ask for.             *)
(***************************************************************************)
EXTENDS WifiController, TLAPS

(* Every range is a set of natural numbers and contains its default.       *)
LEMMA Ranges ==
    \A p \in Params : /\ PreParameterRange[p] \subseteq Nat
                      /\ DefaultValue[p] \in PreParameterRange[p]
<1> SUFFICES ASSUME NEW p \in PreParamNames
             PROVE  /\ PreParameterRange[p] \subseteq Nat
                    /\ DefaultValue[p] \in PreParameterRange[p]
  BY ParamsAssumption
<1>1. CASE p = "WifiMode"
  BY <1>1 DEF PreParameterRange, DefaultValue
<1>2. CASE p = "HeadPickingSpeed"
  BY <1>2 DEF PreParameterRange, DefaultValue
<1>3. CASE p = "BodyPickingSpeed"
  BY <1>3 DEF PreParameterRange, DefaultValue
<1>4. CASE p = "FinishTemperature"
  BY <1>4 DEF PreParameterRange, DefaultValue
<1>5. CASE p = "ValvePickingSpeed"
  BY <1>5 DEF PreParameterRange, DefaultValue
<1>6. CASE p = "HimselfWorkingTime"
  BY <1>6 DEF PreParameterRange, DefaultValue
<1>7. CASE p = "ValvePeriod"
  BY <1>7 DEF PreParameterRange, DefaultValue
<1>8. CASE p = "DeltaTemperature"
  BY <1>8 DEF PreParameterRange, DefaultValue
<1>9. CASE p = "DecreasePickingTemperature"
  BY <1>9 DEF PreParameterRange, DefaultValue
<1>10. CASE p = "CoolingActivationTemperature"
  BY <1>10 DEF PreParameterRange, DefaultValue
<1> QED
  BY <1>1, <1>2, <1>3, <1>4, <1>5, <1>6, <1>7, <1>8, <1>9, <1>10
     DEF PreParamNames

(* What a read returns is in the range of its setting.                     *)
LEMMA ReadInRange ==
    ASSUME TypeOK, NEW p \in Params, NEW value \in GetPreParameter(p)
    PROVE  value \in PreParameterRange[p]
  BY Ranges DEF TypeOK, GetPreParameter

(* While a write is past its range check its value is in range; after the  *)
(* write and before the answer the new value is what readers see; nothing  *)
(* is in progress before the boot; the reads of a pair are in range.       *)
RequestInv ==
    /\ req.at \in {"open", "set", "commit"} =>
          req.value \in PreParameterRange[req.param]
    /\ req.at = "commit" => /\ visible[req.param] = req.value
                            /\ acked[req.param] = NotSet
    /\ req.ok => /\ req.at = "answer"
                 /\ visible[req.param] = req.value
                 /\ durable[req.param] = req.value
                 /\ req.value \in PreParameterRange[req.param]
    /\ sys = "booting" => req.at = "idle"

PairInv ==
    /\ pair.at \in {"decrease", "both"} =>
          pair.decrease \in PreParameterRange[Decrease]
    /\ pair.at = "both" => pair.finish \in PreParameterRange[Finish]

IndInv == TypeOK /\ RequestInv /\ PairInv /\ AckedIsDurable

LEMMA InitEstablishes == Init => IndInv
  BY NotSetAssumption, ParamsAssumption
     DEF Init, IndInv, TypeOK, RequestInv, PairInv, AckedIsDurable, Nothing,
         NoReq, NoPair, Finish

(* A reset keeps, setting by setting, the visible or the durable value; of *)
(* an acknowledged setting these are the same.                             *)
LEMMA ResetPreserves ==
    ASSUME IndInv, Reset, nvs' \in {"good", "truncated"}
    PROVE  IndInv'
<1> USE DEF IndInv
<1>1. PICK flashed \in SUBSET Params :
        visible' = [p \in Params |-> IF p \in flashed THEN visible[p]
                                                      ELSE durable[p]]
  BY DEF Reset
<1>2. TypeOK'
  BY <1>1, ParamsAssumption DEF Reset, TypeOK, NoReq, NoPair, Finish
<1>3. RequestInv' /\ PairInv'
  BY DEF Reset, RequestInv, PairInv, NoReq, NoPair
<1>4. AckedIsDurable'
  BY <1>1 DEF Reset, AckedIsDurable
<1> QED
  BY <1>2, <1>3, <1>4

LEMMA BootPreserves ==
    ASSUME IndInv, Boot
    PROVE  IndInv'
  BY NotSetAssumption, ParamsAssumption
     DEF Boot, IndInv, TypeOK, RequestInv, PairInv, AckedIsDurable, Nothing,
         NoReq

(* The dispatcher's write, step by step.                                   *)
LEMMA WritePreserves ==
    ASSUME IndInv,
           \/ \E p \in Params, v \in Values : SetPreParameter(p, v)
           \/ OpenStorage \/ NvsSet \/ NvsCommit \/ SendAck
    PROVE  IndInv'
<1> USE DEF IndInv, TypeOK, RequestInv, PairInv, AckedIsDurable
<1>1. ASSUME NEW p \in Params, NEW v \in Values, SetPreParameter(p, v)
      PROVE  IndInv'
  <2> USE <1>1 DEF SetPreParameter
  <2>1. TypeOK'
    BY ValuesAssumption
  <2>2. RequestInv'
    BY DEF NoReq
  <2>3. PairInv' /\ AckedIsDurable'
    OBVIOUS
  <2> QED
    BY <2>1, <2>2, <2>3
<1>2. CASE OpenStorage
  <2> USE <1>2 DEF OpenStorage, Answer
  <2>1. TypeOK'
    OBVIOUS
  <2>2. RequestInv'
    BY DEF NoReq
  <2>3. PairInv' /\ AckedIsDurable'
    OBVIOUS
  <2> QED
    BY <2>1, <2>2, <2>3
<1>3. CASE NvsSet
  <2>1. req.param \in Params /\ req.value \in PreParameterRange[req.param]
    BY <1>3 DEF NvsSet
  <2>2. req.value \in Nat
    BY <2>1, Ranges
  <2>3. CASE req' = [req EXCEPT !.at = "commit"]
    <3>1. TypeOK'
      BY <1>3, <2>1, <2>2, <2>3 DEF NvsSet, Answer
    <3>2. RequestInv'
      BY <1>3, <2>1, <2>3 DEF NvsSet, Answer, NoReq
    <3>3. PairInv' /\ AckedIsDurable'
      BY <1>3, <2>1, <2>3 DEF NvsSet, Answer
    <3> QED
      BY <3>1, <3>2, <3>3
  <2>4. CASE Answer(FALSE) /\ UNCHANGED <<visible, acked>>
    BY <1>3, <2>4 DEF NvsSet, Answer, NoReq
  <2> QED
    BY <1>3, <2>3, <2>4 DEF NvsSet
<1>4. CASE NvsCommit
  <2>1. CASE Answer(FALSE) /\ UNCHANGED durable
    BY <1>4, <2>1 DEF NvsCommit, Answer, NoReq
  <2>2. CASE /\ durable' = [durable EXCEPT ![req.param] = visible[req.param]]
             /\ Answer(TRUE)
    <3>1. TypeOK'
      BY <1>4, <2>2 DEF NvsCommit, Answer
    <3>2. RequestInv'
      BY <1>4, <2>2 DEF NvsCommit, Answer, NoReq
    <3>3. PairInv' /\ AckedIsDurable'
      BY <1>4, <2>2 DEF NvsCommit, Answer
    <3> QED
      BY <3>1, <3>2, <3>3
  <2> QED
    BY <1>4, <2>1, <2>2 DEF NvsCommit
<1>5. CASE SendAck
  BY <1>5, ParamsAssumption DEF SendAck, NoReq, Finish
<1> QED
  BY <1>1, <1>2, <1>3, <1>4, <1>5

(* The mode's two reads.                                                   *)
LEMMA ReadPreserves ==
    ASSUME IndInv, ReadDecrease \/ ReadFinish \/ NextRound
    PROVE  IndInv'
<1> USE DEF IndInv, TypeOK, RequestInv, PairInv, AckedIsDurable
<1>1. Decrease \in Params /\ Finish \in Params
  BY ParamsAssumption DEF Decrease, Finish
<1>2. CASE ReadDecrease
  <2>1. PICK value \in GetPreParameter(Decrease) :
          pair' = [pair EXCEPT !.decrease = value, !.at = "decrease"]
    BY <1>2 DEF ReadDecrease
  <2>2. value \in PreParameterRange[Decrease] /\ value \in Nat
    BY <1>1, ReadInRange, Ranges
  <2> QED
    BY <1>2, <2>1, <2>2 DEF ReadDecrease
<1>3. CASE ReadFinish
  <2>1. PICK value \in GetPreParameter(Finish) :
          pair' = [pair EXCEPT !.finish = value, !.at = "both"]
    BY <1>3 DEF ReadFinish
  <2>2. value \in PreParameterRange[Finish] /\ value \in Nat
    BY <1>1, ReadInRange, Ranges
  <2> QED
    BY <1>3, <2>1, <2>2 DEF ReadFinish
<1>4. CASE NextRound
  BY <1>4 DEF NextRound, NoPair
<1> QED
  BY <1>2, <1>3, <1>4

(* Types and ranges, the write in progress, the pair of reads and the      *)
(* acknowledged values hold together in every reachable state.             *)
THEOREM IndInvCorrect == Spec => []IndInv
<1>1. IndInv /\ [Next]_vars => IndInv'
  <2> SUFFICES ASSUME IndInv, [Next]_vars
               PROVE  IndInv'
    OBVIOUS
  <2>1. CASE Crash
    BY <2>1, ResetPreserves DEF Crash, IndInv, TypeOK
  <2>2. CASE Reflash
    BY <2>2, ResetPreserves DEF Reflash
  <2>3. CASE UNCHANGED vars
    BY <2>3 DEF vars, IndInv, TypeOK, RequestInv, PairInv, AckedIsDurable
  <2> QED
    BY <2>1, <2>2, <2>3, BootPreserves, WritePreserves, ReadPreserves DEF Next
<1> QED
  BY <1>1, InitEstablishes, PTL DEF Spec

(* An acknowledged setting is visible and survives any number of resets.   *)
THEOREM AckedSettingsSurvive == Spec => []AckedIsDurable
<1>1. IndInv => AckedIsDurable
  BY DEF IndInv
<1> QED
  BY <1>1, IndInvCorrect, PTL

(* The band a mode computes its duty from is never negative.               *)
THEOREM BandCorrect == Spec => []BandIsNotNegative
<1>1. IndInv => BandIsNotNegative
  <2> SUFFICES ASSUME IndInv, pair.at = "both"
               PROVE  pair.decrease <= pair.finish
    BY DEF BandIsNotNegative
  <2>1. pair.decrease \in 75..85 /\ pair.finish \in 85..100
    BY DEF IndInv, PairInv, PreParameterRange, Decrease, Finish
  <2> QED
    BY <2>1
<1> QED
  BY <1>1, IndInvCorrect, PTL

-----------------------------------------------------------------------------
(* The wifi over the storage: every step of the two together is a step of  *)
(* the storage or leaves it as it is, so what was shown above holds here   *)
(* too; and the radio follows the stored mode.                             *)

LEMMA StorageStep == ASSUME [WifiNext]_allVars PROVE [Next]_vars
  BY DEF WifiNext, allVars, AppMain, AckAndRestart, ModeReads, Storage, Next,
         Restart, GetWifiMode, InitialiseWifi, StartAsAccessPoint,
         StartAsClientMode, SetConfig

(* The storage with the wifi implements the storage alone.                 *)
THEOREM WifiImplementsStorage == WifiSpec => Spec
<1>1. WifiInit => Init
  BY DEF WifiInit
<1> QED
  BY <1>1, StorageStep, PTL DEF WifiSpec, Spec

(* Acknowledged settings survive in the system with the wifi as well.      *)
THEOREM AckedSurviveWithWifi == WifiSpec => []AckedIsDurable
  BY WifiImplementsStorage, AckedSettingsSurvive, PTL

Current == WifiIs(visible["WifiMode"])
Pending == req.param = "WifiMode" /\ req.at \in {"commit", "answer"}

(* The dispatcher takes no request while it restarts the wifi; until the   *)
(* restart is over it has read the current mode; after it the radio is in   *)
(* that mode unless a new Set of WifiMode is on its way.                   *)
WifiInv ==
    /\ WifiTypeOK
    /\ at # "done" => req.at = "idle"
    /\ at \notin {"booting", "read"} /\ ~fellBack =>
          mode = Current \/ (at = "done" /\ Pending)
    /\ at = "access point" => mode = 1
    /\ at = "client" => mode # 1
    /\ at \in {"config", "done"} /\ ApPasswordLength \notin 1..7 =>
          radio = RadioFor(mode)

LEMMA WifiModeRange ==
    \A v \in PreParameterRange["WifiMode"] : v \in {0, 1}
  BY DEF PreParameterRange

LEMMA RestartPreserves ==
    ASSUME IndInv, WifiInv, Restart
    PROVE  WifiInv'
<1> USE DEF WifiInv, WifiTypeOK, Current, Pending, vars
<1>1. CASE GetWifiMode
  <2>1. mode' \in PreParameterRange["WifiMode"]
    BY <1>1, ReadInRange, WifiAssumption DEF GetWifiMode, IndInv
  <2>2. mode' \in {0, 1}
    BY <2>1, WifiModeRange
  <2> QED
    BY <1>1, <2>2 DEF GetWifiMode
<1>2. CASE InitialiseWifi
  BY <1>2 DEF InitialiseWifi
<1>3. CASE StartAsAccessPoint
  BY <1>3 DEF StartAsAccessPoint, RadioFor
<1>4. CASE StartAsClientMode
  BY <1>4 DEF StartAsClientMode, RadioFor
<1>5. CASE SetConfig
  BY <1>5 DEF SetConfig
<1> QED
  BY <1>1, <1>2, <1>3, <1>4, <1>5 DEF Restart

LEMMA StoragePreserves ==
    ASSUME IndInv, WifiInv, DispatcherFree /\ Storage /\ UNCHANGED wifiVars
    PROVE  WifiInv'
<1> USE DEF WifiInv, WifiTypeOK, Current, Pending, wifiVars, DispatcherFree,
            IndInv, TypeOK
<1>1. CASE \E p \in Params, v \in Values : SetPreParameter(p, v)
  BY <1>1 DEF SetPreParameter
<1>2. CASE OpenStorage
  BY <1>2 DEF OpenStorage, Answer
<1>3. CASE NvsSet
  <2>1. CASE req.param = "WifiMode"
    BY <1>3, <2>1 DEF NvsSet, Answer
  <2>2. CASE req.param # "WifiMode"
    BY <1>3, <2>2, WifiAssumption DEF NvsSet, Answer
  <2> QED
    BY <2>1, <2>2
<1>4. CASE NvsCommit
  BY <1>4 DEF NvsCommit, Answer
<1> QED
  BY <1>1, <1>2, <1>3, <1>4 DEF Storage

LEMMA CallersPreserve ==
    ASSUME IndInv, WifiInv,
           \/ AppMain
           \/ (Crash \/ Reflash) /\ WifiOff
           \/ AckAndRestart
           \/ TasksRun /\ ModeReads /\ UNCHANGED wifiVars
    PROVE  WifiInv'
<1> USE DEF WifiInv, Current, Pending
<1>1. CASE AppMain
  BY <1>1 DEF AppMain, Boot, IndInv, RequestInv, WifiTypeOK
<1>2. CASE (Crash \/ Reflash) /\ WifiOff
  <2>1. WifiTypeOK'
    <3>1. WifiOff
      BY <1>2
    <3> QED
      BY <3>1, Zenon DEF WifiOff, WifiTypeOK
  <2>2. at' = "booting" /\ req' = NoReq
    BY <1>2, Zenon DEF Crash, Reflash, Reset, WifiOff
  <2>3. at' \notin {"done", "access point", "client", "config"}
    BY <2>2
  <2> QED
    BY <2>1, <2>2, <2>3 DEF NoReq
<1>3. CASE AckAndRestart
  BY <1>3 DEF AckAndRestart, SendAck, NoReq, Finish, WifiTypeOK
<1>4. CASE TasksRun /\ ModeReads /\ UNCHANGED wifiVars
  BY <1>4 DEF ModeReads, ReadDecrease, ReadFinish, NextRound, wifiVars, WifiTypeOK
<1> QED
  BY <1>1, <1>2, <1>3, <1>4

(* A client that was cut off by a switch, or comes after a reset, finds    *)
(* the wifi in the mode the storage shows, whatever failed on the way.     *)
THEOREM WifiFollows == WifiSpec => []WifiFollowsStorage
<1>1. WifiSpec => []IndInv
  BY WifiImplementsStorage, IndInvCorrect, PTL
<1>2. WifiInit => WifiInv
  <2>1. WifiInit => WifiTypeOK
    BY Zenon DEF WifiInit, WifiTypeOK
  <2> QED
    BY <2>1 DEF WifiInit, Init, NoReq, WifiInv
<1>3. IndInv /\ WifiInv /\ [WifiNext]_allVars => WifiInv'
  <2> SUFFICES ASSUME IndInv, WifiInv, [WifiNext]_allVars
               PROVE  WifiInv'
    OBVIOUS
  <2>1. CASE UNCHANGED allVars
    BY <2>1 DEF allVars, vars, wifiVars, WifiInv, WifiTypeOK, Current, Pending
  <2> QED
    BY <2>1, RestartPreserves, StoragePreserves, CallersPreserve DEF WifiNext
<1>4. IndInv /\ WifiInv => WifiFollowsStorage
  BY DEF WifiInv, WifiFollowsStorage, Current, Pending
<1> QED
  BY <1>1, <1>2, <1>3, <1>4, PTL DEF WifiSpec
====
