---- MODULE MCStillControl ----
(* Instances of StillControl, one per kind of run. A set that is empty     *)
(* leaves a setting at its default or a probe silent.                      *)
EXTENDS StillControl

MCUintMod == 8000000
MCNoTemps == {}
MCPercents == {}
MCPeriods == {}

Unset == [p \in Settings |-> {}]

(* Heads: the speed is 0 or its default, and in the other instance the     *)
(* period changes.                                                         *)
HeadsSettings == [Unset EXCEPT !.HeadPickingSpeed = {0, 10}]
PeriodModes == {"pickingHeads"}
PeriodSettings == [Unset EXCEPT !.HeadPickingSpeed = {50},
                                !.ValvePeriod = {1000}]

(* The body by cube temperature: below, at and inside the band, and above  *)
(* every finish; a base whose double is refused (60) and the default, 50,  *)
(* whose double is not.                                                    *)
CubeModes == {"pickingBodyByCubeTemperature"}
CubeSettings == [Unset EXCEPT !.BodyPickingSpeed = {60},
                              !.FinishTemperature = {85}]
MCCubeTemps == {0, 850, 872, 931}

(* The body by column temperature: just inside and beyond half a degree.   *)
ColumnModes == {"pickingBodyByColumnTemperature"}
ColumnSettings == Unset
MCHotCube == {0, 931}
MCColumnTemps == {780, 784}
====
