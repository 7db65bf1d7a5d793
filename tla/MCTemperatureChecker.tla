---- MODULE MCTemperatureChecker ----
(* Two probes, powered up at the lowest resolution and set to the highest,  *)
(* with one fault.                                                         *)
EXTENDS TemperatureChecker

MCProbes == 1..2
MCPowerOnBits == {9}
MCUsers == {"checker", "mode"}
MCReadTicks == {2}
MCLapses == {0, 45}
====
