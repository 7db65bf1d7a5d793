---- MODULE MCValveController ----
(* A small instance: duties at and beyond both ends of the range, no       *)
(* period (0) and two real ones, one shorter than the other's open time.   *)
EXTENDS ValveController

MCPercents == {0, 50, 100, 200}
MCPeriods == {0, 1000, 8000}
MCUintMod == 8000000
====
