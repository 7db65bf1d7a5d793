---- MODULE MCParamsStorage ----
(* The two settings whose ranges meet at 85 and the one that restarts the  *)
(* wifi: the bounds of each range, and values outside of it.               *)
EXTENDS WifiController

CONSTANT none
MCParams == {Decrease, Finish, "WifiMode"}
MCValues == {0, 1, 75, 85, 86}
====
