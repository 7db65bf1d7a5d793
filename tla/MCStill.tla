---- MODULE MCStill ----
(* Four instances in one run: the client of the still picks heads, or the  *)
(* body by the cube, or by the column, or uses the modes that need no      *)
(* setting, and keeps to the settings and temperatures of that instance.   *)
EXTENDS MCStillControl

VARIABLE client

AllModes == {"testOfHardware", "boostMode", "selfEmployment", "pickingHeads"}
                \cup CubeModes \cup ColumnModes
AllSettings == [p \in Settings |-> HeadsSettings[p] \cup CubeSettings[p]
                                                   \cup ColumnSettings[p]]
AllCubeTemps == MCCubeTemps \cup MCHotCube

Instance ==
    [heads  |-> [modes |-> {"pickingHeads"}, settings |-> HeadsSettings,
                 cube |-> {0}, column |-> {0}],
     cube   |-> [modes |-> CubeModes, settings |-> CubeSettings,
                 cube |-> MCCubeTemps, column |-> {0}],
     column |-> [modes |-> ColumnModes, settings |-> ColumnSettings,
                 cube |-> MCHotCube, column |-> {0} \cup MCColumnTemps],
     other  |-> [modes |-> {"testOfHardware", "boostMode", "selfEmployment"},
                 settings |-> Unset, cube |-> {0}, column |-> {0}]]

Keeps(instance) ==
    /\ next \in instance.modes \cup {"none"}
    /\ \A p \in Settings :
          setting[p] \in instance.settings[p] \cup {DefaultSetting[p]}
    /\ temp.cube \in instance.cube
    /\ temp.column \in instance.column

MCInit == StillInit /\ client \in DOMAIN Instance
MCNext == UNCHANGED client /\ StillNext /\ Keeps(Instance[client])'
MCSpec == MCInit /\ [][MCNext]_<<allVars, client>> /\ StillFairness
====
