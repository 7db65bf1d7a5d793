---- MODULE OwbEnumeration ----
(***************************************************************************)
(* What the search of lib/esp32-owb/owb.c promises: each device of the bus *)
(* once, in the order of the codes, and then the end. After one disturbance *)
(* of the wire it may repeat or leave out devices, but makes none up; only *)
(* when the wire is disturbed badly may it find any code.                  *)
(***************************************************************************)
EXTENDS Integers, Sequences

CONSTANTS
    Codes,              \* all the codes a device could have
    Precedes(_, _)      \* their order

VARIABLES devices, found, ended, disturbed

vars == <<devices, found, ended, disturbed>>

Init == /\ found = <<>>
        /\ ended = FALSE
        /\ disturbed = "no"

Remaining == {d \in devices : \A i \in DOMAIN found : found[i] # d}

Least(S) == CHOOSE d \in S : \A e \in S \ {d} : Precedes(d, e)

(* What may be found next                                                  *)
Findable == CASE disturbed = "no" -> {d \in Remaining : d = Least(Remaining)}
              [] disturbed = "once" -> devices
              [] disturbed = "badly" -> Codes

Find == /\ ~ended
        /\ \E d \in Findable : found' = Append(found, d)
        /\ UNCHANGED <<devices, ended, disturbed>>

End == /\ ~ended
       /\ disturbed # "no" \/ Remaining = {}
       /\ ended' = TRUE
       /\ UNCHANGED <<devices, found, disturbed>>

(* A disturbance is never made good.                                       *)
Disturb == /\ disturbed # "badly"
           /\ disturbed' \in {"once", "badly"} \ {disturbed}
           /\ UNCHANGED <<devices, found, ended>>

Next == Find \/ End \/ Disturb

Spec == Init /\ [][Next]_vars
====
