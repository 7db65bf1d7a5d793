---- MODULE ValvePromise ----
(***************************************************************************)
(* What the valve controller promises the rest of the still, without its   *)
(* cells, mutexes and duty-cycle arithmetic.  A working mode that runs may *)
(* arm the valve; an armed valve may open once; an open valve closes.  An  *)
(* opening uses up the arming, so a mode that is stopped leaves at most    *)
(* the one opening it armed before it was stopped.                         *)
(***************************************************************************)
EXTENDS Naturals

VARIABLES
    running,    \* a working mode is running
    armed,      \* a duty is waiting for the valve task
    gpio        \* level of the valve's output pin

vars == <<running, armed, gpio>>

Init == /\ running = FALSE
        /\ armed = FALSE
        /\ gpio = 0

Start == /\ ~running
         /\ running' = TRUE
         /\ UNCHANGED <<armed, gpio>>

Stop == /\ running
        /\ running' = FALSE
        /\ UNCHANGED <<armed, gpio>>

(* Only a running mode arms the valve, and only between two pulses: a      *)
(* request that arrives during a pulse is lost.                            *)
Arm == /\ running
       /\ gpio = 0
       /\ armed' = TRUE
       /\ UNCHANGED <<running, gpio>>

Disarm == /\ running
          /\ armed' = FALSE
          /\ UNCHANGED <<running, gpio>>

Open == /\ armed
        /\ gpio = 0
        /\ gpio' = 1
        /\ armed' = FALSE
        /\ UNCHANGED running

Close == /\ gpio = 1
         /\ gpio' = 0
         /\ UNCHANGED <<running, armed>>

Next == Start \/ Stop \/ Arm \/ Disarm \/ Open \/ Close

SafetySpec == Init /\ [][Next]_vars

Spec == SafetySpec /\ WF_vars(Close)
====
