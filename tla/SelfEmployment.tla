---- MODULE SelfEmployment ----
(***************************************************************************)
(* selfEmployment of src/src/operationModes.c (lines 66-80): the still     *)
(* "works on itself" until a number of ticks has passed, then beeps and    *)
(* suspends itself. The tick counter is an unsigned integer that wraps.    *)
(***************************************************************************)
EXTENDS Integers

CONSTANTS
    Minutes,    \* values of the setting HimselfWorkingTime
    TickMod,    \* 2^32 on the ESP32: the modulus of portTickType
    StartTicks, \* values of the tick counter when the mode is created
    TickMs,     \* portTICK_RATE_MS: milliseconds in a tick
    MaxLag      \* ticks by which the task may be late after its delay

ASSUME MinutesAssumption == Minutes \subseteq Nat \ {0}
ASSUME TickAssumption == /\ TickMod \in Nat \ {0}
                         /\ TickMs \in Nat \ {0}
                         /\ StartTicks \subseteq 0..TickMod - 1
ASSUME LagAssumption == MaxLag \in Nat

VARIABLES
    tick,       \* xTaskGetTickCount()
    minutes,    \* himselfWorkingTime
    lastTick,   \* LastTick
    elapsed,    \* history: the ticks since lastTick, never wrapped
    at          \* "check", "delay", or "suspended"

vars == <<tick, minutes, lastTick, elapsed, at>>

(* himselfWorkingTime * 60 * portTICK_RATE_MS. A second has 1000 \div TickMs *)
(* ticks, so that with 10 ms this is a tenth of the minutes of the setting. *)
TimeInTicks(m) == (m * 60 * TickMs) % TickMod

(* 500 / portTICK_RATE_MS *)
DelayTicks == 500 \div TickMs

(* Where the history variable elapsed stops counting.                      *)
ElapsedBound(m) == TimeInTicks(m) + DelayTicks + MaxLag + 1

(* One round of the loop fits into what the counter can still tell apart.  *)
ASSUME NoLap == \A m \in Minutes : ElapsedBound(m) < TickMod

Init == /\ tick \in StartTicks
        /\ minutes \in Minutes
        /\ lastTick = tick
        /\ elapsed = 0
        /\ at = "check"

(* Mutant: the tick is compared with a deadline, and both may have wrapped. *)
TimeIsUp_deadline == tick > (lastTick + TimeInTicks(minutes)) % TickMod

(* The difference of two unsigned ticks.                                   *)
TimeIsUp == (tick - lastTick) % TickMod > TimeInTicks(minutes)

Finish == /\ at = "check"
          /\ TimeIsUp
          /\ at' = "suspended"
          /\ UNCHANGED <<tick, minutes, lastTick, elapsed>>

GoOn == /\ at = "check"
        /\ ~TimeIsUp
        /\ at' = "delay"
        /\ UNCHANGED <<tick, minutes, lastTick, elapsed>>

Delay == /\ at = "delay"
         /\ \E passed \in DelayTicks..DelayTicks + MaxLag :
               /\ tick' = (tick + passed) % TickMod
               /\ elapsed' = IF elapsed + passed < ElapsedBound(minutes)
                               THEN elapsed + passed ELSE ElapsedBound(minutes)
         /\ at' = "check"
         /\ UNCHANGED <<minutes, lastTick>>

Next == Finish \/ GoOn \/ Delay

Spec == Init /\ [][Next]_vars /\ WF_vars(Next)

-----------------------------------------------------------------------------
(* Properties.                                                             *)

(* The mode ends after the ticks it computed and at most one delay later,  *)
(* wherever the tick counter was when it started: the wrap of the counter  *)
(* neither ends it early nor starts its time anew (operationModes.c 73).   *)
EndsOnItsTick ==
    at = "suspended" =>
        elapsed - TimeInTicks(minutes) \in 1..DelayTicks + MaxLag
====
