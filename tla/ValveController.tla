---- MODULE ValveController ----
(***************************************************************************)
(* src/src/valveController.c: the task that pulses the still's valve, the  *)
(* two cells it shares with the working mode and the mutex around each.    *)
(*                                                                         *)
(* The valve task is never deleted, so a getter it calls, or its reset of  *)
(* the duty, is one step that needs the mutex free.  The working mode may  *)
(* be deleted by the dispatcher between any two steps, inside a setter     *)
(* included, so a setter is the steps take, write and give.                *)
(***************************************************************************)
EXTENDS Integers, FiniteSets

CONSTANTS
    Percents,   \* arguments of setValvePWM the modes can pass
    Periods,    \* arguments of setValvePeriodMillisec the modes can pass
    UintMod     \* 2^32 on the ESP32: the modulus of unsigned int

ASSUME PercentsAssumption == Percents \subseteq Nat
ASSUME PeriodsAssumption == Periods \subseteq Nat
ASSUME UintModAssumption == UintMod \in Nat \ {0}

VARIABLES
    cell,       \* valve_pwm_percents and valve_cycle_period_ms
    mutex,      \* who holds each cell's mutex: "free", "mode", or "deleted"
    gpio,       \* level of VALVE_GPIO_PIN
    vpc,        \* where the valve task is in its loop
    todo,       \* getters of line 77 the valve task has still to call
    got,        \* what the getters of line 77 returned
    low,        \* low_output_period
    mode,       \* the working mode's task
    call,       \* the setter the working mode is in
    stale       \* history: openings since the mode stopped running

valveVars == <<gpio, vpc, todo, got, low>>
vars == <<cell, mutex, valveVars, mode, call, stale>>

Lock == {"pwm", "period"}
StaleBound == 2     \* where the history variable stale stops counting
NoCall == [lock |-> "pwm", arg |-> 0, at |-> "out"]
Zeros == [l \in Lock |-> 0]

(* line 77: unsigned multiplication and division, then the conversion to   *)
(* float, exact below 2^24.                                                *)
High == ((got["period"] * got["pwm"]) % UintMod) \div 100

(* The float-to-uint32_t conversion of a delay.  A negative value is       *)
(* undefined in C: the value wraps, or the conversion saturates.           *)
UintOfFloat(x) == IF x >= 0 THEN {x} ELSE {x % UintMod, 0, UintMod \div 2}

Init == /\ cell = Zeros
        /\ mutex = [l \in Lock |-> "free"]
        /\ gpio = 0
        /\ vpc = "check"
        /\ todo = {}
        /\ got = Zeros
        /\ low = 0
        /\ mode = "absent"
        /\ call = NoCall
        /\ stale = 0

-----------------------------------------------------------------------------
(* The valve task. A check that finds the duty 0 sleeps and changes nothing. *)

CheckPwm == /\ vpc = "check"
            /\ mutex["pwm"] = "free"
            /\ cell["pwm"] # 0
            /\ vpc' = "duty"
            /\ todo' = Lock
            /\ UNCHANGED <<cell, mutex, gpio, got, low, mode, call, stale>>

(* C leaves the order of the two calls of line 77 open.                    *)
GetDuty(l) == /\ vpc = "duty"
              /\ l \in todo
              /\ mutex[l] = "free"
              /\ got' = [got EXCEPT ![l] = cell[l]]
              /\ todo' = todo \ {l}
              /\ vpc' = IF todo' = {} THEN "low" ELSE "duty"
              /\ UNCHANGED <<cell, mutex, gpio, low, mode, call, stale>>

GetLow == /\ vpc = "low"
          /\ mutex["period"] = "free"
          /\ low' \in UintOfFloat(cell["period"] - High)
          /\ vpc' = "open"
          /\ UNCHANGED <<cell, mutex, gpio, todo, got, mode, call, stale>>

OpenValve == /\ vpc = "open"
             /\ gpio' = 1
             /\ vpc' = "opened"
             /\ stale' = IF mode # "running" /\ stale < StaleBound
                           THEN stale + 1 ELSE stale
             /\ UNCHANGED <<cell, mutex, todo, got, low, mode, call>>

(* Mutant: the valve is closed under the duty's mutex.                     *)
CloseValve_locked == /\ vpc = "opened"
                     /\ mutex["pwm"] = "free"
                     /\ gpio' = 0
                     /\ vpc' = "closed"
                     /\ UNCHANGED <<cell, mutex, todo, got, low, mode, call, stale>>

CloseValve == /\ vpc = "opened"
              /\ gpio' = 0
              /\ vpc' = "closed"
              /\ UNCHANGED <<cell, mutex, todo, got, low, mode, call, stale>>

(* Mutant: the duty is not used up by its cycle.                           *)
ResetPwm_missing == /\ vpc = "closed"
                    /\ mutex["pwm"] = "free"
                    /\ vpc' = "check"
                    /\ got' = Zeros
                    /\ low' = 0
                    /\ UNCHANGED <<cell, mutex, gpio, todo, mode, call, stale>>

(* setValvePWM(0), called by the valve task itself; the locals of the      *)
(* iteration end with it.                                                  *)
ResetPwm == /\ vpc = "closed"
            /\ mutex["pwm"] = "free"
            /\ cell' = [cell EXCEPT !["pwm"] = 0]
            /\ vpc' = "check"
            /\ got' = Zeros
            /\ low' = 0
            /\ UNCHANGED <<mutex, gpio, todo, mode, call, stale>>

ValveStep == \/ CheckPwm
             \/ \E l \in Lock : GetDuty(l)
             \/ GetLow
             \/ OpenValve
             \/ CloseValve
             \/ ResetPwm

-----------------------------------------------------------------------------
(* The working mode's calls of the setters.                                *)

BeginSet(l, value) == /\ mode = "running"
                      /\ call.at = "out"
                      /\ call' = [lock |-> l, arg |-> value, at |-> "take"]
                      /\ UNCHANGED <<cell, mutex, valveVars, mode, stale>>

(* Mutant: no range check on the duty.                                     *)
SetValvePWM_unchecked(percents) == BeginSet("pwm", percents)

SetValvePWM(percents) == percents <= 100 /\ BeginSet("pwm", percents)

SetValvePeriodMillisec(ms) == ms > 0 /\ BeginSet("period", ms)

TakeMutex == /\ call.at = "take"
             /\ mutex[call.lock] = "free"
             /\ mutex' = [mutex EXCEPT ![call.lock] = "mode"]
             /\ call' = [call EXCEPT !.at = "write"]
             /\ UNCHANGED <<cell, valveVars, mode, stale>>

StoreValue == /\ call.at = "write"
              /\ cell' = [cell EXCEPT ![call.lock] = call.arg]
              /\ call' = [call EXCEPT !.at = "give"]
              /\ UNCHANGED <<mutex, valveVars, mode, stale>>

(* Mutant: the mutex of the other cell is given back.                      *)
GiveMutex_other == /\ call.at = "give"
                   /\ mutex' = [l \in Lock |-> IF l = call.lock THEN mutex[l]
                                                                ELSE "free"]
                   /\ call' = NoCall
                   /\ UNCHANGED <<cell, valveVars, mode, stale>>

GiveMutex == /\ call.at = "give"
             /\ mutex' = [mutex EXCEPT ![call.lock] = "free"]
             /\ call' = NoCall
             /\ UNCHANGED <<cell, valveVars, mode, stale>>

ModeStep == \/ \E pct \in Percents : SetValvePWM(pct)
            \/ \E ms \in Periods : SetValvePeriodMillisec(ms)
            \/ TakeMutex
            \/ StoreValue
            \/ GiveMutex

-----------------------------------------------------------------------------
(* The life of the working mode's task.                                    *)

StartMode == /\ mode = "absent"
             /\ mode' = "running"
             /\ stale' = 0
             /\ UNCHANGED <<cell, mutex, valveVars, call>>

(* vTaskSuspend(NULL): the mode stops itself, outside any setter.          *)
SuspendMode == /\ mode = "running"
               /\ call.at = "out"
               /\ mode' = "suspended"
               /\ UNCHANGED <<cell, mutex, valveVars, call, stale>>

(* vTaskDelete of another task: a mutex it holds is never given back.      *)
DeleteMode == /\ mode # "absent"
              /\ mode' = "absent"
              /\ call' = NoCall
              /\ mutex' = [l \in Lock |->
                            IF mutex[l] = "mode" THEN "deleted" ELSE mutex[l]]
              /\ UNCHANGED <<cell, valveVars, stale>>

Next == ValveStep \/ ModeStep \/ StartMode \/ SuspendMode \/ DeleteMode

(* The valve task has a higher priority than the working mode, which       *)
(* sleeps 500 ms between two rounds of setters: it gets a mutex it asks    *)
(* for again and again.  A task inside a setter is ready and runs on.      *)
Fairness == /\ SF_vars(ValveStep)
            /\ WF_vars(StoreValue \/ GiveMutex)

SafetySpec == Init /\ [][Next]_vars
Spec == SafetySpec /\ Fairness

-----------------------------------------------------------------------------
(* Properties.                                                             *)

VpcStates == {"check", "duty", "low", "open", "opened", "closed"}

(* Every variable keeps its type (the cells and locals are unsigned int).  *)
TypeOK ==
    /\ cell \in [Lock -> Nat]
    /\ mutex \in [Lock -> {"free", "mode", "deleted"}]
    /\ gpio \in {0, 1}
    /\ vpc \in VpcStates
    /\ todo \in SUBSET Lock
    /\ got \in [Lock -> Nat]
    /\ low \in Nat
    /\ mode \in {"absent", "running", "suspended"}
    /\ call \in [lock : Lock, arg : Nat, at : {"out", "take", "write", "give"}]
    /\ stale \in Nat

(* A mutex is held by the mode exactly while a running mode is between the *)
(* take and the give of that cell's setter (valveController.c 92-95 and    *)
(* 112-115): no path leaves a setter, or a task's life, with a mutex       *)
(* marked as held by a live mode.                                          *)
MutexOwnership ==
    \A l \in Lock : mutex[l] = "mode" <=> /\ mode = "running"
                                          /\ call.lock = l
                                          /\ call.at \in {"write", "give"}

(* The valve is open only while its task sleeps in the high part of a      *)
(* cycle, never while it waits for a mutex, and a pulse is at most the     *)
(* period the duty was computed from (valveController.c 59-67, 77).        *)
PulseIsBounded ==
    /\ gpio = 1 <=> vpc = "opened"
    /\ gpio = 1 => High <= got["period"]

Armed == \/ vpc \in {"duty", "low", "open"}
         \/ vpc = "check" /\ cell["pwm"] # 0

(* Once the mode is deleted or has suspended itself, the valve opens at    *)
(* most once more, for the duty stored before, wherever its task was       *)
(* (valveController.c 82: each cycle uses its duty up).                    *)
AtMostOnePulseAfterStop ==
    mode # "running" => stale + (IF Armed THEN 1 ELSE 0) <= 1

Orphan == \E l \in Lock : mutex[l] = "deleted"

(* As long as no mutex has been orphaned, the valve task returns to the    *)
(* head of its loop however the mode's setters interleave with it.         *)
ValveKeepsCycling == []~Orphan => []<>(vpc = "check")

Promise == INSTANCE ValvePromise WITH running <- (mode = "running"),
                                      armed <- Armed,
                                      gpio <- gpio
(* The controller keeps the promise of ValvePromise: it opens only for a   *)
(* running mode's request and once per request. An open valve closes,       *)
(* whatever becomes of the mode and of the mutexes (valveController.c      *)
(* 62-66 takes none while the valve is open), so that a mode that stopped  *)
(* leaves the valve closed, an orphaned mutex or not.                      *)
PromiseKept == Promise!Spec
====
