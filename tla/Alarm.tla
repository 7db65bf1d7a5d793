---- MODULE Alarm ----
(***************************************************************************)
(* From power-on to the beeps that call the operator: app_main starts the  *)
(* tasks (src/src/main.c), the dispatcher makes the queues the others use  *)
(* and changes the working mode (src/src/dispatcher.c), the mode           *)
(* selfEmployment of SelfEmployment ends with five beeps, and the buzzer's  *)
(* task plays what is in Sound_queue (src/src/buzzerController.c).         *)
(*                                                                         *)
(* Where SelfEmployment says "suspended" the loop has ended; the sends of  *)
(* its beeps are steps here. Beeps are alike: the queue is their number.   *)
(* Only SelfEmployment counts ticks; beeps take any time.                  *)
(***************************************************************************)
EXTENDS SelfEmployment, Sequences, FiniteSets

CONSTANTS
    Requests,   \* the modes the client asks for: 0..5
    Capacity,   \* the length of Sound_queue: 10 in the code
    MaxChanges  \* how often the mode is changed

ASSUME RequestsAssumption == Requests \subseteq 0..5
ASSUME CapacityAssumption == Capacity \in Nat

VARIABLES
    cores,      \* the number of cores that run tasks
    begun,      \* tasks app_main has created
    ready,      \* tasks that have come to their first wait
    made,       \* the queues the dispatcher has created
    failed,     \* an assertion has failed: the device resets
    changes,    \* changes of the mode so far
    request,    \* the mode changeWorkingMode has still to create, or -1
    running,    \* the working mode: "none", "self", "other"
    sends,      \* beeps the mode and the dispatcher have still to send
    waiting,    \* beeps in Sound_queue
    buzzer,     \* what buzzer_task does
    heard       \* history: beeps since selfEmployment ended, up to five

bootVars == <<cores, begun, ready, made, failed>>
modeVars == <<changes, request, running, sends>>
soundVars == <<waiting, buzzer, heard>>
alarmVars == <<vars, bootVars, modeVars, soundVars>>

-----------------------------------------------------------------------------
(* Start-up.                                                               *)

StartOrder == <<"dispatcher", "reader", "writer", "server", "checker",
                "valve", "buzzer">>

Queues == <<"Json_outgoing", "Json_incoming", "Sound">>

(* Mutant: the dispatcher has the priority of the main task.               *)
Priority_low(t) == IF t \in {"main", "dispatcher"} THEN 1 ELSE 3

Priority(t) == CASE t = "main" -> 1         \* ESP_TASK_MAIN_PRIO
                 [] t = "dispatcher" -> 2
                 [] OTHER -> 3

Tasks == {"main"} \cup {StartOrder[k] : k \in DOMAIN StartOrder}

Busy(t) == IF t = "main" THEN begun < Len(StartOrder)
           ELSE /\ \E k \in 1..begun : StartOrder[k] = t
                /\ t \notin ready

(* FreeRTOS gives the cores to the tasks of the highest priorities.        *)
Runs(t) == /\ Busy(t)
           /\ Cardinality({u \in Tasks : Busy(u) /\ Priority(u) > Priority(t)})
              < cores

StartTask == /\ Runs("main")
             /\ begun' = begun + 1
             /\ UNCHANGED <<cores, ready, made, failed>>

(* The dispatcher is ready when it waits for its first message.            *)
CreateQueue == /\ Runs("dispatcher")
               /\ made' = made + 1
               /\ ready' = IF made' = Len(Queues) THEN ready \cup {"dispatcher"}
                           ELSE ready
               /\ UNCHANGED <<cores, begun, failed>>

Exists(q) == \E k \in 1..made : Queues[k] = q

(* The first receive of a task from a queue that is still NULL fails an    *)
(* assertion of FreeRTOS; the other tasks have or need no queue here.      *)
FirstWait(t) == /\ t # "main" /\ t # "dispatcher"
                /\ Runs(t)
                /\ ready' = ready \cup {t}
                /\ failed' = \/ t = "writer" /\ ~Exists("Json_outgoing")
                             \/ t = "buzzer" /\ ~Exists("Sound")
                /\ UNCHANGED <<cores, begun, made>>

StartUp == /\ StartTask \/ CreateQueue \/ \E t \in Tasks : FirstWait(t)
           /\ UNCHANGED <<vars, modeVars, soundVars>>

-----------------------------------------------------------------------------
(* Modes and beeps.                                                        *)

AlarmInit == /\ Init
             /\ cores \in {1, 2}
             /\ begun = 0
             /\ ready = {}
             /\ made = 0
             /\ failed = FALSE
             /\ changes = 0
             /\ request = -1
             /\ running = "none"
             /\ sends = [mode |-> 0, dispatcher |-> 0]
             /\ waiting = 0
             /\ buzzer = "receive"
             /\ heard = 5

(* A client's request for a mode, long after start-up, as the client has   *)
(* to join the wifi first: the running mode is deleted, wherever it is, and *)
(* with it the beeps it has not sent.                                      *)
StopMode == /\ Cardinality(ready) = Len(StartOrder)
            /\ request = -1
            /\ sends.dispatcher = 0
            /\ changes < MaxChanges
            /\ changes' = changes + 1
            /\ request' \in Requests
            /\ running' = "none"
            /\ sends' = [sends EXCEPT !.mode = 0]
            /\ UNCHANGED <<vars, bootVars, soundVars>>

(* The new mode, if there is memory for it, and mode + 1 beeps either way. *)
CreateMode ==
    /\ request # -1
    /\ request' = -1
    /\ sends' = [sends EXCEPT !.dispatcher = request + 1]
    /\ \/ /\ running' = IF request = 2 THEN "self" ELSE "other"
          /\ IF request = 2
               THEN /\ minutes' \in Minutes
                    /\ lastTick' = tick
                    /\ elapsed' = 0
                    /\ at' = "check"
                    /\ UNCHANGED tick
               ELSE UNCHANGED vars
       \/ UNCHANGED <<vars, running>>
    /\ UNCHANGED <<bootVars, changes, soundVars>>

(* A round of selfEmployment; at its end it has five beeps to send.        *)
SelfStep ==
    /\ running = "self"
    /\ at # "suspended"
    /\ Next
    /\ sends' = IF at' = "suspended" THEN [sends EXCEPT !.mode = 5] ELSE sends
    /\ heard' = IF at' = "suspended" THEN 0 ELSE heard
    /\ UNCHANGED <<bootVars, changes, request, running, waiting, buzzer>>

(* The other modes call the operator once as well.                         *)
OtherCalls == /\ running = "other"
              /\ running' = "called"
              /\ sends' = [sends EXCEPT !.mode = 5]
              /\ UNCHANGED <<vars, bootVars, changes, request, soundVars>>

(* Mutant: the queue keeps only its newest beep.                           *)
SendBeep_overwrites(who) ==
    /\ sends[who] > 0
    /\ sends' = [sends EXCEPT ![who] = @ - 1]
    /\ waiting' = 1
    /\ UNCHANGED <<vars, bootVars, changes, request, running, buzzer, heard>>

(* One turn of playSoundRepeatedly: a full queue loses the beep.           *)
SendBeep(who) ==
    /\ sends[who] > 0
    /\ sends' = [sends EXCEPT ![who] = @ - 1]
    /\ waiting' = IF waiting < Capacity THEN waiting + 1 ELSE waiting
    /\ UNCHANGED <<vars, bootVars, changes, request, running, buzzer, heard>>

(* buzzer_task: receive, sound for 100 ms, pause for 300 ms.               *)
Receive == /\ "buzzer" \in ready
           /\ buzzer = "receive"
           /\ waiting > 0
           /\ waiting' = waiting - 1
           /\ buzzer' = "sound"
           /\ UNCHANGED heard

Sound == /\ buzzer = "sound"
         /\ buzzer' = "pause"
         /\ heard' = IF heard < 5 THEN heard + 1 ELSE heard
         /\ UNCHANGED waiting

Pause == /\ buzzer = "pause"
         /\ buzzer' = "receive"
         /\ UNCHANGED <<waiting, heard>>

BuzzerTask == /\ Receive \/ Sound \/ Pause
              /\ UNCHANGED <<vars, bootVars, modeVars>>

Dispatcher == CreateMode \/ SendBeep("dispatcher")
Mode == SelfStep \/ SendBeep("mode")

AlarmNext == /\ ~failed
             /\ \/ StartUp
                \/ StopMode
                \/ Dispatcher
                \/ Mode
                \/ OtherCalls
                \/ BuzzerTask

AlarmSpec == /\ AlarmInit
             /\ [][AlarmNext]_alarmVars
             /\ WF_alarmVars(~failed /\ StartUp)
             /\ WF_alarmVars(~failed /\ Dispatcher)
             /\ WF_alarmVars(~failed /\ Mode)
             /\ WF_alarmVars(~failed /\ BuzzerTask)

-----------------------------------------------------------------------------
(* Properties.                                                             *)

(* Types. The queue is never longer than it was made, and the modes run    *)
(* only when the dispatcher does.                                          *)
AlarmTypeOK ==
    /\ begun \in 0..Len(StartOrder)
    /\ ready \subseteq {StartOrder[k] : k \in 1..begun}
    /\ made \in 0..Len(Queues)
    /\ sends \in [mode : 0..5, dispatcher : 0..6]
    /\ waiting \in 0..Capacity
    /\ heard \in 0..5
    /\ running # "none" \/ request # -1 => "dispatcher" \in ready

(* On one core no task takes from a queue that is not there yet: the       *)
(* priorities alone order the start-up, as the dispatcher makes the queues  *)
(* before app_main goes on. On two cores a task may be faster than the     *)
(* dispatcher (dispatcher.c 78-80, main.c 36-40).                          *)
StartUpIsOrdered == AlarmTypeOK /\ (failed => cores = 2)

(* selfEmployment ends, unless the operator changes the mode (line 73).    *)
(* Once it has sent its beeps, five are heard, though the queue may have   *)
(* been full and whatever the operator does next (operationModes.c 74).    *)
AlarmIsHeard ==
    /\ running = "self" ~> (at = "suspended" \/ running # "self")
    /\ running = "self" /\ at = "suspended" /\ sends.mode = 0 ~> heard = 5
====
