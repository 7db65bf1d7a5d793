---- MODULE TemperatureChecker ----
(***************************************************************************)
(* checkingTemperaturesTask (src/src/temperatureChecker.c 118-176): set up *)
(* the probes the search found, then in rounds start their conversions,    *)
(* wait, read and publish them, and sleep out the rest of a period; and a  *)
(* working mode that reads what is published (getTemperatures). Both reach *)
(* the temperatures through a mutex that either may be the first to make.  *)
(***************************************************************************)
EXTENDS DS18B20, LazyMutex

CONSTANTS
    Count,          \* num_devices
    RESOLUTION,     \* DS18B20_RESOLUTION
    Period,         \* DS18B20_CHECK_PERIOD / portTICK_PERIOD_MS
    ReadTicks,      \* ticks that reading and publishing may take
    Lapses,         \* ticks between the two reads of the counter (166, 169)
    CounterSize     \* the number of values of the tick counter

ASSUME CountAssumption == Count \in Nat \ {0} /\ Probes = 1..Count
ASSUME TicksAssumption == /\ Period \in 1..CounterSize - 1
                          /\ ReadTicks \subseteq Nat
                          /\ Lapses \subseteq 0..CounterSize - 1
                          /\ CounterSize \in Nat
                          /\ RESOLUTION \in 9..12

(* A round is over before the counter comes round to where it started, so  *)
(* the ticks elapsed can be counted without a wrap.                        *)
ASSUME RoundFits == \A d \in ReadTicks : T_CONV + d < CounterSize
ASSUME UsersAssumption == Users = {"checker", "mode"}

VARIABLES
    at,             \* where the task is
    i,              \* its loop counter
    temps,          \* its array of readings
    elapsed,        \* ticks since start_ticks
    lasted,         \* history: ticks of the last round and the lapse in it
    disturbed,      \* history: a conversion of this round, or of the one
                    \* before, may not have begun
    unpowered       \* history: probes that have lost their power

taskVars == <<at, i, temps, elapsed, lasted, disturbed>>
vars == <<driverVars, mutexVars, taskVars, unpowered>>

Ages == {"now", "before", "earlier", "ancient"}
Readings == {"zero", "invalid"} \cup Ages

Init == /\ DriverInit
        /\ MutexInit
        /\ at = "malloc"
        /\ i = 1
        /\ temps = [p \in Probes |-> "zero"]
        /\ elapsed = 0
        /\ lasted = [ticks |-> 0, lapse |-> 0]
        /\ disturbed = [now |-> TRUE, before |-> TRUE]
        /\ unpowered = {}

Goto(there) == at' = there /\ UNCHANGED i

(* The next turn of a for loop over the devices, or what follows it.       *)
NextTurn(turn, after) ==
    IF i < Count THEN at' = turn /\ i' = i + 1
    ELSE at' = after /\ i' = 1

OnBus == UNCHANGED <<mutexVars, temps, elapsed, lasted, disturbed, unpowered>>

-----------------------------------------------------------------------------
(* The set-up of device i.                                                 *)

MallocDevice == at = "malloc" /\ Malloc(i) /\ Goto("init") /\ OnBus

InitDevice == at = "init" /\ InitInfo(i) /\ Goto("set") /\ OnBus

(* ds18b20_set_resolution                                                  *)
SetResolution ==
    /\ at = "set"
    /\ IF IsInit(i) /\ CheckResolution(info[i].resolution)
         THEN ReadTriggers /\ Goto("write")
         ELSE UNCHANGED driverVars /\ NextTurn("malloc", "start")
    /\ OnBus

WriteResolution ==
    /\ at = "write"
    /\ \E done \in BOOLEAN : /\ WriteScratchpad(i, RESOLUTION, done)
                             /\ Goto(IF done THEN "verify" ELSE "reread")
    /\ OnBus

VerifyResolution ==
    /\ at = "verify"
    /\ \E same \in BOOLEAN :
          /\ Verify(i, RESOLUTION, same)
          /\ IF same THEN NextTurn("malloc", "start") ELSE Goto("reread")
    /\ OnBus

RereadResolution ==
    at = "reread" /\ ReadResolution(i) /\ NextTurn("malloc", "start") /\ OnBus

SetUp == MallocDevice \/ InitDevice \/ SetResolution \/ WriteResolution
         \/ VerifyResolution \/ RereadResolution

-----------------------------------------------------------------------------
(* A round.                                                                *)

Convert ==
    /\ at = "start"
    /\ \E heard \in SUBSET Probes :
          /\ Noise(IF heard = Probes THEN "none" ELSE "garbled")
          /\ ConvertAll(heard)
          /\ disturbed' = [now |-> heard # Probes, before |-> disturbed.now]
    /\ lasted' = [ticks |-> 0, lapse |-> 0]
    /\ Goto("wait")
    /\ UNCHANGED <<mutexVars, temps, elapsed, unpowered>>

(* Mutant: the wait is for the lowest resolution.                          *)
WaitForConversion_short ==
    /\ at = "wait"
    /\ elapsed' = ConversionTicks(9)
    /\ probe' = AfterWait(elapsed')
    /\ Goto("read")
    /\ UNCHANGED <<info, faults, mutexVars, temps, lasted, disturbed, unpowered>>

(* The delay of the first device stands for all.                           *)
WaitForConversion ==
    /\ at = "wait"
    /\ elapsed' = WaitTicks(1)
    /\ probe' = AfterWait(elapsed')
    /\ Goto("read")
    /\ UNCHANGED <<info, faults, mutexVars, temps, lasted, disturbed, unpowered>>

Read ==
    /\ at = "read"
    /\ \E noise \in Noises : /\ Noise(noise)
                             /\ temps' = [temps EXCEPT ![i] = ReadTemp(i, noise)]
    /\ NextTurn("read", "publish")
    /\ IF i < Count THEN UNCHANGED <<elapsed, probe>>
       ELSE \E d \in ReadTicks : /\ elapsed' = elapsed + d
                                 /\ probe' = AfterWait(elapsed')
    /\ UNCHANGED <<info, mutexVars, lasted, disturbed, unpowered>>

(* setTemperature(i, temps[i]): which of the three fields it goes to, and   *)
(* that a fourth device has none, matters to no one here.                  *)
AskMutex == at = "publish" /\ Ask("checker") /\ Goto("publishing")
            /\ UNCHANGED <<driverVars, temps, elapsed, lasted, disturbed, unpowered>>

SetTemperature ==
    /\ at = "publishing"
    /\ Leave("checker")
    /\ Goto("published")
    /\ UNCHANGED <<driverVars, temps, elapsed, lasted, disturbed, unpowered>>

GiveMutex ==
    /\ at = "published"
    /\ Give("checker")
    /\ NextTurn("publish", "pace")
    /\ UNCHANGED <<driverVars, temps, elapsed, lasted, disturbed, unpowered>>

(* The array and the count are of this turn of the loop.                   *)
NextRound == /\ temps' = [p \in Probes |-> "zero"]
             /\ elapsed' = 0
             /\ Goto("start")

(* Line 166: the elapsed ticks are compared with the period.               *)
Pace ==
    /\ at = "pace"
    /\ IF elapsed < Period THEN Goto("delay") /\ UNCHANGED <<temps, elapsed, lasted>>
       ELSE NextRound /\ lasted' = [ticks |-> elapsed, lapse |-> 0]
    /\ UNCHANGED <<driverVars, mutexVars, disturbed, unpowered>>

(* Mutant: a whole period is slept, whatever has elapsed.                  *)
Sleep_whole(ticks) == Period

(* Lines 168-169: the difference is unsigned.                              *)
Sleep(ticks) == (Period - ticks) % CounterSize

Delay ==
    /\ at = "delay"
    /\ \E lapse \in Lapses :
          lasted' = [ticks |-> elapsed + lapse + Sleep(elapsed + lapse),
                     lapse |-> lapse]
    /\ NextRound
    /\ UNCHANGED <<driverVars, mutexVars, disturbed, unpowered>>

Round == Convert \/ WaitForConversion \/ Read \/ AskMutex \/ SetTemperature
         \/ GiveMutex \/ Pace \/ Delay

-----------------------------------------------------------------------------
(* The mode, the mutex and the probes.                                     *)

Elsewhere == UNCHANGED <<driverVars, taskVars, unpowered>>

(* getTemperatures, by the mode's status or its decision: what it copies is *)
(* whatever is published at that moment. Another mode may be chosen while  *)
(* the task of this one is inside (stopWorkingTask).                       *)
GetTemperatures ==
    /\ Ask("mode") \/ Leave("mode") \/ Give("mode")
    /\ Elsewhere

StopWorkingTask == Delete("mode") /\ Elsewhere

Locking(t) == /\ Create(t) \/ ReturnHandle(t) \/ Take(t)
              /\ Elsewhere

Converts == \E p \in Probes : /\ ConversionEnds(p)
                              /\ UNCHANGED <<mutexVars, taskVars, unpowered>>

PowerFails == \E p \in Probes :
    /\ LosesPower(p)
    /\ disturbed' = [disturbed EXCEPT !.now = TRUE]
    /\ unpowered' = unpowered \cup {p}
    /\ UNCHANGED <<mutexVars, at, i, temps, elapsed, lasted>>

Checker == SetUp \/ Round \/ Locking("checker")
Mode == GetTemperatures \/ Locking("mode")

Next == /\ ~Panicked
        /\ Checker \/ Mode \/ StopWorkingTask \/ Converts \/ PowerFails

(* A mode need not ask for the temperatures, but once it has, it goes on.  *)
Spec == Init /\ [][Next]_vars
        /\ WF_vars(Next /\ Checker)
        /\ WF_vars(Next /\ Mode /\ user["mode"].at # "out")
        /\ SF_vars(Next /\ Take("checker"))
        /\ SF_vars(Next /\ Take("mode"))

-----------------------------------------------------------------------------
(* Properties.                                                             *)

(* Types: the cached resolution is never DS18B20_RESOLUTION_INVALID once   *)
(* it was read, and the race makes at most two mutexes.                    *)
TypeOK ==
    /\ probe \in [Probes -> [res : Resolutions,
                             conv : {"none"} \cup Ages,
                             temp : Ages]]
    /\ info \in [Probes -> [null : BOOLEAN, init : BOOLEAN,
                            resolution : {0} \cup Resolutions]]
    /\ faults \in 0..MaxFaults
    /\ i \in Probes
    /\ temps \in [Probes -> Readings]
    /\ handle \in 0..Len(holder)
    /\ Len(holder) <= 2

SettingUp == at \in {"malloc", "init", "set", "write", "verify", "reread"}

(* After the set-up the resolution the driver has cached is the one the    *)
(* probe has, whatever single transaction of the set-up failed and however *)
(* (ds18b20.c 308-344).                                                    *)
ResolutionTracked ==
    /\ TypeOK
    /\ ~SettingUp /\ faults <= 1 =>
          \A p \in Probes \ unpowered :
              info[p].null \/ info[p].resolution = probe[p].res

(* The wait's last tick may be cut short, and a probe that takes all the    *)
(* time of its resolution is then read while it still converts. How old     *)
(* the reading may be: a round, or two if the next round can begin before  *)
(* that tick is over.                                                      *)
Recent == IF 0 \in ReadTicks THEN {"now", "before", "earlier"}
          ELSE {"now", "before"}

(* A temperature that is published is a sign of the failure, 0 or -2048, or *)
(* one of this round if the wait is longer than the probe's conversion, and *)
(* never an old one if it is as long; except where the command to convert  *)
(* was not heard in this round, or in the one before (temperatureChecker.c *)
(* 145-154, ds18b20.c 149-165).                                            *)
ReadingsAreFresh ==
    at \in {"publish", "publishing", "published"} =>
        \A p \in Probes :
            temps[p] \notin {"zero", "invalid"} =>
                /\ ConversionTicks(probe[p].res) < WaitTicks(1) =>
                      temps[p] = "now" \/ disturbed.now
                /\ ConversionTicks(probe[p].res) = WaitTicks(1) =>
                      temps[p] \in Recent \/ disturbed.now \/ disturbed.before

(* A round takes at least a period, and longer only for the wait for its   *)
(* conversions and its readings, or by a whole turn of the counter if the  *)
(* task was held up between its two reads of it (temperatureChecker.c      *)
(* 164-170).                                                               *)
RoundIsPaced ==
    lasted.ticks # 0 =>
        /\ lasted.ticks >= Period
        /\ \/ lasted.ticks = Period
           \/ \E d \in ReadTicks : lasted.ticks = WaitTicks(1) + d
           \/ lasted.lapse > 0 /\ lasted.ticks = Period + CounterSize

(* Round after round is published, and a mode that asks for the             *)
(* temperatures gets them, whoever made the mutex; unless the race of the   *)
(* first uses ended in a reset, or a mode was deleted while it had the      *)
(* mutex (temperatureChecker.c 41-75, dispatcher.c 42).                     *)
KeepsPublishing ==
    /\ []<>(Panicked \/ Orphaned \/ at = "start")
    /\ []<>(Panicked \/ Orphaned \/ user["mode"].at = "out")
====
