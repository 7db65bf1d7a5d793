---- MODULE DS18B20 ----
(***************************************************************************)
(* lib/esp32-ds18b20/ds18b20.c: the driver of the temperature probes, over *)
(* a 1-Wire bus whose transactions may go wrong, and the probes themselves *)
(* as far as the driver can tell: a resolution in their configuration      *)
(* register, a conversion that takes its time, and the result of the last  *)
(* one.                                                                    *)
(*                                                                         *)
(* One task uses the bus, so a transaction - the reset, the address, the   *)
(* command and its bytes - is one step. A temperature is told by the round  *)
(* it was measured in.                                                     *)
(***************************************************************************)
EXTENDS Integers

CONSTANTS
    Probes,         \* the indices of the probes on the bus
    PowerOnBits,    \* resolutions a probe has after it is powered up
    MaxFaults       \* how often a transaction or a probe's power fails

ASSUME PowerOnAssumption == PowerOnBits \subseteq 9..12
ASSUME FaultsAssumption == MaxFaults \in Nat

VARIABLES
    probe,      \* for each probe: res, conv (its conversion), temp
    info,       \* for each probe, DS18B20_Info: null, init and resolution
    faults      \* faults so far

driverVars == <<probe, info, faults>>

Resolutions == 9..12
T_CONV == 75        \* ticks: T_CONV / portTICK_PERIOD_MS

Blank == [null |-> TRUE, init |-> FALSE, resolution |-> 0]

DriverInit == /\ probe \in [Probes -> [res : PowerOnBits, conv : {"none"},
                                       temp : {"ancient"}]]
              /\ info = [p \in Probes |-> Blank]
              /\ faults = 0

(* What may happen to a transaction: the master misses the presence pulse,  *)
(* or bits are lost on the way there or back.                              *)
Noises == {"none", "missed", "garbled"}

Noise(noise) == /\ noise # "none" => faults < MaxFaults
                /\ faults' = IF noise = "none" THEN faults ELSE faults + 1

-----------------------------------------------------------------------------
(* The driver.                                                             *)

IsInit(p) == ~info[p].null /\ info[p].init

CheckResolution(resolution) == resolution \in Resolutions

(* The configuration's two bits as a resolution: never outside 9..12, since *)
(* a scratchpad that was not read is all zeros.                            *)
ConfigsRead(p, noise) == CASE noise = "none" -> {probe[p].res}
                           [] noise = "missed" -> {9}
                           [] noise = "garbled" -> Resolutions

(* ds18b20_malloc: out of memory is a fault as well.                       *)
Malloc(p) ==
    \/ /\ info' = [info EXCEPT ![p] = [Blank EXCEPT !.null = FALSE]]
       /\ UNCHANGED <<probe, faults>>
    \/ /\ faults < MaxFaults
       /\ faults' = faults + 1
       /\ UNCHANGED <<probe, info>>

(* ds18b20_init, ds18b20_init_solo: the present resolution is read.        *)
InitInfo(p) ==
    IF info[p].null THEN UNCHANGED driverVars
    ELSE \E noise \in Noises :
            /\ Noise(noise)
            /\ \E resolution \in ConfigsRead(p, noise) :
                  info' = [info EXCEPT ![p].init = TRUE,
                                       ![p].resolution = resolution]
            /\ UNCHANGED probe

(* ds18b20_set_resolution, first transaction: the trigger bytes are read to *)
(* be written back. Whether they are read right matters to no one here.     *)
ReadTriggers == \E noise \in Noises : Noise(noise) /\ UNCHANGED <<probe, info>>

(* _write_scratchpad: TRUE unless the presence was missed; lost bits may   *)
(* put any resolution, or none, into the probe.                            *)
WriteScratchpad(p, resolution, done) ==
    \E noise \in Noises :
        /\ Noise(noise)
        /\ done = (noise # "missed")
        /\ \E r \in CASE noise = "none" -> {resolution}
                      [] noise = "missed" -> {probe[p].res}
                      [] noise = "garbled" -> Resolutions :
              probe' = [probe EXCEPT ![p].res = r]
        /\ UNCHANGED info

(* Its verification: a garbled answer differs from what was written.       *)
Verify(p, resolution, same) ==
    \E noise \in Noises :
        /\ Noise(noise)
        /\ same = (noise = "none" /\ probe[p].res = resolution)
        /\ info' = IF same THEN [info EXCEPT ![p].resolution = resolution]
                   ELSE info
        /\ UNCHANGED probe

(* Mutant: after a failed change the cached resolution is not refreshed.   *)
ReadResolution_skipped(p) == UNCHANGED driverVars

(* ds18b20_read_resolution, into the cached resolution.                    *)
ReadResolution(p) ==
    \E noise \in Noises :
        /\ Noise(noise)
        /\ \E resolution \in ConfigsRead(p, noise) :
              info' = [info EXCEPT ![p].resolution = resolution]
        /\ UNCHANGED probe

(* A round later: "now" is the present round, "before" the last, "earlier"  *)
(* the one before it, "ancient" any older one.                             *)
Older(round) == CASE round = "now" -> "before"
                  [] round = "before" -> "earlier"
                  [] round = "earlier" -> "ancient"
                  [] OTHER -> round

(* ds18b20_convert_all: whoever hears it starts a conversion, unless one is *)
(* under way. The presence it looks for is ignored.                        *)
ConvertAll(heard) ==
    /\ probe' = [p \in Probes |->
                   [res |-> probe[p].res,
                    conv |-> IF probe[p].conv = "none" /\ p \in heard THEN "now"
                             ELSE Older(probe[p].conv),
                    temp |-> Older(probe[p].temp)]]
    /\ UNCHANGED info

(* _wait_for_conversion: the ticks it waits.                               *)
ConversionTicks(resolution) ==
    IF CheckResolution(resolution)
      THEN LET divisor == 2^(12 - resolution)
           IN  (T_CONV + divisor - 1) \div divisor
      ELSE 0

WaitTicks(p) == IF IsInit(p) THEN ConversionTicks(info[p].resolution) ELSE 0

(* A conversion is over in the time for its resolution, or earlier. A delay *)
(* of n ticks may end up to a tick early, since the first of them has begun *)
(* already; that matters to a conversion of this round, while one of an    *)
(* earlier round has had the wait of that round as well.                   *)
Over(p, ticks) ==
    \/ ConversionTicks(probe[p].res) < ticks
    \/ probe[p].conv # "now" /\ ConversionTicks(probe[p].res) <= ticks

AfterWait(ticks) ==
    [p \in Probes |->
        IF probe[p].conv # "none" /\ Over(p, ticks)
          THEN [res |-> probe[p].res, conv |-> "none", temp |-> probe[p].conv]
          ELSE probe[p]]

ConversionEnds(p) ==
    /\ probe[p].conv # "none"
    /\ probe' = [probe EXCEPT ![p].temp = probe[p].conv, ![p].conv = "none"]
    /\ UNCHANGED <<info, faults>>

(* ds18b20_read_temp: 0 when nobody answers, DS18B20_INVALID_READING when  *)
(* the CRC fails.                                                          *)
ReadTemp(p, noise) == CASE ~IsInit(p) \/ noise = "missed" -> "zero"
                        [] IsInit(p) /\ noise = "garbled" -> "invalid"
                        [] IsInit(p) /\ noise = "none" -> probe[p].temp

(* A probe loses its power for a moment.                                   *)
LosesPower(p) ==
    /\ faults < MaxFaults
    /\ faults' = faults + 1
    /\ \E r \in PowerOnBits :
          probe' = [probe EXCEPT ![p] = [res |-> r, conv |-> "none",
                                         temp |-> "ancient"]]
    /\ UNCHANGED info
====
