---- MODULE OwbGpio ----
(***************************************************************************)
(* lib/esp32-owb/owb_gpio.c: the 1-Wire driver that toggles a pin. Every   *)
(* slot is one critical section, so a call is a function of the wire.      *)
(***************************************************************************)
EXTENDS OwbRmt

(* _StandardTiming, in microseconds                                        *)
Timing == [A |-> 6, B |-> 64, C |-> 60, D |-> 10, E |-> 9, I |-> 70]

(* A device that sends a 0 still holds the wire when the pin is sampled.   *)
ASSUME SampleAssumption == Hold > Timing.A + Timing.E

(* _write_bit: the pin is low for A or C and high for B or D               *)
GpioWriteSlots(out) ==
    [i \in DOMAIN out |-> IF out[i] = 1 THEN [low |-> Timing.A, high |-> Timing.B]
                                       ELSE [low |-> Timing.C, high |-> Timing.D]]

(* _reset samples the presence pulse I after the release and its end after *)
(* the rest of the presence slot.                                          *)
GpioPresence(wave) ==
    /\ Len(wave) > 1
    /\ wave[1].high <= Timing.I
    /\ wave[1].high + wave[2].low > Timing.I

(* _read_bit: the pin is low for A and sampled E after its release         *)
GpioReadBit(pulse) == pulse.low <= Timing.A + Timing.E

(* _read_bits shifts in from the top, and not down to the bottom.          *)
GpioReadData(wave) ==
    LET unread == Width - Len(wave)
    IN  [k \in 1..Width |->
            IF k > unread /\ GpioReadBit(wave[k - unread]) THEN 1 ELSE 0]
====
