---- MODULE OwbRmt ----
(***************************************************************************)
(* lib/esp32-owb/owb_rmt.c: the 1-Wire driver the firmware uses. The ESP32's *)
(* RMT peripheral sends the pulses of a time slot on one channel while      *)
(* another channel records the wire and puts each trace into a ring buffer, *)
(* from which the driver decodes the presence of a device or the bits read. *)
(*                                                                         *)
(* A pulse is [low, high], in microseconds. A recording ends at the first   *)
(* level that lasts as long as the idle threshold, which the trace shows as *)
(* a duration of 0.                                                        *)
(***************************************************************************)
EXTENDS Integers, Sequences

CONSTANTS
    Width,      \* the bits of a byte: 8 in the code
    Hold        \* us for which a device that sends a 0 holds the wire low

OW_DURATION_RESET == 480
OW_DURATION_SLOT == 75
OW_DURATION_1_LOW == 2
OW_DURATION_0_LOW == 65
OW_DURATION_SAMPLE == 13
OW_DURATION_RX_IDLE == OW_DURATION_SLOT + 2
OW_RESET_IDLE == OW_DURATION_RESET + 60

ASSUME WidthAssumption == Width \in Nat \ {0}
ASSUME HoldAssumption == Hold \in OW_DURATION_SAMPLE..OW_DURATION_SLOT - 1

VARIABLES
    rmt,    \* installed channels, receiver running, its idle threshold
    rb,     \* the ring buffer: traces not yet received, oldest first
    air,    \* what the receiver is going to record
    call,   \* the call of reset or read_bits that is under way
    callId, \* history: tells the traces of this call from those before it
    gotId   \* history: the callId of the trace last decoded

rmtVars == <<rmt, rb, air, call, callId, gotId>>

(* A byte is the sequence of its bits from the lowest on.                  *)
Byte == [1..Width -> {0, 1}]
ZeroByte == [i \in 1..Width |-> 0]

Forever == 10000
NewCall(op, n, at, present, value) ==
    [op |-> op, n |-> n, at |-> at, status |-> "OK",
     present |-> present, value |-> value]
NoCall == NewCall("none", 0, "idle", FALSE, ZeroByte)

RmtInit == /\ rmt = [tx |-> FALSE, rx |-> FALSE, on |-> FALSE,
                     idle |-> OW_DURATION_RX_IDLE]
           /\ rb = <<>>
           /\ air = <<>>
           /\ call = NoCall
           /\ callId = 0
           /\ gotId = 0

-----------------------------------------------------------------------------
(* Pulses and their decoding.                                              *)

Pulse(low) == [low |-> low, high |-> OW_DURATION_SLOT - low]

(* _encode_write_slot, for each bit of out from its lowest                 *)
WriteSlots(out) ==
    [i \in DOMAIN out |-> Pulse(IF out[i] = 1
                                  THEN OW_DURATION_1_LOW ELSE OW_DURATION_0_LOW)]

(* What a device takes a write slot for: it samples 15 us after the edge.  *)
DeviceSees(pulse) == IF pulse.low < 15 THEN 1 ELSE 0

(* The wire during read slots in which the devices send bits.              *)
ReadWave(bits) ==
    [i \in DOMAIN bits |-> Pulse(IF bits[i] = 1 THEN OW_DURATION_1_LOW ELSE Hold)]

ResetWave(present) ==
    IF present THEN <<[low |-> OW_DURATION_RESET, high |-> 30],
                      [low |-> 120, high |-> Forever]>>
               ELSE <<[low |-> OW_DURATION_RESET, high |-> Forever]>>

(* The trace the receiver makes of the wire, which is high after the wave. *)
Record(wave, idle) ==
    LET cuts == {i \in DOMAIN wave : \/ wave[i].low >= idle
                                     \/ wave[i].high >= idle
                                     \/ i = Len(wave)}
        last == CHOOSE i \in cuts : \A j \in cuts : i <= j
    IN  [i \in 1..last |->
            IF i < last THEN wave[i]
            ELSE [low |-> IF wave[i].low >= idle THEN 0 ELSE wave[i].low,
                  high |-> 0]]

(* A trace of a spike on the wire.                                         *)
Spike == <<[low |-> OW_DURATION_1_LOW, high |-> 0]>>

(* The presence pulse, lines 142-152                                       *)
Presence(trace) ==
    /\ trace[1].low >= OW_DURATION_RESET - 2
    /\ trace[1].high > 0
    /\ Len(trace) > 1

(* The bits read, shifted in from the top and then down to the bottom; 0 if *)
(* the trace is too short.                                                 *)
ReadData(trace, n) ==
    [k \in 1..Width |->
        IF n <= Len(trace) /\ k <= n /\ trace[k].low < OW_DURATION_SAMPLE
          THEN 1 ELSE 0]

-----------------------------------------------------------------------------
(* The driver's calls.                                                     *)

(* _init: the transmitter is installed and then the receiver, which owns   *)
(* the ring buffer; each takes a configuration and an installation. Only a *)
(* failed configuration of the receiver removes the transmitter.           *)
Install(failing) ==
    /\ rmt' = [rmt EXCEPT !.tx = failing \in {"nothing", "rx_install"},
                          !.rx = failing = "nothing"]
    /\ UNCHANGED <<rb, air, call, callId, gotId>>

Flushed == <<>>

(* Mutant: traces left in the ring buffer are not thrown away.             *)
Begin_noFlush(op, n, traces) ==
    /\ call.at = "idle"
    /\ rmt.rx
    /\ rmt' = [rmt EXCEPT !.on = TRUE,
                          !.idle = IF op = "reset" THEN OW_RESET_IDLE ELSE @]
    /\ UNCHANGED rb
    /\ call' = NewCall(op, n, "receive", FALSE, ZeroByte)
    /\ callId' = 1 - callId
    /\ gotId' = callId'
    /\ air' = [i \in DOMAIN traces |-> [items |-> Record(traces[i], rmt'.idle),
                                        id |-> callId']]

(* Flush the ring buffer, start the receiver and send the slots; a reset   *)
(* raises the idle threshold above its own low pulse first. The id tells    *)
(* this call's traces from those of the call before.                       *)
Begin(op, n, traces) ==
    /\ call.at = "idle"
    /\ rmt.rx
    /\ rmt' = [rmt EXCEPT !.on = TRUE,
                          !.idle = IF op = "reset" THEN OW_RESET_IDLE ELSE @]
    /\ rb' = Flushed
    /\ call' = NewCall(op, n, "receive", FALSE, ZeroByte)
    /\ callId' = 1 - callId
    /\ gotId' = callId'
    /\ air' = [i \in DOMAIN traces |-> [items |-> Record(traces[i], rmt'.idle),
                                        id |-> callId']]

(* Without a receiver the ring buffer is an uninitialised pointer.         *)
BeginPanics == /\ call.at = "idle"
               /\ ~rmt.rx
               /\ call' = [call EXCEPT !.at = "panic"]
               /\ UNCHANGED <<rmt, rb, air, callId, gotId>>

(* The receiver's interrupt puts a finished trace into the ring buffer.    *)
TraceArrives == /\ rmt.on
                /\ air # <<>>
                /\ rb' = Append(rb, Head(air))
                /\ air' = Tail(air)
                /\ UNCHANGED <<rmt, call, callId, gotId>>

Receive ==
    /\ call.at = "receive"
    /\ rb # <<>>
    /\ LET trace == Head(rb).items
       IN  call' = [call EXCEPT
                      !.at = "stop",
                      !.present = call.op = "reset" /\ Presence(trace),
                      !.value = IF call.op = "reset" THEN ZeroByte
                                  ELSE ReadData(trace, call.n)]
    /\ gotId' = Head(rb).id
    /\ rb' = Tail(rb)
    /\ UNCHANGED <<rmt, air, callId>>

(* A reset waits 100 ms for its trace; read_bits waits for ever.           *)
ReceiveTimesOut ==
    /\ call.at = "receive"
    /\ call.op = "reset"
    /\ rb = <<>>
    /\ air = <<>>
    /\ call' = [call EXCEPT !.at = "stop", !.status = "HW_ERROR"]
    /\ UNCHANGED <<rmt, rb, air, callId, gotId>>

(* Stop the receiver, which loses what it is recording, and put the        *)
(* threshold back.                                                         *)
Stop == /\ call.at = "stop"
        /\ rmt' = [rmt EXCEPT !.on = FALSE, !.idle = OW_DURATION_RX_IDLE]
        /\ air' = <<>>
        /\ call' = [call EXCEPT !.at = "done"]
        /\ UNCHANGED <<rb, callId, gotId>>

(* The caller takes the result.                                            *)
Return == /\ call.at = "done"
          /\ call' = NoCall
          /\ UNCHANGED <<rmt, rb, air, callId, gotId>>

DriverStep == TraceArrives \/ Receive \/ ReceiveTimesOut \/ Stop

-----------------------------------------------------------------------------
(* What is decoded is a recording of the call's own slots, although a spike *)
(* may have put a second trace into the ring buffer, before or after the    *)
(* call took its own: each call starts with an empty buffer (lines 121, 277). *)
StaleTraceNeverDecoded == gotId = callId
====
