---- MODULE Owb ----
(***************************************************************************)
(* lib/esp32-owb/owb.c over either driver, as the temperature checker uses  *)
(* it at start-up (temperatureChecker.c 79-116): search the bus for all     *)
(* codes, then verify a known one; or read the code of a single device.     *)
(*                                                                         *)
(* A code is the sequence of its bits, from the lowest of its first byte on, *)
(* which is the order in which the search takes them; the last byte is its  *)
(* CRC.                                                                    *)
(***************************************************************************)
EXTENDS OwbGpio, FiniteSets

CONSTANTS
    Bytes,          \* the bytes of a code: 8 in the code
    CrcByte(_, _),  \* owb_crc8_byte: table[crc ^ data]
    Populations,    \* the sets of devices a bus may have
    Known,          \* known_device
    Quantity,       \* DS18B20_DEVICES_QUANTITY, the length of device_rom_codes
    MaxFaults       \* how often the wire is disturbed

CodeBits == Bytes * Width
Codes == [1..CodeBits -> {0, 1}]

(* The byte k of a code, and all of them                                   *)
ByteOf(code, k) == [i \in 1..Width |-> code[(k - 1) * Width + i]]
BytesOf(code) == [k \in 1..Bytes |-> ByteOf(code, k)]

(* _calc_crc_block                                                         *)
Crc8(bytes) ==
    LET crc[k \in 0..Bytes] ==
            IF k = 0 THEN ZeroByte ELSE CrcByte(crc[k - 1], bytes[k])
    IN  crc[Bytes]

(* A byte taken for a truth value                                          *)
Some(byte) == \E i \in 1..Width : byte[i] = 1

(* A ROM code has its CRC in its last byte, and its family is not 0. The    *)
(* table of the CRC is a permutation, and so is an exclusive or.           *)
RightCode(code) == Crc8(BytesOf(code)) = ZeroByte /\ Some(ByteOf(code, 1))

ASSUME BytesAssumption == Bytes \in Nat \ {0}
ASSUME PopulationsAssumption ==
    \A devs \in Populations : \A d \in devs : d \in Codes /\ RightCode(d)
ASSUME KnownAssumption == Known \in Codes
ASSUME QuantityAssumption == Quantity \in Nat
ASSUME MaxFaultsAssumption == MaxFaults \in Nat
ASSUME CrcAssumption ==
    \A a, b \in Byte :
        /\ CrcByte(a, b) \in Byte
        /\ \A c \in Byte \ {b} : /\ CrcByte(a, b) # CrcByte(a, c)
                                 /\ CrcByte(b, a) # CrcByte(c, a)

VARIABLES
    devices,    \* the codes on the bus
    driver,     \* bus->driver: "rmt" or "gpio"
    selected,   \* the devices that still follow the search
    faults,     \* disturbances so far
    stuck,      \* the wire is held low for good
    wire,       \* history: the slots of the last call, what disturbed them
    at,         \* where the caller is
    st,         \* OneWireBus_SearchState
    loc,        \* the locals of _search, owb_read_rom
    found,      \* device_rom_codes
    answer      \* is_present of owb_verify_rom, or the status of owb_read_rom

wireVars == <<devices, driver, selected, faults, stuck, wire>>
vars == <<rmtVars, wireVars, at, st, loc, found, answer>>

Precedes(c, d) ==
    \E i \in 1..CodeBits : /\ c[i] < d[i]
                           /\ \A j \in 1..i - 1 : c[j] = d[j]

ZeroCode == [i \in 1..CodeBits |-> 0]
NoState == [lastDiscrepancy |-> 0, lastFamily |-> 0, lastDevice |-> FALSE,
            rom |-> ZeroCode]
NoLocals == [idBit |-> 1, lastZero |-> 0, id |-> ZeroByte, cmp |-> ZeroByte,
             isFound |-> FALSE, rom |-> <<>>]

Init == /\ RmtInit
        /\ devices \in Populations
        /\ driver \in {"rmt", "gpio"}
        /\ selected = {}
        /\ faults = 0
        /\ stuck = FALSE
        /\ wire = [wave |-> <<>>, noise |-> "none"]
        /\ at = "initialize"
        /\ st = NoState
        /\ loc = NoLocals
        /\ found = <<>>
        /\ answer = "none"

-----------------------------------------------------------------------------
(* The wire.                                                               *)

(* A disturbance of one slot of a call: its level is taken for another, a   *)
(* spike comes before or after the slots, or the wire is held low for good. *)
Disturbances == {"none", "flip", "before", "after", "stuck"}

Flip(wave) == [wave EXCEPT ![1].low = IF @ < OW_DURATION_SAMPLE
                                        THEN Hold ELSE OW_DURATION_1_LOW]

Traces(wave, noise) == CASE noise = "none" -> <<wave>>
                         [] noise = "flip" -> <<Flip(wave)>>
                         [] noise = "before" -> <<Spike, wave>>
                         [] noise = "after" -> <<wave, Spike>>
                         [] noise = "stuck" -> <<>>

GpioCall(op, n, wave, noise) ==
    NewCall(op, n, "done",
            op = "reset" /\ noise # "stuck" /\ GpioPresence(wave),
            IF op = "reset" \/ noise = "stuck" THEN ZeroByte
            ELSE GpioReadData(IF noise = "flip" THEN Flip(wave) ELSE wave))

(* bus->driver's reset or read_bits: owb_rmt takes its steps, owb_gpio is a *)
(* single one.                                                             *)
CallDriver(op, n, wave) ==
    \E noise \in IF stuck THEN {"stuck"} ELSE Disturbances :
        /\ noise # "none" => stuck \/ faults < MaxFaults
        /\ noise = "flip" => op = "read"
        /\ faults' = IF noise = "none" \/ stuck THEN faults ELSE faults + 1
        /\ stuck' = (noise = "stuck")
        /\ wire' = [wave |-> wave, noise |-> noise]
        /\ IF driver = "rmt" THEN Begin(op, n, Traces(wave, noise))
           ELSE /\ call.at = "idle"
                /\ call' = GpioCall(op, n, wave, noise)
                /\ UNCHANGED <<rmt, rb, air, callId, gotId>>
        /\ UNCHANGED <<devices, driver>>

Reset == CallDriver("reset", 0, ResetWave(devices # {}))

(* The wired AND of what the devices send                                  *)
All(bits) == IF 0 \in bits THEN 0 ELSE 1

SlotsOf(out) == IF driver = "rmt" THEN WriteSlots(out) ELSE GpioWriteSlots(out)

-----------------------------------------------------------------------------
(* _search.                                                                *)

Goto(label) == at' = label

ResetCounters(s) == [lastDiscrepancy |-> 0, lastFamily |-> 0, lastDevice |-> FALSE,
                     rom |-> s.rom]

Answered(isFound) == loc' = [NoLocals EXCEPT !.isFound = isFound]

(* owb_rmt_initialize only logs a failure of its _init.                    *)
Initialize ==
    /\ at = "initialize"
    /\ IF driver = "gpio" THEN UNCHANGED <<rmtVars, faults>>
       ELSE \E failing \in {"nothing", "tx_config", "tx_install",
                            "rx_config", "rx_install"} :
               /\ failing # "nothing" => faults < MaxFaults
               /\ faults' = faults + (IF failing = "nothing" THEN 0 ELSE 1)
               /\ Install(failing)
    /\ \/ Goto("search")
       \/ (\E d \in devices : devices = {d}) /\ Goto("read_rom")
    /\ UNCHANGED <<devices, driver, selected, stuck, wire, st, loc, found, answer>>

(* The search starts with a reset, or ends if it had found the last device. *)
SearchReset ==
    /\ at \in {"search", "verify"}
    /\ IF st.lastDevice
         THEN /\ st' = ResetCounters(st)
              /\ Answered(FALSE)
              /\ Goto("searched")
              /\ UNCHANGED <<rmtVars, wireVars>>
         ELSE /\ Reset
              /\ Goto(IF at = "search" THEN "present" ELSE "verify_present")
              /\ st' = IF at = "verify"
                         THEN [NoState EXCEPT !.lastDiscrepancy = CodeBits]
                         ELSE st
              /\ UNCHANGED <<selected, loc>>
    /\ UNCHANGED <<found, answer>>

InVerify == answer = "verifying"

SearchPresent ==
    /\ at \in {"present", "verify_present"}
    /\ Return
    /\ answer' = IF at = "verify_present" THEN "verifying" ELSE answer
    /\ IF ~call.present
         THEN /\ st' = ResetCounters(st)
              /\ Answered(FALSE)
              /\ Goto("searched")
              /\ UNCHANGED selected
         ELSE /\ selected' = devices
              /\ loc' = NoLocals
              /\ Goto("id")
              /\ UNCHANGED st
    /\ UNCHANGED <<devices, driver, faults, stuck, wire, found>>

(* What the devices that still follow send: the bit and its complement      *)
IdBit == All({d[loc.idBit] : d \in selected})
ComplementBit == All({1 - d[loc.idBit] : d \in selected})

ReadId == /\ at = "id"
          /\ CallDriver("read", 1, ReadWave(<<IdBit>>))
          /\ Goto("id_read")
          /\ UNCHANGED <<selected, st, loc, found, answer>>

IdRead == /\ at = "id_read"
          /\ Return
          /\ loc' = [loc EXCEPT !.id = call.value]
          /\ Goto("cmp")
          /\ UNCHANGED <<wireVars, st, found, answer>>

ReadComplement ==
    /\ at = "cmp"
    /\ CallDriver("read", 1, ReadWave(<<ComplementBit>>))
    /\ Goto("cmp_read")
    /\ UNCHANGED <<selected, st, loc, found, answer>>

ComplementRead == /\ at = "cmp_read"
                  /\ Return
                  /\ loc' = [loc EXCEPT !.cmp = call.value]
                  /\ Goto("decide")
                  /\ UNCHANGED <<wireVars, st, found, answer>>

(* Mutant: at the last discrepancy the 0 is taken again.                   *)
Direction_again ==
    IF loc.id # loc.cmp THEN IF Some(loc.id) THEN 1 ELSE 0
    ELSE IF loc.idBit <= st.lastDiscrepancy THEN st.rom[loc.idBit] ELSE 0

(* search_direction: the bit all devices have; before the last discrepancy *)
(* as last time; at it 1, after it 0.                                      *)
Direction ==
    IF loc.id # loc.cmp THEN IF Some(loc.id) THEN 1 ELSE 0
    ELSE IF loc.idBit < st.lastDiscrepancy THEN st.rom[loc.idBit]
    ELSE IF loc.idBit = st.lastDiscrepancy THEN 1 ELSE 0

TookZero == loc.id = loc.cmp /\ Direction = 0

NobodyAnswers == Some(loc.id) /\ Some(loc.cmp)

(* The bit is written to the bus, and the devices with another fall silent. *)
Decide ==
    /\ at = "decide"
    /\ ~NobodyAnswers
    /\ st' = [lastDiscrepancy |-> st.lastDiscrepancy,
              lastFamily |-> IF TookZero /\ loc.idBit <= Width
                               THEN loc.idBit ELSE st.lastFamily,
              lastDevice |-> st.lastDevice,
              rom |-> [st.rom EXCEPT ![loc.idBit] = Direction]]
    /\ selected' = {d \in selected :
                      d[loc.idBit] = DeviceSees(SlotsOf(<<Direction>>)[1])}
    /\ loc' = [loc EXCEPT !.idBit = @ + 1,
                          !.lastZero = IF TookZero THEN loc.idBit ELSE @]
    /\ Goto(IF loc.idBit = CodeBits THEN "end" ELSE "id")
    /\ UNCHANGED <<rmtVars, devices, driver, faults, stuck, wire, found, answer>>

(* Mutant: the CRC of the code is not looked at.                           *)
CodeComplete_noCrc == loc.idBit > CodeBits

CodeComplete == loc.idBit > CodeBits /\ Crc8(BytesOf(st.rom)) = ZeroByte

(* The end of the loop, or its break when nobody answers.                  *)
SearchEnd ==
    /\ at = "end" \/ (at = "decide" /\ NobodyAnswers)
    /\ LET s == [st EXCEPT !.lastDiscrepancy = loc.lastZero,
                           !.lastDevice = loc.lastZero = 0]
           isFound == CodeComplete /\ Some(ByteOf(st.rom, 1))
       IN  /\ Answered(isFound)
           /\ st' = IF isFound THEN s ELSE ResetCounters(st)
    /\ Goto("searched")
    /\ UNCHANGED <<rmtVars, wireVars, found, answer>>

-----------------------------------------------------------------------------
(* The callers.                                                            *)

(* checkingTemperaturesTask: keep the code and go on with owb_search_next, *)
(* or go on to owb_verify_rom. A code too many is written past the array:   *)
(* whatever lies there is lost, and the model follows it no further.       *)
KeepCode ==
    /\ at = "searched"
    /\ ~InVerify
    /\ IF ~loc.isFound THEN Goto("verify") /\ UNCHANGED found
       ELSE IF Len(found) = Quantity THEN Goto("overrun") /\ UNCHANGED found
       ELSE Goto("search") /\ found' = Append(found, st.rom)
    /\ st' = IF loc.isFound THEN st ELSE NoState
    /\ UNCHANGED <<rmtVars, wireVars, loc, answer>>

(* Mutant: only the first byte is compared.                                *)
SameCode_family(c, d) == ByteOf(c, 1) = ByteOf(d, 1)

SameCode(c, d) == \A k \in 1..Bytes : ByteOf(c, k) = ByteOf(d, k)

VerifyRom ==
    /\ at = "searched"
    /\ InVerify
    /\ answer' = IF loc.isFound /\ SameCode(Known, st.rom)
                   THEN "present" ELSE "absent"
    /\ Goto("done")
    /\ UNCHANGED <<rmtVars, wireVars, st, loc, found>>

ReadRomReset == /\ at = "read_rom"
                /\ Reset
                /\ Goto("read_rom_present")
                /\ UNCHANGED <<selected, st, loc, found, answer>>

ReadRomPresent ==
    /\ at = "read_rom_present"
    /\ Return
    /\ IF ~call.present
         THEN Goto("done") /\ answer' = "DEVICE_NOT_RESPONDING"
         ELSE Goto("byte") /\ UNCHANGED answer
    /\ UNCHANGED <<wireVars, st, loc, found>>

(* owb_read_bytes                                                          *)
ReadByte ==
    /\ at = "byte"
    /\ CallDriver("read", Width,
          ReadWave([i \in 1..Width |->
             All({d[Len(loc.rom) * Width + i] : d \in devices})]))
    /\ Goto("byte_read")
    /\ UNCHANGED <<selected, st, loc, found, answer>>

ByteRead == /\ at = "byte_read"
            /\ Return
            /\ loc' = [loc EXCEPT !.rom = Append(@, call.value)]
            /\ Goto(IF Len(loc.rom) + 1 = Bytes THEN "crc" ELSE "byte")
            /\ UNCHANGED <<wireVars, st, found, answer>>

(* The check at the end of owb_read_rom, with use_crc                      *)
CheckRom == /\ at = "crc"
            /\ answer' = IF Crc8(loc.rom) = ZeroByte THEN "OK" ELSE "CRC_FAILED"
            /\ Goto("done")
            /\ UNCHANGED <<rmtVars, wireVars, st, loc, found>>

(* A call on a bus whose ring buffer was never made.                       *)
Panic == /\ at \in {"search", "read_rom"}
         /\ driver = "rmt"
         /\ BeginPanics
         /\ UNCHANGED <<wireVars, at, st, loc, found, answer>>

Search == SearchReset \/ SearchPresent \/ ReadId \/ IdRead \/ ReadComplement
          \/ ComplementRead \/ Decide \/ SearchEnd

ReadRom == ReadRomReset \/ ReadRomPresent \/ ReadByte \/ ByteRead \/ CheckRom

Next == \/ Initialize
        \/ Search
        \/ KeepCode
        \/ VerifyRom
        \/ ReadRom
        \/ Panic
        \/ DriverStep /\ UNCHANGED <<wireVars, at, st, loc, found, answer>>

Spec == Init /\ [][Next]_vars /\ WF_vars(Next)

-----------------------------------------------------------------------------
(* Properties.                                                             *)

(* Types. A bit that was read is the lowest of its byte with owb_rmt and    *)
(* the highest with owb_gpio; the search never steps past the code.        *)
BitByte(b) == [ZeroByte EXCEPT ![IF driver = "rmt" THEN 1 ELSE Width] = b]

TypeOK ==
    /\ devices \in Populations
    /\ driver \in {"rmt", "gpio"}
    /\ selected \subseteq devices
    /\ faults \in 0..MaxFaults
    /\ stuck \in BOOLEAN
    /\ loc.idBit \in 1..CodeBits + 1
    /\ loc.lastZero \in 0..CodeBits
    /\ loc.id \in {BitByte(0), BitByte(1)} /\ loc.cmp \in {BitByte(0), BitByte(1)}
    /\ loc.rom \in Seq(Byte) /\ Len(loc.rom) <= Bytes
    /\ st.lastDiscrepancy \in 0..CodeBits
    /\ st.rom \in Codes
    /\ found \in Seq(Codes) /\ Len(found) <= Quantity
    /\ call.at \in {"idle", "receive", "stop", "done", "panic"}
    /\ call.value \in Byte

(* The search enumerates the bus: each device once, in order, and all of   *)
(* them, as long as nothing disturbs the wire; after one disturbed slot or  *)
(* trace no code is found that no device has. When the wire is held low for *)
(* good, or is disturbed more often, a code may be made up whose CRC is     *)
(* right (owb.c 115-244).                                                  *)
Disturbed == IF faults = 0 THEN "no"
             ELSE IF faults = 1 /\ ~stuck THEN "once" ELSE "badly"

Enumeration == INSTANCE OwbEnumeration WITH
    ended <- at = "verify" \/ InVerify \/ answer \in {"present", "absent"}
             \/ at = "verify_present",
    disturbed <- Disturbed

EnumerationKept == Enumeration!Init /\ [][Enumeration!Next]_Enumeration!vars

(* After at most one disturbance, owb_verify_rom never reports a device that *)
(* is not there, unless the wire is held low; and owb_read_rom never returns *)
(* with OK another code than the single device's, unless the wire is held   *)
(* low from some byte on and the bytes before happen to have the right CRC, *)
(* none at all among them (owb.c 231, 309).                                *)
CutAfter(bytes, n) == [k \in 1..Bytes |-> IF k <= n THEN bytes[k] ELSE ZeroByte]

AnswersAreTrue ==
    /\ TypeOK
    /\ faults <= 1 =>
         /\ answer = "present" => Known \in devices \/ stuck
         /\ answer = "OK" =>
              \E d \in devices, n \in IF stuck THEN 0..Bytes ELSE {Bytes} :
                 loc.rom = CutAfter(BytesOf(d), n)

(* The search and the calls after it end, whatever disturbs the wire,      *)
(* except that owb_rmt waits for ever for a trace when the wire is held low *)
(* between a reset and a read (owb_rmt.c 282). The array is overrun only   *)
(* if the bus has more devices than entries, or after a disturbance: one   *)
(* misread bit can make the search find a device twice                     *)
(* (temperatureChecker.c 98).                                              *)
SearchEnds == <>(\/ at = "done"
                 \/ call.at = "panic"
                 \/ driver = "rmt" /\ stuck
                 \/ at = "overrun" /\ (faults > 0 \/ Cardinality(devices) > Quantity))
====
