---- MODULE MCOwb ----
(* Codes of three bytes of two bits, the last one the CRC over the field of *)
(* four elements: table[b] = x^2 * b modulo x^2 + x + 1, as the code's      *)
(* table is x^8 * b modulo its polynomial. The first byte is never 0.       *)
EXTENDS Owb, TLC

Bits(n) == <<n % 2, n \div 2>>
MCTable == Bits(0) :> Bits(0) @@ Bits(1) :> Bits(3)
           @@ Bits(2) :> Bits(1) @@ Bits(3) :> Bits(2)
Xor(a, b) == [i \in 1..2 |-> (a[i] + b[i]) % 2]
MCCrcByte(crc, data) == MCTable[Xor(crc, data)]
Code(a, b) == Bits(a) \o Bits(b)
              \o MCCrcByte(MCCrcByte(Bits(0), Bits(a)), Bits(b))

C1 == Code(1, 0)
C2 == Code(1, 3)
C3 == Code(2, 1)
C4 == Code(3, 2)
C5 == Code(1, 1)
C6 == Code(2, 3)
MCPopulations == {{}, {C1}, {C4}, {C6}, {C1, C2}, {C3, C4}, {C1, C2, C4},
                  {C1, C2, C3, C4}, {C1, C2, C4, C5},
                  {C1, C2, C3, C4, C5}}
MCKnown == C2
====
