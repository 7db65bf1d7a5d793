---- MODULE OwbProofs ----
(***************************************************************************)
(* Proofs about lib/esp32-owb: a driver decodes only traces of its own      *)
(* calls; after at most one disturbance what the callers are told is true;  *)
(* and the search implements the enumeration of OwbEnumeration.            *)
(*                                                                         *)
(* In this order: numbers and codes, the CRC, the pulses, the driver, the   *)
(* steps of the callers, what they are told, and the order of the search.   *)
(***************************************************************************)
EXTENDS Owb, NaturalsInduction, WellFoundedInduction, TLAPS

(* Every nonempty set of naturals has a least element. This stands in for   *)
(* induction below: what fails somewhere fails first somewhere.            *)
LEMMA LeastNatural ==
    ASSUME NEW S \in SUBSET Nat, S # {}
    PROVE  \E n \in S : \A m \in S : n <= m
<1> DEFINE R == {p \in Nat \X Nat : p[1] < p[2]}
<1>1. IsWellFoundedOn(R, Nat)
  BY NatLessThanWellFounded, Zenon DEF OpToRel
<1>2. \E x \in S : \A y \in S : <<y, x>> \notin R
  <2> HIDE DEF R
  <2> QED BY <1>1, WFMin
<1>3. PICK x \in S : \A y \in S : <<y, x>> \notin R
  BY <1>2
<1>4. ASSUME NEW m \in S PROVE x <= m
  <2>1. m \in Nat /\ x \in Nat /\ <<m, x>> \in Nat \X Nat
    OBVIOUS
  <2>2. m < x => <<m, x>> \in R
    BY <2>1
  <2> QED BY <1>3, <2>1, <2>2
<1> QED BY <1>4

(* The widths are positive numbers.                                        *)
LEMMA CodeBitsNat == CodeBits \in Nat \ {0} /\ Bytes \in Nat \ {0} /\ Width \in Nat \ {0}
<1>1. \A b, w \in Nat \ {0} : b * w \in Nat \ {0}
  OBVIOUS
<1> QED BY <1>1, BytesAssumption, WidthAssumption DEF CodeBits

-----------------------------------------------------------------------------
(* The order of the codes.                                                 *)

Agree(c, d, n) == \A j \in 1..n : c[j] = d[j]

(* Functions with one domain and the same values are one function.         *)
LEMMA SameFunction ==
    \A D, E : \A c, d \in [D -> E] : (\A j \in D : c[j] = d[j]) => c = d
  OBVIOUS

(* Codes with the same bits are one code.                                  *)
LEMMA SameCodes ==
    ASSUME NEW c \in Codes, NEW d \in Codes, Agree(c, d, CodeBits)
    PROVE  c = d
<1> DEFINE D == 1..CodeBits
<1>1. c \in [D -> {0, 1}] /\ d \in [D -> {0, 1}]
  BY DEF Codes
<1>2. \A j \in D : c[j] = d[j]
  BY DEF Agree
<1> HIDE DEF D
<1> QED BY <1>1, <1>2, SameFunction

(* Two codes that differ part somewhere.                                   *)
LEMMA FirstDifference ==
    ASSUME NEW c \in Codes, NEW d \in Codes, c # d
    PROVE  \E i \in 1..CodeBits : c[i] # d[i] /\ Agree(c, d, i - 1)
<1> DEFINE S == {i \in 1..CodeBits : c[i] # d[i]}
<1>1. S \in SUBSET Nat
  BY CodeBitsNat
<1>2. S # {}
  BY SameCodes DEF Agree
<1>3. PICK i \in S : \A m \in S : i <= m
  <2> HIDE DEF S
  <2> QED BY <1>1, <1>2, LeastNatural
<1>4. \A j \in 1..i - 1 : c[j] = d[j]
  <2> SUFFICES ASSUME NEW j \in 1..i - 1 PROVE c[j] = d[j]
    OBVIOUS
  <2>1. i \in 1..CodeBits /\ j \in 1..CodeBits /\ j < i
    BY CodeBitsNat
  <2> QED BY <1>3, <2>1
<1> QED BY <1>3, <1>4 DEF Agree

(* One code comes before another at their first different bit.             *)
LEMMA PrecedesDef ==
    \A c, d : Precedes(c, d) <=>
       \E i \in 1..CodeBits : c[i] < d[i] /\ Agree(c, d, i - 1)
  BY DEF Precedes, Agree

(* Of two different codes one comes before the other.                      *)
LEMMA Total ==
    ASSUME NEW c \in Codes, NEW d \in Codes
    PROVE  c = d \/ Precedes(c, d) \/ Precedes(d, c)
<1> SUFFICES ASSUME c # d PROVE Precedes(c, d) \/ Precedes(d, c)
  OBVIOUS
<1>1. PICK i \in 1..CodeBits : c[i] # d[i] /\ Agree(c, d, i - 1)
  BY FirstDifference
<1>2. c[i] < d[i] \/ d[i] < c[i]
  <2>1. c[i] \in {0, 1} /\ d[i] \in {0, 1}
    BY DEF Codes
  <2> QED BY <1>1, <2>1
<1>3. Agree(d, c, i - 1)
  BY <1>1 DEF Agree
<1> QED BY <1>1, <1>2, <1>3, PrecedesDef

(* No code comes before itself,                                            *)
LEMMA Irreflexive == ASSUME NEW c \in Codes PROVE ~Precedes(c, c)
<1>1. \A i \in 1..CodeBits : ~(c[i] < c[i])
  BY DEF Codes
<1> QED BY <1>1, PrecedesDef

(* the order of the codes is transitive,                                   *)
LEMMA Transitive ==
    ASSUME NEW c \in Codes, NEW d \in Codes, NEW e \in Codes,
           Precedes(c, d), Precedes(d, e)
    PROVE  Precedes(c, e)
<1>1. PICK i \in 1..CodeBits : c[i] < d[i] /\ Agree(c, d, i - 1)
  BY PrecedesDef
<1>2. PICK k \in 1..CodeBits : d[k] < e[k] /\ Agree(d, e, k - 1)
  BY PrecedesDef
<1>3. /\ c[i] = 0 /\ d[i] = 1
      /\ d[k] = 0 /\ e[k] = 1
  BY <1>1, <1>2 DEF Codes
<1>4. i \in Int /\ k \in Int
  OBVIOUS
<1>5. i # k
  BY <1>3
<1>6. CASE i < k
  <2>1. c[i] < e[i]
    BY <1>2, <1>3, <1>4, <1>6 DEF Agree
  <2>2. Agree(c, e, i - 1)
    BY <1>1, <1>2, <1>4, <1>6 DEF Agree
  <2> QED BY <2>1, <2>2, PrecedesDef
<1>7. CASE k < i
  <2>1. c[k] < e[k]
    BY <1>1, <1>3, <1>4, <1>7 DEF Agree
  <2>2. Agree(c, e, k - 1)
    BY <1>1, <1>2, <1>4, <1>7 DEF Agree
  <2> QED BY <2>1, <2>2, PrecedesDef
<1> QED BY <1>4, <1>5, <1>6, <1>7

(* and it goes one way.                                                    *)
LEMMA Asymmetric ==
    ASSUME NEW c \in Codes, NEW d \in Codes, Precedes(c, d)
    PROVE  ~Precedes(d, c) /\ c # d
  BY Transitive, Irreflexive

(* A set of codes has a least one: follow it bit by bit.                    *)
LEMMA LeastExists ==
    ASSUME NEW S \in SUBSET Codes, S # {}
    PROVE  \E d \in S : \A e \in S \ {d} : Precedes(d, e)
<1> DEFINE Below(c, e, n) == \/ Agree(c, e, n)
                             \/ \E i \in 1..n : c[i] < e[i] /\ Agree(c, e, i - 1)
           Good(n) == \E c \in S : \A e \in S : Below(c, e, n)
           Bad == {n \in 0..CodeBits : ~Good(n)}
<1>1. Good(0)
  BY DEF Agree
<1>2. \A n \in 0..CodeBits - 1 : Good(n) => Good(n + 1)
  <2> SUFFICES ASSUME NEW n \in 0..CodeBits - 1, Good(n) PROVE Good(n + 1)
    OBVIOUS
  <2>n. /\ n \in Nat
        /\ n + 1 \in 1..CodeBits
        /\ 1..n + 1 = (1..n) \union {n + 1}
        /\ (n + 1) - 1 = n
    BY CodeBitsNat
  <2>1. PICK c \in S : \A e \in S : Below(c, e, n)
    OBVIOUS
  <2>2. \A e \in S : e[n + 1] \in {0, 1}
    BY <2>n DEF Codes
  <2>3. \A e \in S : Agree(c, e, n) /\ c[n + 1] <= e[n + 1] => Below(c, e, n + 1)
    <3> SUFFICES ASSUME NEW e \in S, Agree(c, e, n), c[n + 1] <= e[n + 1]
                 PROVE  Below(c, e, n + 1)
      OBVIOUS
    <3>1. CASE c[n + 1] = e[n + 1]
      BY <3>1, <2>n DEF Agree
    <3>2. CASE c[n + 1] < e[n + 1]
      BY <3>2, <2>n DEF Agree
    <3> QED BY <3>1, <3>2, <2>2
  <2>4. \A d, e : (\E i \in 1..n : d[i] < e[i] /\ Agree(d, e, i - 1)) => Below(d, e, n + 1)
    BY <2>n
  <2>5. CASE \E d \in S : Agree(c, d, n) /\ d[n + 1] = 0
    <3>1. PICK d \in S : Agree(c, d, n) /\ d[n + 1] = 0
      BY <2>5
    <3>2. ASSUME NEW e \in S PROVE Below(d, e, n + 1)
      <4>1. CASE Agree(c, e, n)
        <5>1. Agree(d, e, n)
          BY <3>1, <4>1 DEF Agree
        <5>2. CASE e[n + 1] = 0
          BY <5>1, <5>2, <3>1, <2>n DEF Agree
        <5>3. CASE e[n + 1] = 1
          BY <5>1, <5>3, <3>1, <2>n DEF Agree
        <5> QED BY <5>2, <5>3, <2>2
      <4>2. CASE \E i \in 1..n : c[i] < e[i] /\ Agree(c, e, i - 1)
        <5>1. PICK i \in 1..n : c[i] < e[i] /\ Agree(c, e, i - 1)
          BY <4>2
        <5>2. d[i] < e[i] /\ Agree(d, e, i - 1)
          BY <5>1, <3>1, <2>n DEF Agree
        <5> HIDE DEF Below
        <5> QED BY <5>2, <2>4
      <4> QED BY <2>1, <4>1, <4>2
    <3> QED BY <3>2
  <2>6. CASE ~\E d \in S : Agree(c, d, n) /\ d[n + 1] = 0
    <3>1. ASSUME NEW e \in S PROVE Below(c, e, n + 1)
      <4>1. CASE Agree(c, e, n)
        <5>1. Agree(c, c, n)
          BY DEF Agree
        <5>2. e[n + 1] = 1 /\ c[n + 1] = 1
          BY <4>1, <5>1, <2>2, <2>6
        <5> QED BY <5>2, <4>1, <2>3
      <4>2. CASE \E i \in 1..n : c[i] < e[i] /\ Agree(c, e, i - 1)
        <5> HIDE DEF Below
        <5> QED BY <4>2, <2>4
      <4> QED BY <2>1, <4>1, <4>2
    <3> QED BY <3>1
  <2> QED BY <2>5, <2>6
<1>3. Good(CodeBits)
  <2> SUFFICES ASSUME ~Good(CodeBits) PROVE FALSE
    OBVIOUS
  <2> HIDE DEF Good
  <2>1. Bad \in SUBSET Nat /\ Bad # {}
    BY CodeBitsNat
  <2>2. PICK n \in Bad : \A m \in Bad : n <= m
    <3> HIDE DEF Bad
    <3> QED BY <2>1, LeastNatural
  <2>3. n # 0 /\ n \in 0..CodeBits
    BY <1>1
  <2>4. n - 1 \in 0..CodeBits - 1 /\ n - 1 \notin Bad /\ (n - 1) + 1 = n
    BY <2>2, <2>3, CodeBitsNat
  <2>5. Good(n - 1)
    BY <2>4, CodeBitsNat
  <2>6. Good(n)
    BY <1>2, <2>4, <2>5
  <2> QED BY <2>2, <2>6
<1>4. PICK c \in S : \A e \in S : Below(c, e, CodeBits)
  BY <1>3
<1>5. ASSUME NEW e \in S \ {c} PROVE Precedes(c, e)
  <2>1. ~Agree(c, e, CodeBits)
    BY SameCodes
  <2> QED BY <1>4, <2>1, PrecedesDef
<1> QED BY <1>5

-----------------------------------------------------------------------------
(* The CRC.                                                                *)

IsBytes(b) == \A k \in 1..Bytes : b[k] \in Byte

(* The CRC of the first n bytes, one after the other                       *)
CrcSteps(g, b, n) ==
    /\ g[0] = ZeroByte
    /\ \A k \in 1..n : g[k] = CrcByte(g[k - 1], b[k])

(* The byte the registers start from is a byte.                            *)
LEMMA ZeroByteType == ZeroByte \in Byte
  BY DEF ZeroByte, Byte

(* A register that follows the bytes of a sequence stays a byte.           *)
LEMMA CrcStepsType ==
    ASSUME NEW b, IsBytes(b), NEW g, CrcSteps(g, b, Bytes)
    PROVE  \A k \in 0..Bytes : g[k] \in Byte
<1> SUFFICES ASSUME \E k \in 0..Bytes : g[k] \notin Byte PROVE FALSE
  OBVIOUS
<1> DEFINE Bad == {k \in 0..Bytes : g[k] \notin Byte}
<1>1. PICK k \in Bad : \A m \in Bad : k <= m
  <2>1. Bad \in SUBSET Nat /\ Bad # {}
    BY CodeBitsNat
  <2> HIDE DEF Bad
  <2> QED BY <2>1, LeastNatural
<1>2. k \in 0..Bytes /\ k # 0
  BY <1>1, ZeroByteType DEF CrcSteps
<1>3. k - 1 \in 0..Bytes /\ k - 1 \notin Bad /\ k \in 1..Bytes
  BY <1>1, <1>2, CodeBitsNat
<1>4. g[k - 1] \in Byte /\ b[k] \in Byte
  BY <1>3 DEF IsBytes
<1>5. g[k] \in Byte
  BY <1>3, <1>4, CrcAssumption DEF CrcSteps
<1> QED BY <1>1, <1>5

(* There are registers that follow a sequence of bytes.                    *)
LEMMA CrcStepsExist ==
    ASSUME NEW b
    PROVE  \E g : CrcSteps(g, b, Bytes) /\ DOMAIN g = 0..Bytes /\ g = [k \in 0..Bytes |-> g[k]]
<1> DEFINE Good(n) == \E g : CrcSteps(g, b, n) /\ g = [k \in 0..n |-> g[k]]
           Bad == {n \in 0..Bytes : ~Good(n)}
<1>1. Good(0)
  <2>1. [k \in 0..0 |-> ZeroByte][0] = ZeroByte
    OBVIOUS
  <2> DEFINE g == [k \in 0..0 |-> ZeroByte]
  <2>2. CrcSteps(g, b, 0) /\ g = [k \in 0..0 |-> g[k]]
    BY <2>1 DEF CrcSteps
  <2> QED BY <2>2
<1>2. \A n \in Nat : Good(n) => Good(n + 1)
  <2> SUFFICES ASSUME NEW n \in Nat, Good(n) PROVE Good(n + 1)
    OBVIOUS
  <2>1. PICK g : CrcSteps(g, b, n)
    OBVIOUS
  <2> DEFINE h == [k \in 0..n + 1 |-> IF k = n + 1 THEN CrcByte(g[n], b[n + 1]) ELSE g[k]]
  <2>2. \A k \in 0..n : h[k] = g[k]
    OBVIOUS
  <2>3. h[n + 1] = CrcByte(h[n], b[n + 1])
    OBVIOUS
  <2>4. h = [k \in 0..n + 1 |-> h[k]]
    OBVIOUS
  <2> HIDE DEF h
  <2>5. CrcSteps(h, b, n + 1)
    <3>1. h[0] = ZeroByte
      BY <2>1, <2>2 DEF CrcSteps
    <3>2. ASSUME NEW k \in 1..n + 1 PROVE h[k] = CrcByte(h[k - 1], b[k])
      <4>1. CASE k = n + 1
        <5>1. k - 1 = n
          BY <4>1
        <5> QED BY <2>3, <4>1, <5>1
      <4>2. CASE k # n + 1
        <5>1. k \in 1..n /\ k \in 0..n /\ k - 1 \in 0..n
          BY <4>2
        <5>2. g[k] = CrcByte(g[k - 1], b[k])
          BY <2>1, <5>1 DEF CrcSteps
        <5> QED BY <2>2, <5>1, <5>2
      <4> QED BY <4>1, <4>2
    <3> QED BY <3>1, <3>2 DEF CrcSteps
  <2> QED BY <2>4, <2>5
<1>3. Good(Bytes)
  <2> SUFFICES ASSUME ~Good(Bytes) PROVE FALSE
    OBVIOUS
  <2> HIDE DEF Good
  <2>1. PICK n \in Bad : \A m \in Bad : n <= m
    <3>1. Bad \in SUBSET Nat /\ Bad # {}
      BY CodeBitsNat
    <3> HIDE DEF Bad
    <3> QED BY <3>1, LeastNatural
  <2>2. n # 0 /\ n \in Nat
    BY <1>1, CodeBitsNat
  <2>3. n - 1 \in 0..Bytes /\ n - 1 \notin Bad /\ n - 1 \in Nat /\ (n - 1) + 1 = n
    BY <2>1, <2>2, CodeBitsNat
  <2> QED BY <1>2, <2>1, <2>3
<1> QED BY <1>3

(* The recursive function of Crc8 is such a chain.                         *)
LEMMA Crc8Steps ==
    ASSUME NEW b
    PROVE  \E g : CrcSteps(g, b, Bytes) /\ Crc8(b) = g[Bytes]
<1> DEFINE crc[k \in 0..Bytes] ==
             IF k = 0 THEN ZeroByte ELSE CrcByte(crc[k - 1], b[k])
<1>1. Crc8(b) = crc[Bytes]
  BY DEF Crc8
<1>2. crc = [k \in 0..Bytes |-> IF k = 0 THEN ZeroByte ELSE CrcByte(crc[k - 1], b[k])]
  <2>1. PICK g : CrcSteps(g, b, Bytes) /\ g = [k \in 0..Bytes |-> g[k]]
    BY CrcStepsExist
  <2>2. g = [k \in 0..Bytes |-> IF k = 0 THEN ZeroByte ELSE CrcByte(g[k - 1], b[k])]
    <3>1. \A k \in 0..Bytes : g[k] = IF k = 0 THEN ZeroByte ELSE CrcByte(g[k - 1], b[k])
      BY <2>1, CodeBitsNat DEF CrcSteps
    <3> QED BY <2>1, <3>1
  <2> QED BY <2>2
<1>3. CrcSteps(crc, b, Bytes)
  <2> HIDE DEF crc
  <2>1. \A k \in 0..Bytes : crc[k] = IF k = 0 THEN ZeroByte ELSE CrcByte(crc[k - 1], b[k])
    BY <1>2
  <2> QED BY <2>1, CodeBitsNat DEF CrcSteps
<1> HIDE DEF crc
<1> QED BY <1>1, <1>3

(* One wrong byte among right ones changes the CRC, since the table is a    *)
(* permutation: the codes with two bytes wrong may not.                    *)
LEMMA OneWrongByte ==
    ASSUME NEW b, NEW c, IsBytes(b), IsBytes(c),
           NEW p \in 1..Bytes, b[p] # c[p],
           \A k \in (1..Bytes) \ {p} : b[k] = c[k]
    PROVE  Crc8(b) # Crc8(c)
<1>1. PICK g : CrcSteps(g, b, Bytes) /\ Crc8(b) = g[Bytes]
  BY Crc8Steps
<1>2. PICK h : CrcSteps(h, c, Bytes) /\ Crc8(c) = h[Bytes]
  BY Crc8Steps
<1>3. \A k \in 0..Bytes : g[k] \in Byte /\ h[k] \in Byte
  BY <1>1, <1>2, CrcStepsType
<1>4. \A k \in 0..p - 1 : g[k] = h[k]
  <2> SUFFICES ASSUME \E k \in 0..p - 1 : g[k] # h[k] PROVE FALSE
    OBVIOUS
  <2> DEFINE Bad == {k \in 0..p - 1 : g[k] # h[k]}
  <2>1. PICK k \in Bad : \A m \in Bad : k <= m
    <3>1. Bad \in SUBSET Nat /\ Bad # {}
      OBVIOUS
    <3> HIDE DEF Bad
    <3> QED BY <3>1, LeastNatural
  <2>2. k # 0
    BY <1>1, <1>2 DEF CrcSteps
  <2>3. k - 1 \in 0..p - 1 /\ k - 1 \notin Bad /\ k \in 1..Bytes /\ k # p
    BY <2>1, <2>2, CodeBitsNat
  <2>4. g[k] = CrcByte(g[k - 1], b[k]) /\ h[k] = CrcByte(h[k - 1], c[k])
    BY <1>1, <1>2, <2>3 DEF CrcSteps
  <2>5. g[k - 1] = h[k - 1] /\ b[k] = c[k]
    BY <2>3
  <2> QED BY <2>1, <2>4, <2>5
<1>5. \A k \in p..Bytes : g[k] # h[k]
  <2> SUFFICES ASSUME \E k \in p..Bytes : g[k] = h[k] PROVE FALSE
    OBVIOUS
  <2> DEFINE Bad == {k \in p..Bytes : g[k] = h[k]}
  <2>1. PICK k \in Bad : \A m \in Bad : k <= m
    <3>1. Bad \in SUBSET Nat /\ Bad # {}
      OBVIOUS
    <3> HIDE DEF Bad
    <3> QED BY <3>1, LeastNatural
  <2>2. k \in 1..Bytes /\ k - 1 \in 0..Bytes
    BY CodeBitsNat
  <2>3. g[k] = CrcByte(g[k - 1], b[k]) /\ h[k] = CrcByte(h[k - 1], c[k])
    BY <1>1, <1>2, <2>2 DEF CrcSteps
  <2>4. /\ g[k - 1] \in Byte /\ h[k - 1] \in Byte
        /\ b[k] \in Byte /\ c[k] \in Byte
    BY <1>3, <2>2 DEF IsBytes
  <2>5. CASE k = p
    <3>1. g[k - 1] = h[k - 1]
      BY <1>4, <2>5
    <3>2. b[k] # c[k]
      BY <2>5
    <3>3. CrcByte(g[k - 1], b[k]) # CrcByte(g[k - 1], c[k])
      BY <2>4, <3>2, CrcAssumption
    <3> QED BY <2>1, <2>3, <3>1, <3>3
  <2>6. CASE k # p
    <3>1. k - 1 \in p..Bytes /\ k - 1 \notin Bad
      BY <2>1, <2>6, CodeBitsNat
    <3>2. g[k - 1] # h[k - 1] /\ b[k] = c[k]
      BY <3>1, <2>2, <2>6
    <3>3. CrcByte(g[k - 1], b[k]) # CrcByte(h[k - 1], b[k])
      BY <2>4, <3>2, CrcAssumption
    <3> QED BY <2>1, <2>3, <3>2, <3>3
  <2> QED BY <2>5, <2>6
<1> QED BY <1>1, <1>2, <1>5, CodeBitsNat

-----------------------------------------------------------------------------
(* Bytes of codes.                                                         *)

(* The products the pulse counts need.                                     *)
LEMMA Times ==
    ASSUME NEW w \in Nat, NEW b \in Nat, NEW k \in 1..b
    PROVE  (k - 1) * w + w <= b * w /\ (k - 1) * w \in Nat
                                  /\ (k < b => k * w + w <= b * w)
                                  /\ (k - 1) * w + w = k * w
<1>1. \A x, y \in Nat : x <= y => x * w <= y * w
  <2>1. \A x, z \in Nat : (x + z) * w = x * w + z * w /\ z * w >= 0 /\ x * w \in Nat /\ z * w \in Nat
    OBVIOUS
  <2> SUFFICES ASSUME NEW x \in Nat, NEW y \in Nat, x <= y PROVE x * w <= y * w
    OBVIOUS
  <2>2. y - x \in Nat /\ x + (y - x) = y
    OBVIOUS
  <2> QED BY <2>1, <2>2
<1>2. (k - 1) * w + w = k * w /\ k * w + w = (k + 1) * w /\ (k - 1) * w \in Nat
  OBVIOUS
<1>3. k * w <= b * w
  BY <1>1
<1>4. k < b => (k + 1) * w <= b * w
  BY <1>1
<1> QED BY <1>2, <1>3, <1>4

(* A bit of a code lies in one byte, at one place.                         *)
LEMMA Index ==
    ASSUME NEW k \in 1..Bytes, NEW i \in 1..Width
    PROVE  /\ (k - 1) * Width + i \in 1..CodeBits
           /\ (k - 1) * Width + i = CodeBits <=> k = Bytes /\ i = Width
<1>1. /\ (k - 1) * Width + Width <= Bytes * Width
      /\ (k - 1) * Width \in Nat
      /\ k < Bytes => k * Width + Width <= Bytes * Width
      /\ (k - 1) * Width + Width = k * Width
  BY Times, CodeBitsNat
<1>2. CodeBits = Bytes * Width /\ CodeBits \in Nat
  BY CodeBitsNat DEF CodeBits
<1>3. k * Width \in Nat /\ Width > 0
  BY CodeBitsNat
<1> QED BY <1>1, <1>2, <1>3, CodeBitsNat

(* Every bit is in some byte.                                              *)
LEMMA ByteOfBit ==
    ASSUME NEW j \in 1..CodeBits
    PROVE  \E k \in 1..Bytes, i \in 1..Width : j = (k - 1) * Width + i
<1> DEFINE S == {k \in 1..Bytes : j <= k * Width}
<1>1. Bytes \in S
  BY CodeBitsNat DEF CodeBits
<1>2. S \in SUBSET Nat /\ S # {}
  BY <1>1
<1>3. PICK k \in S : \A m \in S : k <= m
  <2> HIDE DEF S
  <2> QED BY <1>2, LeastNatural
<1>4. k \in 1..Bytes /\ k \in Nat /\ (k - 1) * Width \in Nat /\ (k - 1) * Width + Width = k * Width
  BY Times, CodeBitsNat
<1>5. (k - 1) * Width < j
  <2>1. CASE k = 1
    BY <2>1, CodeBitsNat
  <2>2. CASE k # 1
    <3>1. k - 1 \in 1..Bytes /\ k - 1 \notin S
      BY <1>3, <1>4, <2>2, CodeBitsNat
    <3> QED BY <3>1, <1>4, CodeBitsNat
  <2> QED BY <2>1, <2>2
<1> DEFINE i == j - (k - 1) * Width
<1>6. i \in 1..Width /\ j = (k - 1) * Width + i
  BY <1>3, <1>4, <1>5, CodeBitsNat
<1> QED BY <1>4, <1>6

(* A byte of a code is a byte,                                             *)
LEMMA ByteOfType ==
    ASSUME NEW c \in Codes, NEW k \in 1..Bytes
    PROVE  ByteOf(c, k) \in Byte
<1>1. \A i \in 1..Width : c[(k - 1) * Width + i] \in {0, 1}
  BY Index DEF Codes
<1> QED BY <1>1 DEF ByteOf, Byte

(* the bytes of a code are bytes,                                          *)
LEMMA BytesOfType == \A c \in Codes : IsBytes(BytesOf(c))
  BY ByteOfType DEF IsBytes, BytesOf

(* and a code is known by its bytes.                                       *)
LEMMA SameBytes ==
    ASSUME NEW c \in Codes, NEW d \in Codes,
           \A k \in 1..Bytes : ByteOf(c, k) = ByteOf(d, k)
    PROVE  c = d
<1>1. ASSUME NEW j \in 1..CodeBits PROVE c[j] = d[j]
  <2>1. PICK k \in 1..Bytes, i \in 1..Width : j = (k - 1) * Width + i
    BY ByteOfBit
  <2>2. ByteOf(c, k)[i] = c[j] /\ ByteOf(d, k)[i] = d[j]
    BY <2>1 DEF ByteOf
  <2> QED BY <2>2
<1> QED BY <1>1, SameCodes DEF Agree

(* The search can take a wrong direction at the last bit without a device   *)
(* to notice: then the CRC does.                                           *)
LEMMA LastBitCaught ==
    ASSUME NEW c \in Codes, NEW d \in Codes, RightCode(d),
           Agree(c, d, CodeBits - 1), c[CodeBits] # d[CodeBits]
    PROVE  Crc8(BytesOf(c)) # ZeroByte
<1>1. \A k \in (1..Bytes) \ {Bytes} : ByteOf(c, k) = ByteOf(d, k)
  <2> SUFFICES ASSUME NEW k \in (1..Bytes) \ {Bytes} PROVE ByteOf(c, k) = ByteOf(d, k)
    OBVIOUS
  <2>1. \A i \in 1..Width : (k - 1) * Width + i \in 1..CodeBits - 1
    <3> SUFFICES ASSUME NEW i \in 1..Width PROVE (k - 1) * Width + i \in 1..CodeBits - 1
      OBVIOUS
    <3> DEFINE x == (k - 1) * Width + i
    <3>1. x \in 1..CodeBits /\ x # CodeBits
      BY Index
    <3> HIDE DEF x
    <3>2. x \in 1..CodeBits - 1
      BY <3>1, CodeBitsNat
    <3> QED BY <3>2 DEF x
  <2> QED BY <2>1 DEF Agree, ByteOf
<1>2. ByteOf(c, Bytes) # ByteOf(d, Bytes)
  <2>1. Bytes \in 1..Bytes /\ Width \in 1..Width
    BY CodeBitsNat
  <2>2. (Bytes - 1) * Width + Width = CodeBits
    BY <2>1, Index
  <2>3. ByteOf(c, Bytes)[Width] = c[CodeBits] /\ ByteOf(d, Bytes)[Width] = d[CodeBits]
    BY <2>1, <2>2 DEF ByteOf
  <2> QED BY <2>3
<1>3. Crc8(BytesOf(c)) # Crc8(BytesOf(d))
  <2>1. Bytes \in 1..Bytes
    BY CodeBitsNat
  <2>2. /\ BytesOf(c)[Bytes] # BytesOf(d)[Bytes]
        /\ \A k \in (1..Bytes) \ {Bytes} : BytesOf(c)[k] = BytesOf(d)[k]
    BY <2>1, <1>1, <1>2 DEF BytesOf
  <2> QED BY <2>1, <2>2, BytesOfType, OneWrongByte
<1> QED BY <1>3 DEF RightCode

-----------------------------------------------------------------------------
(* Waves.                                                                  *)

(* The held low time is longer than every threshold the decoders compare with. *)
LEMMA HoldNat == /\ Hold \in Nat /\ Hold >= 13 /\ Hold > 15 /\ Hold < 75
  BY HoldAssumption, SampleAssumption
     DEF OW_DURATION_SAMPLE, OW_DURATION_SLOT, Timing

(* The pulses of a read, one for each bit.                                 *)
LEMMA ReadWaveIs ==
    ASSUME NEW n \in Nat, NEW bits \in [1..n -> {0, 1}]
    PROVE  /\ ReadWave(bits) \in Seq([low : Nat, high : Nat])
           /\ Len(ReadWave(bits)) = n
           /\ DOMAIN ReadWave(bits) = 1..n
           /\ \A i \in 1..n :
                /\ ReadWave(bits)[i].low = IF bits[i] = 1 THEN 2 ELSE Hold
                /\ ReadWave(bits)[i].high < OW_DURATION_RX_IDLE
                /\ ReadWave(bits)[i].low < OW_DURATION_RX_IDLE
<1>1. ReadWave(bits) = [i \in 1..n |-> Pulse(IF bits[i] = 1 THEN 2 ELSE Hold)]
  BY DEF ReadWave, OW_DURATION_1_LOW
<1>2. \A x \in {2, Hold} : /\ Pulse(x) \in [low : Nat, high : Nat]
                           /\ Pulse(x).low = x
                           /\ Pulse(x).high < OW_DURATION_RX_IDLE
                           /\ x < OW_DURATION_RX_IDLE
  BY HoldNat DEF Pulse, OW_DURATION_SLOT, OW_DURATION_RX_IDLE
<1>3. \A i \in 1..n : (IF bits[i] = 1 THEN 2 ELSE Hold) \in {2, Hold}
  OBVIOUS
<1>4. ReadWave(bits) \in [1..n -> [low : Nat, high : Nat]]
  BY <1>1, <1>2, <1>3
<1>5. \A i \in 1..n : ReadWave(bits)[i] = Pulse(IF bits[i] = 1 THEN 2 ELSE Hold)
  BY <1>1
<1> HIDE DEF OW_DURATION_RX_IDLE
<1>6. ReadWave(bits) \in Seq([low : Nat, high : Nat])
  <2> DEFINE R == [low : Nat, high : Nat]
  <2> HIDE DEF R
  <2>1. \A w \in [1..n -> R] : w \in Seq(R)
    OBVIOUS
  <2> USE DEF R
  <2> QED BY <1>4, <2>1
<1>7. Len(ReadWave(bits)) = n /\ DOMAIN ReadWave(bits) = 1..n
  BY <1>4, <1>6
<1> QED BY <1>2, <1>3, <1>5, <1>6, <1>7

(* The recording of read slots has each of them, up to the last one's end.  *)
LEMMA RecordReadWave ==
    ASSUME NEW n \in Nat \ {0}, NEW bits \in [1..n -> {0, 1}]
    PROVE  LET t == Record(ReadWave(bits), OW_DURATION_RX_IDLE)
           IN  /\ Len(t) = n
               /\ \A i \in 1..n : t[i].low = IF bits[i] = 1 THEN 2 ELSE Hold
<1> DEFINE wave == ReadWave(bits)
           idle == OW_DURATION_RX_IDLE
           cuts == {i \in DOMAIN wave : \/ wave[i].low >= idle
                                        \/ wave[i].high >= idle
                                        \/ i = Len(wave)}
           last == CHOOSE i \in cuts : \A j \in cuts : i <= j
           t == Record(wave, idle)
<1>1. /\ wave \in Seq([low : Nat, high : Nat])
      /\ Len(wave) = n /\ DOMAIN wave = 1..n
      /\ \A i \in 1..n : /\ wave[i].low = IF bits[i] = 1 THEN 2 ELSE Hold
                         /\ wave[i].high < idle
                         /\ wave[i].low < idle
                         /\ wave[i].low \in Nat /\ wave[i].high \in Nat
  <2>1. /\ wave \in Seq([low : Nat, high : Nat])
        /\ Len(wave) = n /\ DOMAIN wave = 1..n
        /\ \A i \in 1..n : /\ wave[i].low = IF bits[i] = 1 THEN 2 ELSE Hold
                           /\ wave[i].high < idle
                           /\ wave[i].low < idle
    BY ReadWaveIs
  <2> DEFINE R == [low : Nat, high : Nat]
  <2> HIDE DEF wave, idle, R
  <2>2. \A i \in 1..n : wave[i] \in R
    <3>1. wave \in Seq(R) /\ Len(wave) = n
      BY <2>1 DEF R
    <3> QED BY <3>1
  <2>3. \A r \in R : r.low \in Nat /\ r.high \in Nat
    BY DEF R
  <2> QED BY <2>1, <2>2, <2>3
<1>2. idle \in Nat
  BY DEF OW_DURATION_RX_IDLE, OW_DURATION_SLOT
<1>3. t = [i \in 1..last |->
             IF i < last THEN wave[i]
             ELSE [low |-> IF wave[i].low >= idle THEN 0 ELSE wave[i].low, high |-> 0]]
  BY DEF Record
<1> HIDE DEF wave, idle, t
<1>4. cuts = {n}
  BY <1>1, <1>2
<1>5. last = n
  BY <1>4
<1> HIDE DEF last
<1>6. t \in Seq({t[i] : i \in 1..n}) /\ Len(t) = n
  <2>1. t \in [1..n -> {t[i] : i \in 1..n}]
    BY <1>3, <1>5
  <2> QED BY <2>1
<1>7. \A i \in 1..n : t[i].low = IF bits[i] = 1 THEN 2 ELSE Hold
  <2> SUFFICES ASSUME NEW i \in 1..n PROVE t[i].low = IF bits[i] = 1 THEN 2 ELSE Hold
    OBVIOUS
  <2>1. ~(wave[i].low >= idle)
    BY <1>1, <1>2
  <2>2. t[i].low = wave[i].low
    BY <1>3, <1>5, <2>1
  <2> QED BY <1>1, <2>2
<1> QED BY <1>6, <1>7 DEF t, wave, idle

(* Each driver returns the bits the devices send, at its end of the byte.   *)
LEMMA RmtReads ==
    ASSUME NEW n \in 1..Width, NEW bits \in [1..n -> {0, 1}]
    PROVE  ReadData(Record(ReadWave(bits), OW_DURATION_RX_IDLE), n)
             = [k \in 1..Width |-> IF k <= n THEN bits[k] ELSE 0]
<1> DEFINE t == Record(ReadWave(bits), OW_DURATION_RX_IDLE)
<1>1. /\ Len(t) = n
      /\ \A i \in 1..n : t[i].low = IF bits[i] = 1 THEN 2 ELSE Hold
  BY RecordReadWave, CodeBitsNat
<1> HIDE DEF t
<1>2. \A k \in 1..Width :
        (IF n <= Len(t) /\ k <= n /\ t[k].low < OW_DURATION_SAMPLE THEN 1 ELSE 0)
          = IF k <= n THEN bits[k] ELSE 0
  <2> SUFFICES ASSUME NEW k \in 1..Width, k <= n
               PROVE  (IF t[k].low < OW_DURATION_SAMPLE THEN 1 ELSE 0) = bits[k]
    BY <1>1
  <2>1. k \in 1..n /\ bits[k] \in {0, 1}
    OBVIOUS
  <2> QED BY <1>1, <2>1, HoldNat DEF OW_DURATION_SAMPLE
<1>3. ReadData(t, n) = [k \in 1..Width |->
        IF n <= Len(t) /\ k <= n /\ t[k].low < OW_DURATION_SAMPLE THEN 1 ELSE 0]
  BY DEF ReadData
<1>4. ReadData(t, n) = [k \in 1..Width |-> IF k <= n THEN bits[k] ELSE 0]
  BY <1>2, <1>3
<1> QED BY <1>4 DEF t

(* What owb_gpio samples of a wave.                                        *)
LEMMA GpioReads ==
    ASSUME NEW n \in 1..Width, NEW bits \in [1..n -> {0, 1}]
    PROVE  GpioReadData(ReadWave(bits))
             = [k \in 1..Width |-> IF k > Width - n THEN bits[k - (Width - n)] ELSE 0]
<1> DEFINE t == ReadWave(bits)
<1>1. /\ Len(t) = n
      /\ \A i \in 1..n : t[i].low = IF bits[i] = 1 THEN 2 ELSE Hold
  BY ReadWaveIs, CodeBitsNat
<1> HIDE DEF t
<1>2. \A k \in 1..Width :
        (IF k > Width - Len(t) /\ GpioReadBit(t[k - (Width - Len(t))]) THEN 1 ELSE 0)
          = IF k > Width - n THEN bits[k - (Width - n)] ELSE 0
  <2> SUFFICES ASSUME NEW k \in 1..Width, k > Width - n
               PROVE  (IF GpioReadBit(t[k - (Width - n)]) THEN 1 ELSE 0)
                        = bits[k - (Width - n)]
    BY <1>1
  <2> DEFINE i == k - (Width - n)
  <2>1. i \in 1..n /\ bits[i] \in {0, 1}
    BY CodeBitsNat
  <2>2. t[i].low = IF bits[i] = 1 THEN 2 ELSE Hold
    BY <1>1, <2>1
  <2>3. GpioReadBit(t[i]) <=> t[i].low <= 15
    BY DEF GpioReadBit, Timing
  <2> HIDE DEF i
  <2>4. (IF GpioReadBit(t[i]) THEN 1 ELSE 0) = bits[i]
    BY <2>1, <2>2, <2>3, HoldNat
  <2> QED BY <2>4 DEF i
<1>3. GpioReadData(t) = [k \in 1..Width |->
        IF k > Width - Len(t) /\ GpioReadBit(t[k - (Width - Len(t))]) THEN 1 ELSE 0]
  BY DEF GpioReadData
<1>4. GpioReadData(t)
        = [k \in 1..Width |-> IF k > Width - n THEN bits[k - (Width - n)] ELSE 0]
  BY <1>2, <1>3
<1> QED BY <1>4 DEF t

(* A single bit ends up as a BitByte, whichever driver reads it.            *)
LEMMA OneBit ==
    ASSUME NEW b \in {0, 1}
    PROVE  /\ driver = "rmt" =>
                ReadData(Record(ReadWave(<<b>>), OW_DURATION_RX_IDLE), 1) = BitByte(b)
           /\ driver # "rmt" => GpioReadData(ReadWave(<<b>>)) = BitByte(b)
<1>1. <<b>> \in [1..1 -> {0, 1}] /\ <<b>>[1] = b /\ 1 \in 1..Width
  BY CodeBitsNat
<1>2. ASSUME driver = "rmt"
      PROVE  ReadData(Record(ReadWave(<<b>>), OW_DURATION_RX_IDLE), 1) = BitByte(b)
  <2>1. BitByte(b) = [k \in 1..Width |-> IF k <= 1 THEN <<b>>[k] ELSE 0]
    <3>1. BitByte(b) = [k \in 1..Width |-> IF k = 1 THEN b ELSE 0]
      BY <1>1, <1>2 DEF BitByte, ZeroByte
    <3>2. \A k \in 1..Width : (IF k = 1 THEN b ELSE 0) = IF k <= 1 THEN <<b>>[k] ELSE 0
      BY <1>1
    <3> QED BY <3>1, <3>2
  <2> QED BY <1>1, <2>1, RmtReads
<1>3. ASSUME driver # "rmt"
      PROVE  GpioReadData(ReadWave(<<b>>)) = BitByte(b)
  <2>1. BitByte(b) = [k \in 1..Width |-> IF k > Width - 1 THEN <<b>>[k - (Width - 1)] ELSE 0]
    BY <1>1, <1>3, CodeBitsNat DEF BitByte, ZeroByte
  <2> QED BY <1>1, <2>1, GpioReads
<1> QED BY <1>2, <1>3

(* A bit as a byte of its own is read back as that bit.                    *)
LEMMA BitByteFacts ==
    /\ \A b \in {0, 1} : /\ BitByte(b) \in Byte
                         /\ Some(BitByte(b)) <=> b = 1
    /\ BitByte(0) = ZeroByte
    /\ BitByte(0) # BitByte(1)
<1> DEFINE p == IF driver = "rmt" THEN 1 ELSE Width
<1>1. p \in 1..Width
  BY CodeBitsNat
<1>2. \A b : BitByte(b) = [ZeroByte EXCEPT ![p] = b]
  BY DEF BitByte
<1> HIDE DEF p
<1>3. ASSUME NEW b \in {0, 1}
      PROVE  BitByte(b) = [i \in 1..Width |-> IF i = p THEN b ELSE 0]
  BY <1>2 DEF ZeroByte
<1>4. \A b \in {0, 1} : BitByte(b) \in Byte /\ (Some(BitByte(b)) <=> b = 1)
  BY <1>1, <1>3 DEF Byte, Some
<1>5. BitByte(0) = ZeroByte
  BY <1>3 DEF ZeroByte
<1> QED BY <1>4, <1>5

(* What the presence test says of a wave of a reset.                       *)
LEMMA PresenceIs ==
    ASSUME NEW b \in BOOLEAN
    PROVE  /\ Presence(Record(ResetWave(b), OW_RESET_IDLE)) <=> b
           /\ GpioPresence(ResetWave(b)) <=> b
<1>1. GpioPresence(ResetWave(b)) <=> b
  BY DEF GpioPresence, ResetWave, Timing
<1>2. Presence(Record(ResetWave(b), OW_RESET_IDLE)) <=> b
  <2> DEFINE wave == ResetWave(b)
             idle == OW_RESET_IDLE
             cuts == {i \in DOMAIN wave : \/ wave[i].low >= idle
                                          \/ wave[i].high >= idle
                                          \/ i = Len(wave)}
             last == CHOOSE i \in cuts : \A j \in cuts : i <= j
             t == Record(wave, idle)
  <2>1. t = [i \in 1..last |->
               IF i < last THEN wave[i]
               ELSE [low |-> IF wave[i].low >= idle THEN 0 ELSE wave[i].low, high |-> 0]]
    BY DEF Record
  <2>2. idle = 540
    BY DEF OW_RESET_IDLE, OW_DURATION_RESET
  <2>3. CASE b
    <3>1. wave = <<[low |-> 480, high |-> 30], [low |-> 120, high |-> 10000]>>
      BY <2>3 DEF ResetWave, OW_DURATION_RESET, Forever
    <3> HIDE DEF wave, idle, t
    <3>2. cuts = {2}
      BY <3>1, <2>2
    <3>3. last = 2
      <4>1. \A S : S = {2} => (CHOOSE i \in S : \A j \in S : i <= j) = 2
        OBVIOUS
      <4> HIDE DEF cuts
      <4> QED BY <3>2, <4>1
    <3> HIDE DEF last
    <3>4. t[1] = [low |-> 480, high |-> 30] /\ Len(t) = 2
      BY <2>1, <3>1, <3>3
    <3>5. Presence(t)
      BY <3>4 DEF Presence, OW_DURATION_RESET
    <3> QED BY <3>5, <2>3 DEF t, wave, idle
  <2>4. CASE ~b
    <3>1. wave = <<[low |-> 480, high |-> 10000]>>
      BY <2>4 DEF ResetWave, OW_DURATION_RESET, Forever
    <3> HIDE DEF wave, idle, t
    <3>2. cuts = {1}
      BY <3>1, <2>2
    <3>3. last = 1
      BY <3>2
    <3> HIDE DEF last
    <3>4. t[1].high = 0
      BY <2>1, <3>1, <3>3
    <3>5. ~Presence(t)
      BY <3>4 DEF Presence
    <3> QED BY <3>5, <2>4 DEF t, wave, idle
  <2> QED BY <2>3, <2>4
<1> QED BY <1>1, <1>2

(* Every trace in the buffer and every one still to come is the call's own *)
(* or, between two calls, that of the call before, whose id is still there. *)
OwnTraces ==
    /\ gotId = callId
    /\ \E X : /\ rb \in Seq([items : X, id : {callId}])
              /\ air \in Seq([items : X, id : {callId}])

(* The traces of a call are a sequence, whatever the disturbance.          *)
LEMMA TracesAreSequences ==
    ASSUME NEW wave, NEW noise \in Disturbances
    PROVE  \E Y : Traces(wave, noise) \in Seq(Y)
<1> DEFINE Y == {wave, Flip(wave), Spike}
<1>1. CASE noise = "none"
  BY <1>1, <<wave>> \in Seq(Y) DEF Traces
<1>2. CASE noise = "flip"
  BY <1>2, <<Flip(wave)>> \in Seq(Y) DEF Traces
<1>3. CASE noise = "before"
  BY <1>3, <<Spike, wave>> \in Seq(Y) DEF Traces
<1>4. CASE noise = "after"
  BY <1>4, <<wave, Spike>> \in Seq(Y) DEF Traces
<1>5. CASE noise = "stuck"
  BY <1>5, <<>> \in Seq(Y) DEF Traces
<1> QED BY <1>1, <1>2, <1>3, <1>4, <1>5 DEF Disturbances

(* A new call flushes the buffer: only its own traces are to come.         *)
LEMMA BeginOwn ==
    ASSUME NEW op, NEW n, NEW wave, NEW noise \in Disturbances,
           Begin(op, n, Traces(wave, noise))
    PROVE  OwnTraces'
<1> DEFINE traces == Traces(wave, noise)
           X == {Record(traces[i], rmt'.idle) : i \in DOMAIN traces}
           S == [items : X, id : {callId'}]
<1>1. /\ gotId' = callId'
      /\ rb' = <<>>
      /\ air' = [i \in DOMAIN traces |-> [items |-> Record(traces[i], rmt'.idle),
                                          id |-> callId']]
  BY DEF Begin, Flushed
<1>2. PICK Y : traces \in Seq(Y)
  BY TracesAreSequences
<1>3. Len(traces) \in Nat /\ DOMAIN traces = 1..Len(traces)
  BY <1>2
<1>4. \A i \in DOMAIN traces :
         [items |-> Record(traces[i], rmt'.idle), id |-> callId'] \in S
  OBVIOUS
<1> HIDE DEF traces, S
<1>5. air' \in [1..Len(traces) -> S]
  BY <1>1, <1>3, <1>4
<1>6. air' \in Seq(S) /\ rb' \in Seq(S)
  BY <1>1, <1>3, <1>5
<1> USE DEF S
<1> QED BY <1>1, <1>6 DEF OwnTraces

(* The driver's own steps move or drop traces.                             *)
LEMMA DriverOwn == OwnTraces /\ DriverStep => OwnTraces'
<1> SUFFICES ASSUME OwnTraces, DriverStep PROVE OwnTraces'
  OBVIOUS
<1>1. PICK X : /\ rb \in Seq([items : X, id : {callId}])
               /\ air \in Seq([items : X, id : {callId}])
  BY DEF OwnTraces
<1> DEFINE S == [items : X, id : {callId}]
<1>2. gotId = callId
  BY DEF OwnTraces
<1>3. CASE TraceArrives
  <2> HIDE DEF S
  <2>1. rb' \in Seq(S) /\ air' \in Seq(S)
    <3>1. rb \in Seq(S) /\ air \in Seq(S)
      BY <1>1 DEF S
    <3>2. Head(air) \in S /\ Tail(air) \in Seq(S)
      BY <3>1, <1>3 DEF TraceArrives
    <3> QED BY <3>1, <3>2, <1>3 DEF TraceArrives
  <2>2. UNCHANGED <<callId, gotId>>
    BY <1>3 DEF TraceArrives
  <2> QED BY <1>2, <2>1, <2>2 DEF OwnTraces, S
<1>4. CASE Receive
  <2>1. rb \in Seq(S) /\ air \in Seq(S) /\ rb # <<>>
    BY <1>1, <1>4 DEF Receive
  <2> HIDE DEF S
  <2>2. rb' \in Seq(S) /\ air' \in Seq(S)
    <3>1. rb' = Tail(rb) /\ air' = air
      BY <1>4 DEF Receive
    <3> QED BY <2>1, <3>1
  <2>4. Head(rb) \in S
    BY <2>1
  <2>5. Head(rb).id = callId
    BY <2>4 DEF S
  <2>3. gotId' = Head(rb).id /\ callId' = callId
    BY <1>4 DEF Receive
  <2> QED BY <2>5, <2>2, <2>3 DEF OwnTraces, S
<1>5. CASE ReceiveTimesOut
  BY <1>1, <1>2, <1>5 DEF ReceiveTimesOut, OwnTraces
<1>6. CASE Stop
  <2>1. air' \in Seq(S)
    BY <1>6 DEF Stop
  <2> QED BY <1>1, <1>2, <1>6, <2>1 DEF Stop, OwnTraces
<1> QED BY <1>3, <1>4, <1>5, <1>6 DEF DriverStep

(* A step that leaves the ring buffer and the trace alone keeps OwnTraces, *)
LEMMA StutterOwn == OwnTraces /\ UNCHANGED <<rb, air, callId, gotId>> => OwnTraces'
  BY DEF OwnTraces

(* A call of either driver: owb_gpio has no buffer.                        *)
LEMMA CallOwn ==
    ASSUME OwnTraces, NEW op, NEW n, NEW wave, CallDriver(op, n, wave)
    PROVE  OwnTraces'
<1>1. PICK noise \in Disturbances :
         \/ Begin(op, n, Traces(wave, noise))
         \/ UNCHANGED <<rmt, rb, air, callId, gotId>>
  BY DEF CallDriver, Disturbances
<1> QED BY <1>1, BeginOwn, StutterOwn

(* and so does every step.                                                 *)
LEMMA NextOwn == OwnTraces /\ [Next]_vars => OwnTraces'
<1> SUFFICES ASSUME OwnTraces, [Next]_vars PROVE OwnTraces'
  OBVIOUS
<1>1. CASE Initialize \/ Panic
  BY <1>1, StutterOwn DEF Initialize, Install, Panic, BeginPanics, rmtVars
<1>2. CASE SearchReset
  BY <1>2, StutterOwn, CallOwn DEF SearchReset, Reset, rmtVars
<1>3. CASE SearchPresent \/ IdRead \/ ComplementRead \/ ReadRomPresent \/ ByteRead
  BY <1>3, StutterOwn
     DEF SearchPresent, IdRead, ComplementRead, ReadRomPresent, ByteRead, Return
<1>4. CASE ReadId \/ ReadComplement \/ ReadByte \/ ReadRomReset
  BY <1>4, CallOwn DEF ReadId, ReadComplement, ReadByte, ReadRomReset, Reset
<1>5. CASE Decide \/ SearchEnd \/ KeepCode \/ VerifyRom \/ CheckRom
  BY <1>5, StutterOwn DEF Decide, SearchEnd, KeepCode, VerifyRom, CheckRom, rmtVars
<1>6. CASE DriverStep
  BY <1>6, DriverOwn
<1>7. CASE UNCHANGED vars
  BY <1>7, StutterOwn DEF vars, rmtVars
<1> QED BY <1>1, <1>2, <1>3, <1>4, <1>5, <1>6, <1>7 DEF Next, Search, ReadRom

(* Whatever a disturbance leaves in the ring buffer, and whatever calls the *)
(* search, the verification and owb_read_rom make, a call decodes only a    *)
(* trace recorded during that same call.                                   *)
THEOREM NoStaleTrace == Spec => []StaleTraceNeverDecoded
<1>1. Init => OwnTraces
  <2> SUFFICES ASSUME Init PROVE OwnTraces
    OBVIOUS
  <2>1. rb = <<>> /\ air = <<>> /\ gotId = callId
    BY DEF Init, RmtInit
  <2>2. <<>> \in Seq([items : {}, id : {callId}])
    OBVIOUS
  <2> QED BY <2>1, <2>2 DEF OwnTraces
<1>2. OwnTraces /\ [Next]_vars => OwnTraces'
  BY NextOwn
<1>3. OwnTraces => StaleTraceNeverDecoded
  BY DEF OwnTraces, StaleTraceNeverDecoded
<1> QED BY <1>1, <1>2, <1>3, PTL DEF Spec

-----------------------------------------------------------------------------
(* The driver.                                                             *)

(* The trace of an undisturbed call                                        *)
Recorded == Record(wire.wave, IF call.op = "reset" THEN OW_RESET_IDLE
                                                   ELSE OW_DURATION_RX_IDLE)
OwnTrace == [items |-> Recorded, id |-> callId]

InCall == call.at \in {"receive", "stop", "done"}
HasResult == call.at \in {"stop", "done"}

CallTypes ==
    /\ rmt \in [tx : BOOLEAN, rx : BOOLEAN, on : BOOLEAN, idle : Nat]
    /\ DOMAIN call = {"op", "n", "at", "status", "present", "value"}
    /\ call.op \in {"none", "reset", "read"}
    /\ call.n \in Nat
    /\ call.at \in {"idle", "receive", "stop", "done", "panic"}
    /\ call.present \in BOOLEAN
    /\ call.value \in Byte
    /\ call.at \in {"idle", "done", "panic"} => rmt.idle = OW_DURATION_RX_IDLE
    /\ call.at \in {"receive", "stop"} => driver = "rmt"

(* A call that nothing disturbs has its one trace ahead of it and returns   *)
(* what the trace, or the wire, says.                                      *)
CleanCall ==
    wire.noise = "none" =>
      /\ call.at = "receive" => \/ rb = <<>> /\ air = <<OwnTrace>>
                                \/ rb = <<OwnTrace>> /\ air = <<>>
      /\ HasResult /\ call.op = "read" =>
           call.value = IF driver = "rmt" THEN ReadData(Recorded, call.n)
                                          ELSE GpioReadData(wire.wave)
      /\ HasResult /\ call.op = "reset" =>
           call.present <=> IF driver = "rmt" THEN Presence(Recorded)
                                              ELSE GpioPresence(wire.wave)

(* No disturbance makes up a presence pulse.                               *)
NoPresence ==
    InCall /\ call.op = "reset" /\ wire.wave = ResetWave(FALSE) =>
      /\ ~call.present
      /\ call.at = "receive" =>
           /\ \A i \in DOMAIN rb : ~Presence(rb[i].items)
           /\ \A i \in DOMAIN air : ~Presence(air[i].items)

(* Nothing is read from a wire that is held low.                           *)
StuckCall ==
    InCall /\ wire.noise = "stuck" =>
      /\ ~call.present
      /\ call.value = ZeroByte
      /\ call.at = "receive" => rb = <<>> /\ air = <<>>

DriverInv == CallTypes /\ CleanCall /\ NoPresence /\ StuckCall

Resetting == {"present", "verify_present", "read_rom_present"}
BitReading == {"id_read", "cmp_read"}
Searching == {"id", "id_read", "cmp", "cmp_read", "decide", "end"}
RomReading == {"read_rom", "read_rom_present", "byte", "byte_read", "crc"}
Labels == {"initialize", "search", "verify", "searched", "overrun", "done"}
          \union Resetting \union Searching \union RomReading

(* Which call is under way where                                           *)
CallInv ==
    /\ at \in Resetting => /\ InCall
                           /\ call.op = "reset"
                           /\ wire.wave = ResetWave(devices # {})
    /\ at \in BitReading => /\ InCall
                            /\ call.op = "read"
                            /\ call.n = 1
                            /\ HasResult => call.value \in {BitByte(0), BitByte(1)}
    /\ at = "id_read" => wire.wave = ReadWave(<<IdBit>>)
    /\ at = "cmp_read" => wire.wave = ReadWave(<<ComplementBit>>)
    /\ at = "byte_read" => /\ InCall
                           /\ call.op = "read"
                           /\ call.n = Width
                           /\ wire.wave = ReadWave([i \in 1..Width |->
                                All({d[Len(loc.rom) * Width + i] : d \in devices})])
    /\ at \notin Resetting \union BitReading \union {"byte_read"} =>
         call.at \in {"idle", "panic"}
    /\ faults = 0 => wire.noise = "none"
    /\ stuck <=> wire.noise = "stuck"
    /\ stuck => faults > 0

(* Where the callers are                                                   *)
CallerInv ==
    /\ at \in Labels
    /\ answer \in {"none", "verifying", "present", "absent", "OK", "CRC_FAILED",
                   "DEVICE_NOT_RESPONDING"}
    /\ answer = "verifying" => at \in Searching \union {"searched"}
    /\ answer \notin {"none", "verifying"} => at = "done"
    /\ at = "verify" => ~st.lastDevice
    /\ at \in Searching => (at = "end" <=> loc.idBit = CodeBits + 1)
    /\ at \notin {"byte", "byte_read", "crc", "done"} => loc.rom = <<>>
    /\ at \in {"byte", "byte_read"} => Len(loc.rom) < Bytes

LocTypes ==
    /\ loc \in [idBit : Nat, lastZero : Nat, id : Byte, cmp : Byte,
                isFound : BOOLEAN, rom : Seq(Byte)]
    /\ st \in [lastDiscrepancy : Nat, lastFamily : Nat, lastDevice : BOOLEAN,
               rom : Codes]

BaseInv == TypeOK /\ LocTypes /\ CallInv /\ CallerInv

(* What has been read of the bit is what the devices sent.                 *)
TrueReadings ==
    /\ at \in BitReading => wire.noise = "none"
    /\ at \in {"cmp", "cmp_read", "decide"} => loc.id = BitByte(IdBit)
    /\ at = "decide" => loc.cmp = BitByte(ComplementBit)

(* After one disturbance the search may have lost all devices, but then it  *)
(* has just taken a direction that one of them could not follow, and all   *)
(* that it reads after that tells it so.                                   *)
SearchSound ==
    /\ devices # {}
    /\ \A d \in selected : Agree(st.rom, d, loc.idBit - 1)
    /\ faults = 0 => selected # {}
    /\ faults = 0 \/ selected = {} => TrueReadings
    /\ selected = {} =>
         /\ loc.idBit > 1
         /\ \E d \in devices : /\ Agree(st.rom, d, loc.idBit - 2)
                               /\ d[loc.idBit - 1] # st.rom[loc.idBit - 1]

SoundInv ==
    faults <= 1 /\ ~stuck =>
      /\ at \in Searching => SearchSound
      /\ at = "searched" /\ loc.isFound => st.rom \in devices

(* owb_read_rom has read the code of the single device, with at most one    *)
(* byte wrong after a disturbance, and zeros from where the wire is low.   *)
BytesRead(d) ==
    \/ ~stuck /\ \A k \in DOMAIN loc.rom : loc.rom[k] = ByteOf(d, k)
    \/ /\ ~stuck
       /\ faults = 1
       /\ at = "byte_read" => wire.noise = "none"
       /\ \E p \in DOMAIN loc.rom :
            /\ loc.rom[p] # ByteOf(d, p)
            /\ \A k \in DOMAIN loc.rom \ {p} : loc.rom[k] = ByteOf(d, k)
    \/ /\ stuck
       /\ \E n \in 0..Len(loc.rom) : \A k \in DOMAIN loc.rom :
            loc.rom[k] = IF k <= n THEN ByteOf(d, k) ELSE ZeroByte

RomInv ==
    at \in RomReading =>
      \E d \in devices :
        /\ devices = {d}
        /\ at \in {"read_rom", "read_rom_present"} => loc.rom = <<>>
        /\ at \in {"byte", "byte_read"} => Len(loc.rom) < Bytes
        /\ at = "crc" => Len(loc.rom) = Bytes
        /\ faults <= 1 => BytesRead(d)

AnswerInv ==
    faults <= 1 =>
      /\ answer = "present" => Known \in devices \/ stuck
      /\ answer = "OK" =>
           \E d \in devices, n \in IF stuck THEN 0..Bytes ELSE {Bytes} :
              loc.rom = CutAfter(BytesOf(d), n)

-----------------------------------------------------------------------------
(* The order of the codes found.                                           *)

(* The last position up to n where c has a 0 and some device that agrees    *)
(* with it before has a 1 is z; it is 0 if there is none.                  *)
LastZeroBranch(c, n, z) ==
    /\ z \in 0..n
    /\ z > 0 => c[z] = 0 /\ \E e \in devices : Agree(e, c, z - 1) /\ e[z] = 1
    /\ \A i \in z + 1..n : c[i] = 0 =>
         \A e \in devices : Agree(e, c, i - 1) => e[i] = 0

Remaining == Enumeration!Remaining
NextCode == Enumeration!Least(Remaining)
LastFound == found[Len(found)]

(* What has been found is an initial segment of the devices.               *)
SegmentInv ==
    /\ found # <<>> => LastFound \in devices
    /\ \A d \in devices :
         d \notin Remaining <=> /\ found # <<>>
                                /\ d = LastFound \/ Precedes(d, LastFound)

(* Between two searches the state is that of the last find, or the first.   *)
StateInv ==
    at \in {"initialize", "search", "present"} \union Searching =>
      /\ found = <<>> => st.lastDiscrepancy = 0 /\ ~st.lastDevice
      /\ found # <<>> => /\ LastZeroBranch(LastFound, CodeBits, st.lastDiscrepancy)
                         /\ st.lastDevice <=> st.lastDiscrepancy = 0
      /\ at # "search" => ~st.lastDevice
      /\ found # <<>> /\ at \notin Searching => st.rom = LastFound

(* The search is on the way to the next code.                              *)
PathInv ==
    at \in Searching =>
      /\ found # <<>> => \A j \in loc.idBit..CodeBits : st.rom[j] = LastFound[j]
      /\ selected = {d \in devices : Agree(d, st.rom, loc.idBit - 1)}
      /\ Remaining # {} /\ NextCode \in selected
      /\ LastZeroBranch(st.rom, loc.idBit - 1, loc.lastZero)

FoundInv ==
    at = "searched" =>
      IF loc.isFound
        THEN /\ Remaining # {}
             /\ st.rom = NextCode
             /\ LastZeroBranch(st.rom, CodeBits, st.lastDiscrepancy)
             /\ st.lastDevice <=> st.lastDiscrepancy = 0
        ELSE Remaining = {}

EnumInv ==
    faults = 0 =>
      /\ SegmentInv
      /\ ~InVerify => StateInv /\ PathInv /\ FoundInv

-----------------------------------------------------------------------------
(* The driver keeps its invariant.                                         *)

(* The fields of a new call.                                               *)
LEMMA NewCallFields ==
    ASSUME NEW op, NEW n, NEW a, NEW present, NEW value
    PROVE  /\ NewCall(op, n, a, present, value).op = op
           /\ NewCall(op, n, a, present, value).n = n
           /\ NewCall(op, n, a, present, value).at = a
           /\ NewCall(op, n, a, present, value).present = present
           /\ NewCall(op, n, a, present, value).value = value
  BY DEF NewCall

(* A single short pulse is not a presence pulse.                           *)
LEMMA SpikeIsNoPresence == ~Presence(Record(Spike, OW_RESET_IDLE))
<1> DEFINE wave == Spike
           idle == OW_RESET_IDLE
           cuts == {i \in DOMAIN wave : \/ wave[i].low >= idle
                                        \/ wave[i].high >= idle
                                        \/ i = Len(wave)}
           last == CHOOSE i \in cuts : \A j \in cuts : i <= j
           t == Record(wave, idle)
<1>1. t = [i \in 1..last |->
             IF i < last THEN wave[i]
             ELSE [low |-> IF wave[i].low >= idle THEN 0 ELSE wave[i].low, high |-> 0]]
  BY DEF Record
<1>2. wave = <<[low |-> 2, high |-> 0]>> /\ idle = 540
  BY DEF Spike, OW_DURATION_1_LOW, OW_RESET_IDLE, OW_DURATION_RESET
<1> HIDE DEF wave, idle, t
<1>3. cuts = {1}
  BY <1>2
<1>4. last = 1
  <2>1. \A S : S = {1} => (CHOOSE i \in S : \A j \in S : i <= j) = 1
    OBVIOUS
  <2> HIDE DEF cuts
  <2> QED BY <1>3, <2>1
<1> HIDE DEF last
<1>5. t[1].high = 0
  BY <1>1, <1>2, <1>4
<1>6. ~Presence(t)
  BY <1>5 DEF Presence
<1> QED BY <1>6 DEF t, wave, idle

(* A call of owb_rmt begins.                                               *)
LEMMA BeginDriver ==
    ASSUME CallTypes, driver = "rmt", driver' = driver,
           NEW op \in {"reset", "read"}, NEW n \in Nat, NEW wave,
           NEW noise \in Disturbances, noise = "flip" => op = "read",
           wire' = [wave |-> wave, noise |-> noise],
           Begin(op, n, Traces(wave, noise))
    PROVE  /\ DriverInv'
           /\ call'.at = "receive" /\ call'.op = op /\ call'.n = n
<1> DEFINE traces == Traces(wave, noise)
           idle == IF op = "reset" THEN OW_RESET_IDLE ELSE OW_DURATION_RX_IDLE
<1>1. /\ call.at = "idle"
      /\ rmt' = [rmt EXCEPT !.on = TRUE,
                            !.idle = IF op = "reset" THEN OW_RESET_IDLE ELSE @]
      /\ rb' = <<>>
      /\ call' = NewCall(op, n, "receive", FALSE, ZeroByte)
      /\ air' = [i \in DOMAIN traces |-> [items |-> Record(traces[i], rmt'.idle),
                                          id |-> callId']]
  BY DEF Begin, Flushed
<1>2. /\ call'.op = op /\ call'.n = n /\ call'.at = "receive"
      /\ call'.present = FALSE /\ call'.value = ZeroByte
  BY <1>1 DEF NewCall
<1>3. rmt'.idle = idle
  BY <1>1 DEF CallTypes
<1>4. rmt' \in [tx : BOOLEAN, rx : BOOLEAN, on : BOOLEAN, idle : Nat]
  <2>1. OW_RESET_IDLE \in Nat
    BY DEF OW_RESET_IDLE, OW_DURATION_RESET
  <2> QED BY <1>1, <2>1 DEF CallTypes
<1>d. DOMAIN call' = {"op", "n", "at", "status", "present", "value"}
  BY <1>1 DEF NewCall
<1>5. CallTypes'
  BY <1>2, <1>4, <1>d, ZeroByteType DEF CallTypes
<1>6. CleanCall'
  <2> SUFFICES ASSUME noise = "none" PROVE rb' = <<>> /\ air' = <<OwnTrace'>>
    BY <1>2 DEF CleanCall, HasResult
  <2>1. traces = <<wave>>
    BY DEF Traces
  <2>2. OwnTrace' = [items |-> Record(wave, idle), id |-> callId']
    BY <1>2 DEF OwnTrace, Recorded
  <2> HIDE DEF traces, idle
  <2>3. air' = [i \in DOMAIN <<wave>> |-> OwnTrace']
    BY <1>1, <1>3, <2>1, <2>2
  <2>4. \A x, y : [i \in DOMAIN <<x>> |-> y] = <<y>>
    OBVIOUS
  <2> QED BY <1>1, <2>3, <2>4
<1>7. NoPresence'
  <2> SUFFICES ASSUME op = "reset", wave = ResetWave(FALSE)
               PROVE  \A i \in DOMAIN air' : ~Presence(air'[i].items)
    <3>1. DOMAIN rb' = {} /\ wire'.wave = wave
      BY <1>1
    <3> QED BY <1>2, <3>1 DEF NoPresence
  <2>1. \A i \in DOMAIN traces : traces[i] = wave \/ traces[i] = Spike
    <3>1. \A x, y : \A i \in DOMAIN <<x, y>> : <<x, y>>[i] = x \/ <<x, y>>[i] = y
      OBVIOUS
    <3>2. \A x : \A i \in DOMAIN <<x>> : <<x>>[i] = x
      OBVIOUS
    <3>3. DOMAIN <<>> = {}
      OBVIOUS
    <3>4. \/ traces = <<wave>> \/ traces = <<Spike, wave>>
          \/ traces = <<wave, Spike>> \/ traces = <<>>
      BY DEF Traces, Disturbances
    <3> HIDE DEF traces
    <3>5. CASE traces = <<wave>>
      BY <3>2, <3>5
    <3>6. CASE traces = <<Spike, wave>> \/ traces = <<wave, Spike>>
      <4>1. CASE traces = <<Spike, wave>>
        BY <3>1, <4>1
      <4>2. CASE traces = <<wave, Spike>>
        BY <3>1, <4>2
      <4> QED BY <3>6, <4>1, <4>2
    <3>7. CASE traces = <<>>
      BY <3>3, <3>7
    <3> QED BY <3>4, <3>5, <3>6, <3>7
  <2>2. idle = OW_RESET_IDLE
    OBVIOUS
  <2> HIDE DEF traces, idle
  <2>3. \A i \in DOMAIN air' :
           i \in DOMAIN traces /\ air'[i].items = Record(traces[i], OW_RESET_IDLE)
    BY <1>1, <1>3, <2>2
  <2>4. ~Presence(Record(wave, OW_RESET_IDLE)) /\ ~Presence(Record(Spike, OW_RESET_IDLE))
    BY PresenceIs, SpikeIsNoPresence
  <2> QED BY <2>1, <2>3, <2>4
<1>8. StuckCall'
  <2> SUFFICES ASSUME noise = "stuck" PROVE air' = <<>>
    BY <1>1, <1>2 DEF StuckCall
  <2>1. traces = <<>>
    BY DEF Traces
  <2>2. DOMAIN <<>> = {}
    OBVIOUS
  <2> HIDE DEF traces
  <2>3. air' = [i \in DOMAIN <<>> |-> air'[i]]
    BY <1>1, <2>1
  <2>4. air' \in [1..0 -> {}]
    BY <2>2, <2>3
  <2> QED BY <2>4
<1> QED BY <1>2, <1>5, <1>6, <1>7, <1>8 DEF DriverInv

(* What owb_gpio returns has the type of an answer,                        *)
LEMMA GpioDataType ==
    ASSUME NEW w PROVE GpioReadData(w) \in Byte
<1>1. \A P : [k \in 1..Width |-> IF k \in P THEN 1 ELSE 0] \in [1..Width -> {0, 1}]
  OBVIOUS
<1> DEFINE P == {k \in 1..Width : k > Width - Len(w) /\ GpioReadBit(w[k - (Width - Len(w))])}
<1>2. GpioReadData(w) = [k \in 1..Width |-> IF k \in P THEN 1 ELSE 0]
  BY DEF GpioReadData
<1> HIDE DEF P
<1> QED BY <1>1, <1>2 DEF Byte

(* and so has what owb_rmt decodes.                                        *)
LEMMA ReadDataType ==
    ASSUME NEW t, NEW n PROVE ReadData(t, n) \in Byte
<1> DEFINE P == {k \in 1..Width : n <= Len(t) /\ k <= n /\ t[k].low < OW_DURATION_SAMPLE}
<1>1. ReadData(t, n) = [k \in 1..Width |-> IF k \in P THEN 1 ELSE 0]
  BY DEF ReadData
<1> HIDE DEF P
<1> QED BY <1>1 DEF Byte

(* A call of owb_gpio is over at once.                                     *)
LEMMA GpioDriver ==
    ASSUME CallTypes, driver = "gpio", driver' = driver,
           call.at = "idle",
           NEW op \in {"reset", "read"}, NEW n \in Nat, NEW wave, NEW noise,
           wire' = [wave |-> wave, noise |-> noise],
           call' = GpioCall(op, n, wave, noise), rmt' = rmt
    PROVE  /\ DriverInv'
           /\ call'.at = "done" /\ call'.op = op /\ call'.n = n
<1> DEFINE value == IF op = "reset" \/ noise = "stuck" THEN ZeroByte
                    ELSE GpioReadData(IF noise = "flip" THEN Flip(wave) ELSE wave)
           present == op = "reset" /\ noise # "stuck" /\ GpioPresence(wave)
<1>1. /\ call'.op = op /\ call'.n = n /\ call'.at = "done"
      /\ call'.present = present /\ call'.value = value
  <2>1. call' = NewCall(op, n, "done", present, value)
    BY DEF GpioCall
  <2> HIDE DEF value, present
  <2> QED BY <2>1, NewCallFields
<1>2. present \in BOOLEAN
  OBVIOUS
<1>3. value \in Byte
  BY ZeroByteType, GpioDataType
<1>d. DOMAIN call' = {"op", "n", "at", "status", "present", "value"}
  BY DEF GpioCall, NewCall
<1>4. CallTypes'
  <2> HIDE DEF value, present
  <2> QED BY <1>1, <1>2, <1>3, <1>d DEF CallTypes
<1>5. CleanCall'
  BY <1>1 DEF CleanCall, HasResult
<1>6. NoPresence'
  <2>1. ~GpioPresence(ResetWave(FALSE))
    BY PresenceIs
  <2> QED BY <1>1, <2>1 DEF NoPresence
<1>7. StuckCall'
  BY <1>1 DEF StuckCall
<1> QED BY <1>1, <1>4, <1>5, <1>6, <1>7 DEF DriverInv

(* The driver's own steps.                                                 *)
LEMMA ArrivesDriver ==
    ASSUME OwnTraces, DriverInv, TraceArrives, UNCHANGED <<wire, driver>>
    PROVE  DriverInv'
<1>1. /\ air # <<>> /\ rb' = Append(rb, Head(air)) /\ air' = Tail(air)
      /\ UNCHANGED <<rmt, call, callId, gotId>>
  BY DEF TraceArrives
<1>2. PICK X : /\ rb \in Seq([items : X, id : {callId}])
               /\ air \in Seq([items : X, id : {callId}])
  BY DEF OwnTraces
<1> DEFINE S == [items : X, id : {callId}]
<1>3. rb \in Seq(S) /\ air \in Seq(S)
  BY <1>2
<1> HIDE DEF S
<1>4. CallTypes'
  BY <1>1 DEF DriverInv, CallTypes
<1>5. CleanCall'
  <2>1. \A t : /\ Append(<<>>, Head(<<t>>)) = <<t>>
               /\ Tail(<<t>>) = <<>>
    OBVIOUS
  <2>2. OwnTrace' = OwnTrace /\ Recorded' = Recorded
    BY <1>1 DEF OwnTrace, Recorded
  <2>3. CASE rb = <<>> /\ air = <<OwnTrace>>
    <3>1. rb' = <<OwnTrace>> /\ air' = <<>>
      BY <1>1, <2>1, <2>3
    <3> QED BY <3>1, <2>2, <1>1 DEF DriverInv, CleanCall, HasResult
  <2>4. CASE ~(rb = <<>> /\ air = <<OwnTrace>>)
    BY <2>2, <2>4, <1>1 DEF DriverInv, CleanCall, HasResult
  <2> QED BY <2>3, <2>4
<1>6. NoPresence'
  <2> SUFFICES ASSUME InCall, call.op = "reset", wire.wave = ResetWave(FALSE),
                      call.at = "receive"
               PROVE  /\ \A i \in DOMAIN rb' : ~Presence(rb'[i].items)
                      /\ \A i \in DOMAIN air' : ~Presence(air'[i].items)
    BY <1>1 DEF DriverInv, NoPresence, InCall
  <2>1. /\ \A i \in DOMAIN rb : ~Presence(rb[i].items)
        /\ \A i \in DOMAIN air : ~Presence(air[i].items)
    BY DEF DriverInv, NoPresence
  <2>2. Len(air) \in Nat \ {0} /\ DOMAIN air = 1..Len(air) /\ Head(air) = air[1] /\ Head(air) \in S
    BY <1>1, <1>3
  <2>3. \A i \in DOMAIN air' : i + 1 \in DOMAIN air /\ air'[i] = air[i + 1]
    BY <1>1, <1>3, <2>2
  <2>4. \A i \in DOMAIN rb' : (i \in DOMAIN rb /\ rb'[i] = rb[i]) \/ rb'[i] = air[1]
    BY <1>1, <1>3, <2>2
  <2> QED BY <2>1, <2>2, <2>3, <2>4
<1>7. StuckCall'
  BY <1>1 DEF DriverInv, StuckCall, InCall
<1> QED BY <1>4, <1>5, <1>6, <1>7 DEF DriverInv

(* Taking a trace from the ring buffer keeps DriverInv,                    *)
LEMMA ReceiveDriver ==
    ASSUME OwnTraces, DriverInv, Receive, UNCHANGED <<wire, driver>>
    PROVE  DriverInv' /\ call'.at = "stop" /\ call'.op = call.op /\ call'.n = call.n
<1> DEFINE trace == Head(rb).items
           present == call.op = "reset" /\ Presence(trace)
           value == IF call.op = "reset" THEN ZeroByte ELSE ReadData(trace, call.n)
<1>1. /\ call.at = "receive" /\ rb # <<>>
      /\ call' = [call EXCEPT !.at = "stop", !.present = present, !.value = value]
      /\ rb' = Tail(rb)
      /\ UNCHANGED <<rmt, air, callId>>
  BY DEF Receive
<1>t. value \in Byte /\ present \in BOOLEAN
  BY ZeroByteType, ReadDataType
<1>2. /\ DOMAIN call' = DOMAIN call
      /\ call'.at = "stop" /\ call'.op = call.op /\ call'.n = call.n
      /\ call'.present = present /\ call'.value = value
  <2> HIDE DEF present, value
  <2> QED BY <1>1 DEF DriverInv, CallTypes
<1>3. CallTypes'
  <2> HIDE DEF present, value
  <2> QED BY <1>1, <1>2, <1>t DEF DriverInv, CallTypes
<1>r. driver = "rmt"
  BY <1>1 DEF DriverInv, CallTypes
<1>4. CleanCall'
  <2> SUFFICES ASSUME wire.noise = "none"
               PROVE  /\ call.op = "read" => value = ReadData(Recorded', call.n)
                      /\ call.op = "reset" => (present <=> Presence(Recorded'))
    BY <1>2, <1>r DEF CleanCall, HasResult
  <2>1. rb = <<OwnTrace>>
    BY <1>1 DEF DriverInv, CleanCall
  <2>2. trace = Recorded
    BY <2>1 DEF OwnTrace
  <2>3. Recorded' = Recorded
    BY <1>2 DEF Recorded
  <2> HIDE DEF trace
  <2> QED BY <2>2, <2>3
<1>5. NoPresence'
  <2> SUFFICES ASSUME call.op = "reset", wire.wave = ResetWave(FALSE) PROVE ~Presence(trace)
    BY <1>2 DEF NoPresence
  <2>1. PICK X : rb \in Seq([items : X, id : {callId}])
    BY DEF OwnTraces
  <2> DEFINE S == [items : X, id : {callId}]
  <2>2. rb \in Seq(S)
    BY <2>1
  <2> HIDE DEF S
  <2>3. 1 \in DOMAIN rb /\ Head(rb) = rb[1]
    BY <1>1, <2>2
  <2> QED BY <1>1, <2>3 DEF DriverInv, NoPresence, InCall
<1>6. StuckCall'
  BY <1>1, <1>2 DEF DriverInv, StuckCall, InCall
<1> QED BY <1>2, <1>3, <1>4, <1>5, <1>6 DEF DriverInv

(* the end of a call keeps it,                                             *)
LEMMA EndsDriver ==
    ASSUME DriverInv, ReceiveTimesOut \/ Stop, UNCHANGED <<wire, driver>>
    PROVE  /\ DriverInv' /\ call'.at \in {"stop", "done"}
           /\ call.at \in {"receive", "stop"}
           /\ call'.op = call.op /\ call'.n = call.n /\ call'.value = call.value
<1>1. CASE ReceiveTimesOut
  <2>1. /\ call.at = "receive" /\ rb = <<>> /\ air = <<>>
        /\ UNCHANGED <<rmt, rb, air, callId>>
        /\ call' = [call EXCEPT !.at = "stop", !.status = "HW_ERROR"]
    BY <1>1 DEF ReceiveTimesOut
  <2>2. /\ DOMAIN call' = DOMAIN call
        /\ call'.at = "stop" /\ call'.op = call.op /\ call'.n = call.n
        /\ call'.present = call.present /\ call'.value = call.value
    BY <2>1 DEF DriverInv, CallTypes
  <2>3. wire.noise # "none"
    BY <2>1 DEF DriverInv, CleanCall
  <2>4. CallTypes'
    BY <2>1, <2>2 DEF DriverInv, CallTypes
  <2>5. CleanCall' /\ NoPresence' /\ StuckCall'
    BY <2>1, <2>2, <2>3 DEF DriverInv, CleanCall, NoPresence, StuckCall, InCall
  <2> QED BY <2>1, <2>2, <2>4, <2>5 DEF DriverInv
<1>2. CASE Stop
  <2>1. /\ call.at = "stop"
        /\ rmt' = [rmt EXCEPT !.on = FALSE, !.idle = OW_DURATION_RX_IDLE]
        /\ call' = [call EXCEPT !.at = "done"]
        /\ UNCHANGED <<rb, callId>>
    BY <1>2 DEF Stop
  <2>2. /\ DOMAIN call' = DOMAIN call
        /\ call'.at = "done" /\ call'.op = call.op /\ call'.n = call.n
        /\ call'.present = call.present /\ call'.value = call.value
    BY <2>1 DEF DriverInv, CallTypes
  <2>3. CallTypes'
    <3>1. OW_DURATION_RX_IDLE \in Nat
      BY DEF OW_DURATION_RX_IDLE, OW_DURATION_SLOT
    <3>2. rmt' \in [tx : BOOLEAN, rx : BOOLEAN, on : BOOLEAN, idle : Nat] /\ rmt'.idle = OW_DURATION_RX_IDLE
      BY <2>1, <3>1 DEF DriverInv, CallTypes
    <3> QED BY <2>1, <2>2, <3>2 DEF DriverInv, CallTypes
  <2>4. Recorded' = Recorded
    BY <2>2 DEF Recorded
  <2>5. CleanCall' /\ NoPresence' /\ StuckCall'
    BY <2>1, <2>2, <2>4 DEF DriverInv, CleanCall, HasResult, NoPresence, StuckCall, InCall
  <2> QED BY <2>1, <2>2, <2>3, <2>5 DEF DriverInv
<1> QED BY <1>1, <1>2

(* The caller takes its result.                                            *)
LEMMA ReturnDriver ==
    ASSUME DriverInv, Return, UNCHANGED <<driver>>
    PROVE  DriverInv' /\ call.at = "done" /\ call'.at = "idle"
<1>1. /\ call.at = "done" /\ rmt' = rmt
      /\ call' = NewCall("none", 0, "idle", FALSE, ZeroByte)
  BY DEF Return, NoCall
<1>2. /\ call'.op = "none" /\ call'.n = 0 /\ call'.at = "idle"
      /\ call'.present = FALSE /\ call'.value = ZeroByte
  BY <1>1 DEF NewCall
<1>3. DOMAIN call' = {"op", "n", "at", "status", "present", "value"}
  BY <1>1 DEF NewCall
<1>4. CallTypes'
  <2>1. rmt' \in [tx : BOOLEAN, rx : BOOLEAN, on : BOOLEAN, idle : Nat]
    BY <1>1 DEF DriverInv, CallTypes
  <2>2. rmt'.idle = OW_DURATION_RX_IDLE
    BY <1>1 DEF DriverInv, CallTypes
  <2>3. call'.present \in BOOLEAN /\ call'.value \in Byte
    BY <1>2, ZeroByteType
  <2>4. call'.op \in {"none", "reset", "read"} /\ call'.n \in Nat
    BY <1>2
  <2> QED BY <1>2, <1>3, <2>1, <2>2, <2>3, <2>4 DEF CallTypes
<1> QED BY <1>1, <1>2, <1>4
        DEF DriverInv, CleanCall, NoPresence, StuckCall, InCall, HasResult

(* and so does a step that leaves the driver alone.                        *)
LEMMA StutterDriver ==
    ASSUME DriverInv, UNCHANGED <<rmt, rb, air, call, callId, wire, driver>>
    PROVE  DriverInv'
  BY DEF DriverInv, CallTypes, CleanCall, NoPresence, StuckCall, InCall, HasResult,
         OwnTrace, Recorded

-----------------------------------------------------------------------------
(* Where the callers are, what they call, and the types.                   *)

(* One bit read with owb_rmt is a byte of 0 or 1,                          *)
LEMMA RmtOneBit ==
    ASSUME NEW t, driver = "rmt"
    PROVE  ReadData(t, 1) \in {BitByte(0), BitByte(1)}
<1> DEFINE b == IF 1 <= Len(t) /\ t[1].low < OW_DURATION_SAMPLE THEN 1 ELSE 0
<1>1. BitByte(b) = [k \in 1..Width |-> IF k = 1 THEN b ELSE 0]
  BY CodeBitsNat DEF BitByte, ZeroByte
<1>2. ReadData(t, 1) = [k \in 1..Width |->
        IF 1 <= Len(t) /\ k <= 1 /\ t[k].low < OW_DURATION_SAMPLE THEN 1 ELSE 0]
  BY DEF ReadData
<1>3. \A k \in 1..Width :
        (IF 1 <= Len(t) /\ k <= 1 /\ t[k].low < OW_DURATION_SAMPLE THEN 1 ELSE 0)
          = IF k = 1 THEN b ELSE 0
  BY CodeBitsNat
<1>4. ReadData(t, 1) = BitByte(b)
  BY <1>1, <1>2, <1>3
<1> QED BY <1>4

(* and with owb_gpio as well.                                              *)
LEMMA GpioOneBit ==
    ASSUME NEW w, Len(w) = 1, driver # "rmt"
    PROVE  GpioReadData(w) \in {BitByte(0), BitByte(1)}
<1> DEFINE b == IF GpioReadBit(w[1]) THEN 1 ELSE 0
<1>1. BitByte(b) = [k \in 1..Width |-> IF k = Width THEN b ELSE 0]
  BY CodeBitsNat DEF BitByte, ZeroByte
<1>2. GpioReadData(w) = [k \in 1..Width |->
        IF k > Width - 1 /\ GpioReadBit(w[k - (Width - 1)]) THEN 1 ELSE 0]
  BY DEF GpioReadData
<1>3. \A k \in 1..Width :
        (IF k > Width - 1 /\ GpioReadBit(w[k - (Width - 1)]) THEN 1 ELSE 0)
          = IF k = Width THEN b ELSE 0
  <2> SUFFICES ASSUME NEW k \in 1..Width
               PROVE (IF k > Width - 1 /\ GpioReadBit(w[k - (Width - 1)]) THEN 1 ELSE 0)
                       = IF k = Width THEN b ELSE 0
    OBVIOUS
  <2>1. k > Width - 1 <=> k = Width
    BY CodeBitsNat
  <2>2. k = Width => k - (Width - 1) = 1
    BY CodeBitsNat
  <2> QED BY <2>1, <2>2
<1>4. GpioReadData(w) = BitByte(b)
  BY <1>1, <1>2, <1>3
<1> QED BY <1>4

(* What holds after any call of the driver has begun.                      *)
LEMMA CallBegins ==
    ASSUME BaseInv, DriverInv, NEW op \in {"reset", "read"}, NEW n \in Nat,
           NEW wave, CallDriver(op, n, wave)
    PROVE  /\ DriverInv'
           /\ InCall' /\ call'.op = op /\ call'.n = n /\ wire'.wave = wave
           /\ HasResult' /\ op = "read" /\ n = 1 /\ Len(wave) = 1 =>
                call'.value \in {BitByte(0), BitByte(1)}
           /\ faults' \in 0..MaxFaults /\ faults <= faults'
           /\ faults' = 0 => wire'.noise = "none"
           /\ faults' = faults => wire'.noise = "none" \/ (stuck /\ wire'.noise = "stuck")
           /\ faults # faults' => faults' = faults + 1 /\ ~stuck
           /\ stuck' \in BOOLEAN /\ (stuck' <=> wire'.noise = "stuck")
           /\ stuck' => faults' > 0
           /\ stuck => stuck'
           /\ UNCHANGED <<devices, driver>>
<1>1. PICK noise \in IF stuck THEN {"stuck"} ELSE Disturbances :
        /\ noise # "none" => stuck \/ faults < MaxFaults
        /\ noise = "flip" => op = "read"
        /\ faults' = IF noise = "none" \/ stuck THEN faults ELSE faults + 1
        /\ stuck' = (noise = "stuck")
        /\ wire' = [wave |-> wave, noise |-> noise]
        /\ IF driver = "rmt" THEN Begin(op, n, Traces(wave, noise))
           ELSE /\ call.at = "idle"
                /\ call' = GpioCall(op, n, wave, noise)
                /\ UNCHANGED <<rmt, rb, air, callId, gotId>>
        /\ UNCHANGED <<devices, driver>>
  BY DEF CallDriver
<1>2. noise \in Disturbances
  BY <1>1 DEF Disturbances
<1>3. /\ faults \in 0..MaxFaults /\ stuck \in BOOLEAN /\ MaxFaults \in Nat
      /\ stuck => faults > 0
      /\ driver \in {"rmt", "gpio"}
  BY MaxFaultsAssumption DEF BaseInv, TypeOK, CallInv
<1>4. wire'.wave = wave /\ wire'.noise = noise
  BY <1>1
<1>5. /\ faults' \in 0..MaxFaults /\ faults <= faults'
      /\ faults' = 0 => wire'.noise = "none"
      /\ faults' = faults => wire'.noise = "none" \/ (stuck /\ wire'.noise = "stuck")
      /\ faults # faults' => faults' = faults + 1 /\ ~stuck
      /\ stuck' \in BOOLEAN /\ (stuck' <=> wire'.noise = "stuck")
      /\ stuck' => faults' > 0
      /\ stuck => stuck'
  <2>1. CASE noise = "none"
    <3>1. ~stuck /\ faults' = faults /\ stuck' = FALSE
      BY <1>1, <1>3, <2>1
    <3>2. faults' \in 0..MaxFaults /\ faults <= faults'
      BY <1>3, <3>1
    <3> QED BY <1>4, <2>1, <3>1, <3>2
  <2>2. CASE noise # "none" /\ stuck
    <3>1. noise = "stuck" /\ faults' = faults /\ stuck' = TRUE
      BY <1>1, <2>2
    <3> QED BY <1>3, <1>4, <2>2, <3>1
  <2>3. CASE noise # "none" /\ ~stuck
    <3>1. faults < MaxFaults /\ faults' = faults + 1 /\ stuck' = (noise = "stuck")
      BY <1>1, <2>3
    <3>2. /\ faults' \in 0..MaxFaults /\ faults < faults' /\ faults' > 0
          /\ faults <= faults' /\ faults # faults'
      BY <1>3, <3>1
    <3>3. stuck' \in BOOLEAN /\ (stuck' <=> noise = "stuck")
      BY <3>1
    <3> QED BY <1>4, <2>3, <3>1, <3>2, <3>3
  <2> QED BY <2>1, <2>2, <2>3
<1>6. CASE driver = "rmt"
  <2>1. DriverInv' /\ call'.at = "receive" /\ call'.op = op /\ call'.n = n
    BY <1>1, <1>2, <1>6, BeginDriver DEF DriverInv
  <2> QED BY <1>1, <1>4, <1>5, <2>1 DEF InCall, HasResult
<1>7. CASE driver = "gpio"
  <2>1. DriverInv' /\ call'.at = "done" /\ call'.op = op /\ call'.n = n
    BY <1>1, <1>7, GpioDriver DEF DriverInv
  <2>2. ASSUME op = "read", Len(wave) = 1
        PROVE  call'.value \in {BitByte(0), BitByte(1)}
    <3>2. call'.value = IF noise = "stuck" THEN ZeroByte
                        ELSE GpioReadData(IF noise = "flip" THEN Flip(wave) ELSE wave)
      BY <1>1, <1>7, <2>2 DEF GpioCall, NewCall
    <3>3. Len(Flip(wave)) = 1
      BY <2>2 DEF Flip
    <3>4. GpioReadData(IF noise = "flip" THEN Flip(wave) ELSE wave) \in {BitByte(0), BitByte(1)}
      BY <2>2, <3>3, <1>7, GpioOneBit
    <3> QED BY <3>2, <3>4, BitByteFacts
  <2> QED BY <1>1, <1>4, <1>5, <2>1, <2>2 DEF InCall, HasResult
<1> QED BY <1>3, <1>6, <1>7

(* How a byte holds one bit depends on the driver alone.                   *)
LEMMA BitBytesKept ==
    ASSUME driver' = driver
    PROVE  \A b : (BitByte(b))' = BitByte(b)
  BY DEF BitByte

(* The types when a call begins or ends and at most loc.id, loc.cmp and     *)
(* answer change.                                                          *)
LEMMA TypeKept ==
    ASSUME BaseInv, DriverInv',
           UNCHANGED <<devices, driver, selected, st, loc, found>>,
           faults' \in 0..MaxFaults, stuck' \in BOOLEAN
    PROVE  TypeOK' /\ LocTypes'
<1>1. LocTypes'
  BY DEF BaseInv, LocTypes
<1>2. call'.at \in {"idle", "receive", "stop", "done", "panic"} /\ call'.value \in Byte
  BY DEF DriverInv, CallTypes
<1>3. TypeOK'
  BY <1>2, BitBytesKept DEF BaseInv, TypeOK
<1> QED BY <1>1, <1>3

(* ReadId keeps the types and the driver's invariant,                      *)
LEMMA ReadIdBase ==
    ASSUME BaseInv, DriverInv, ReadId
    PROVE  BaseInv' /\ DriverInv'
<1> DEFINE wave == ReadWave(<<IdBit>>)
<1>1. /\ at = "id" /\ at' = "id_read"
      /\ CallDriver("read", 1, wave)
      /\ UNCHANGED <<selected, st, loc, found, answer>>
  BY DEF ReadId, Goto
<1>2. <<IdBit>> \in [1..1 -> {0, 1}] /\ Len(wave) = 1
  <2>1. IdBit \in {0, 1}
    BY DEF IdBit, All
  <2>2. <<IdBit>> \in [1..1 -> {0, 1}]
    BY <2>1
  <2> QED BY <2>2, ReadWaveIs
<1>3. IdBit' = IdBit
  BY <1>1 DEF IdBit
<1> HIDE DEF wave
<1>4. /\ DriverInv'
      /\ InCall' /\ call'.op = "read" /\ call'.n = 1 /\ wire'.wave = wave
      /\ HasResult' => call'.value \in {BitByte(0), BitByte(1)}
      /\ faults' \in 0..MaxFaults
      /\ faults' = 0 => wire'.noise = "none"
      /\ stuck' \in BOOLEAN /\ (stuck' <=> wire'.noise = "stuck")
      /\ stuck' => faults' > 0
      /\ UNCHANGED <<devices, driver>>
  BY <1>1, <1>2, CallBegins
<1>5. TypeOK' /\ LocTypes'
  BY <1>1, <1>4, TypeKept
<1>6. CallInv'
  BY <1>1, <1>3, <1>4, BitBytesKept
     DEF CallInv, Resetting, BitReading, wave
<1>7. CallerInv'
  BY <1>1 DEF BaseInv, CallerInv, Resetting, Searching, RomReading, Labels
<1> QED BY <1>4, <1>5, <1>6, <1>7 DEF BaseInv

(* ReadComplement does,                                                    *)
LEMMA ReadComplementBase ==
    ASSUME BaseInv, DriverInv, ReadComplement
    PROVE  BaseInv' /\ DriverInv'
<1> DEFINE wave == ReadWave(<<ComplementBit>>)
<1>1. /\ at = "cmp" /\ at' = "cmp_read"
      /\ CallDriver("read", 1, wave)
      /\ UNCHANGED <<selected, st, loc, found, answer>>
  BY DEF ReadComplement, Goto
<1>2. <<ComplementBit>> \in [1..1 -> {0, 1}] /\ Len(wave) = 1
  <2>1. ComplementBit \in {0, 1}
    BY DEF ComplementBit, All
  <2>2. <<ComplementBit>> \in [1..1 -> {0, 1}]
    BY <2>1
  <2> QED BY <2>2, ReadWaveIs
<1>3. ComplementBit' = ComplementBit
  BY <1>1 DEF ComplementBit
<1> HIDE DEF wave
<1>4. /\ DriverInv'
      /\ InCall' /\ call'.op = "read" /\ call'.n = 1 /\ wire'.wave = wave
      /\ HasResult' => call'.value \in {BitByte(0), BitByte(1)}
      /\ faults' \in 0..MaxFaults
      /\ faults' = 0 => wire'.noise = "none"
      /\ stuck' \in BOOLEAN /\ (stuck' <=> wire'.noise = "stuck")
      /\ stuck' => faults' > 0
      /\ UNCHANGED <<devices, driver>>
  BY <1>1, <1>2, CallBegins
<1>5. TypeOK' /\ LocTypes'
  BY <1>1, <1>4, TypeKept
<1>6. CallInv'
  BY <1>1, <1>3, <1>4, BitBytesKept
     DEF CallInv, Resetting, BitReading, wave
<1>7. CallerInv'
  BY <1>1 DEF BaseInv, CallerInv, Resetting, Searching, RomReading, Labels
<1> QED BY <1>4, <1>5, <1>6, <1>7 DEF BaseInv

(* ReadByte does,                                                          *)
LEMMA ReadByteBase ==
    ASSUME BaseInv, DriverInv, ReadByte
    PROVE  BaseInv' /\ DriverInv'
<1> DEFINE bits == [i \in 1..Width |-> All({d[Len(loc.rom) * Width + i] : d \in devices})]
           wave == ReadWave(bits)
<1>1. /\ at = "byte" /\ at' = "byte_read"
      /\ CallDriver("read", Width, wave)
      /\ UNCHANGED <<selected, st, loc, found, answer>>
  BY DEF ReadByte, Goto
<1> HIDE DEF wave, bits
<1>4. /\ DriverInv'
      /\ InCall' /\ call'.op = "read" /\ call'.n = Width /\ wire'.wave = wave
      /\ faults' \in 0..MaxFaults
      /\ faults' = 0 => wire'.noise = "none"
      /\ stuck' \in BOOLEAN /\ (stuck' <=> wire'.noise = "stuck")
      /\ stuck' => faults' > 0
      /\ UNCHANGED <<devices, driver>>
  BY <1>1, CallBegins, CodeBitsNat
<1>3. bits' = bits
  BY <1>1, <1>4 DEF bits
<1>5. TypeOK' /\ LocTypes'
  BY <1>1, <1>4, TypeKept
<1>6. CallInv'
  BY <1>1, <1>3, <1>4, BitBytesKept
     DEF CallInv, Resetting, BitReading, wave, bits
<1>7. CallerInv'
  BY <1>1 DEF BaseInv, CallerInv, Resetting, Searching, RomReading, Labels
<1> QED BY <1>4, <1>5, <1>6, <1>7 DEF BaseInv

(* a reset begins with a clean call,                                       *)
LEMMA ResetBegins ==
    ASSUME BaseInv, DriverInv, Reset
    PROVE  /\ DriverInv'
           /\ InCall' /\ call'.op = "reset" /\ wire'.wave = (ResetWave(devices # {}))'
           /\ faults' \in 0..MaxFaults
           /\ faults' = 0 => wire'.noise = "none"
           /\ stuck' \in BOOLEAN /\ (stuck' <=> wire'.noise = "stuck")
           /\ stuck' => faults' > 0
           /\ UNCHANGED <<devices, driver>>
<1> DEFINE wave == ResetWave(devices # {})
<1>1. CallDriver("reset", 0, wave)
  BY DEF Reset
<1> HIDE DEF wave
<1>2. /\ DriverInv'
      /\ InCall' /\ call'.op = "reset" /\ wire'.wave = wave
      /\ faults' \in 0..MaxFaults
      /\ faults' = 0 => wire'.noise = "none"
      /\ stuck' \in BOOLEAN /\ (stuck' <=> wire'.noise = "stuck")
      /\ stuck' => faults' > 0
      /\ UNCHANGED <<devices, driver>>
  BY <1>1, CallBegins
<1>3. wave' = wave
  BY <1>2 DEF wave
<1> QED BY <1>2, <1>3 DEF wave

(* and ReadRomReset keeps them.                                            *)
LEMMA ReadRomResetBase ==
    ASSUME BaseInv, DriverInv, ReadRomReset
    PROVE  BaseInv' /\ DriverInv'
<1>1. /\ at = "read_rom" /\ at' = "read_rom_present"
      /\ Reset
      /\ UNCHANGED <<selected, st, loc, found, answer>>
  BY DEF ReadRomReset, Goto
<1>4. /\ DriverInv'
      /\ InCall' /\ call'.op = "reset" /\ wire'.wave = (ResetWave(devices # {}))'
      /\ faults' \in 0..MaxFaults
      /\ faults' = 0 => wire'.noise = "none"
      /\ stuck' \in BOOLEAN /\ (stuck' <=> wire'.noise = "stuck")
      /\ stuck' => faults' > 0
      /\ UNCHANGED <<devices, driver>>
  BY <1>1, ResetBegins
<1>5. TypeOK' /\ LocTypes'
  BY <1>1, <1>4, TypeKept
<1>6. CallInv'
  BY <1>1, <1>4, BitBytesKept
     DEF CallInv, Resetting, BitReading
<1>7. CallerInv'
  BY <1>1 DEF BaseInv, CallerInv, Resetting, Searching, RomReading, Labels
<1> QED BY <1>4, <1>5, <1>6, <1>7 DEF BaseInv

(* The type of an empty search state.                                      *)
LEMMA NoStateType ==
    /\ ZeroCode \in Codes
    /\ NoState \in [lastDiscrepancy : Nat, lastFamily : Nat, lastDevice : BOOLEAN,
                    rom : Codes]
    /\ NoState.lastDiscrepancy = 0 /\ ~NoState.lastDevice /\ NoState.rom = ZeroCode
<1>1. ZeroCode \in Codes
  BY DEF ZeroCode, Codes
<1> QED BY <1>1 DEF NoState

(* The locals a search starts from have their types.                       *)
LEMMA NoLocalsType ==
    /\ NoLocals \in [idBit : Nat, lastZero : Nat, id : Byte, cmp : Byte,
                     isFound : BOOLEAN, rom : Seq(Byte)]
    /\ NoLocals.idBit = 1 /\ NoLocals.lastZero = 0
    /\ NoLocals.id = ZeroByte /\ NoLocals.cmp = ZeroByte
    /\ NoLocals.isFound = FALSE /\ NoLocals.rom = <<>>
  BY ZeroByteType DEF NoLocals

(* The state of the search after its counters are reset.                   *)
LEMMA ResetCountersIs ==
    ASSUME LocTypes
    PROVE  /\ ResetCounters(st) \in [lastDiscrepancy : Nat, lastFamily : Nat,
                                     lastDevice : BOOLEAN, rom : Codes]
           /\ ResetCounters(st).lastDiscrepancy = 0
           /\ ~ResetCounters(st).lastDevice
           /\ ResetCounters(st).rom = st.rom
<1>1. st \in [lastDiscrepancy : Nat, lastFamily : Nat, lastDevice : BOOLEAN, rom : Codes]
  BY DEF LocTypes
<1>2. ResetCounters(st) = [lastDiscrepancy |-> 0, lastFamily |-> 0, lastDevice |-> FALSE,
                           rom |-> st.rom]
  BY DEF ResetCounters
<1>3. st.rom \in Codes
  BY <1>1
<1> QED BY <1>2, <1>3

(* The locals of an operation that has answered.                           *)
LEMMA AnsweredIs ==
    ASSUME NEW f \in BOOLEAN, Answered(f)
    PROVE  /\ loc' \in [idBit : Nat, lastZero : Nat, id : Byte, cmp : Byte,
                        isFound : BOOLEAN, rom : Seq(Byte)]
           /\ loc'.idBit = 1 /\ loc'.lastZero = 0
           /\ loc'.id = ZeroByte /\ loc'.cmp = ZeroByte
           /\ loc'.isFound = f /\ loc'.rom = <<>>
  BY NoLocalsType, ZeroByteType DEF Answered, NoLocals

(* SearchReset keeps the types and the driver's invariant.                 *)
LEMMA SearchResetBase ==
    ASSUME BaseInv, DriverInv, SearchReset
    PROVE  BaseInv' /\ DriverInv'
<1>1. CASE st.lastDevice
  <2>1. /\ at = "search" /\ at' = "searched"
        /\ st' = ResetCounters(st)
        /\ Answered(FALSE)
        /\ UNCHANGED <<rmtVars, wireVars, found, answer>>
    BY <1>1 DEF SearchReset, Goto, BaseInv, CallerInv
  <2>2. DriverInv'
    BY <2>1, StutterDriver DEF rmtVars, wireVars
  <2>3. LocTypes'
    BY <2>1, AnsweredIs, ResetCountersIs DEF BaseInv, LocTypes
  <2>4. TypeOK'
    <3>1. /\ loc'.idBit = 1 /\ loc'.lastZero = 0 /\ loc'.rom = <<>>
          /\ loc'.id = BitByte(0) /\ loc'.cmp = BitByte(0)
      BY <2>1, AnsweredIs, BitByteFacts
    <3>2. st'.lastDiscrepancy = 0 /\ st'.rom \in Codes
      BY <2>1, ResetCountersIs DEF BaseInv, LocTypes, TypeOK
    <3> QED BY <2>1, <3>1, <3>2, BitBytesKept, CodeBitsNat
            DEF BaseInv, TypeOK, rmtVars, wireVars
  <2>5. CallInv'
    BY <2>1 DEF BaseInv, CallInv, Resetting, BitReading, rmtVars, wireVars
  <2>6. CallerInv'
    BY <2>1, AnsweredIs DEF BaseInv, CallerInv, Resetting, Searching, RomReading, Labels
  <2> QED BY <2>2, <2>3, <2>4, <2>5, <2>6 DEF BaseInv
<1>2. CASE ~st.lastDevice
  <2>1. /\ at \in {"search", "verify"}
        /\ at' = IF at = "search" THEN "present" ELSE "verify_present"
        /\ Reset
        /\ st' = IF at = "verify" THEN [NoState EXCEPT !.lastDiscrepancy = CodeBits] ELSE st
        /\ UNCHANGED <<selected, loc, found, answer>>
    BY <1>2 DEF SearchReset, Goto
  <2>2. /\ DriverInv'
        /\ InCall' /\ call'.op = "reset" /\ wire'.wave = (ResetWave(devices # {}))'
        /\ faults' \in 0..MaxFaults
        /\ faults' = 0 => wire'.noise = "none"
        /\ stuck' \in BOOLEAN /\ (stuck' <=> wire'.noise = "stuck")
        /\ stuck' => faults' > 0
        /\ UNCHANGED <<devices, driver>>
    BY <2>1, ResetBegins
  <2>3. /\ st' \in [lastDiscrepancy : Nat, lastFamily : Nat, lastDevice : BOOLEAN, rom : Codes]
        /\ st'.lastDiscrepancy \in 0..CodeBits
    <3>1. CASE at = "search"
      BY <2>1, <3>1 DEF BaseInv, LocTypes, TypeOK
    <3>2. CASE at = "verify"
      <4>1. st' = [lastDiscrepancy |-> CodeBits, lastFamily |-> 0, lastDevice |-> FALSE,
                   rom |-> ZeroCode]
        BY <2>1, <3>2 DEF NoState
      <4> QED BY <4>1, NoStateType, CodeBitsNat
    <3> QED BY <2>1, <3>1, <3>2
  <2>4. LocTypes'
    BY <2>1, <2>3 DEF BaseInv, LocTypes
  <2>5. TypeOK'
    <3>1. st'.rom \in Codes
      BY <2>3
    <3>2. call'.at \in {"idle", "receive", "stop", "done", "panic"} /\ call'.value \in Byte
      BY <2>2 DEF DriverInv, CallTypes
    <3> QED BY <2>1, <2>2, <2>3, <3>1, <3>2, BitBytesKept DEF BaseInv, TypeOK
  <2>6. CallInv'
    BY <2>1, <2>2, BitBytesKept DEF CallInv, Resetting, BitReading
  <2>7. CallerInv'
    BY <2>1 DEF BaseInv, CallerInv, Resetting, Searching, RomReading, Labels
  <2> QED BY <2>2, <2>4, <2>5, <2>6, <2>7 DEF BaseInv
<1>3. st.lastDevice \in BOOLEAN
  BY DEF BaseInv, LocTypes
<1> QED BY <1>1, <1>2, <1>3

(* Between two calls.                                                      *)
Calling == Resetting \union BitReading \union {"byte_read"}

(* A caller that leaves the driver alone keeps DriverInv,                  *)
LEMMA StillCall ==
    ASSUME BaseInv, DriverInv, UNCHANGED <<rmtVars, devices, driver, faults, stuck, wire>>,
           at \notin Calling, at' \notin Calling
    PROVE  DriverInv' /\ CallInv'
<1>1. DriverInv'
  BY StutterDriver DEF rmtVars
<1>2. CallInv'
  BY DEF BaseInv, CallInv, Calling, Resetting, BitReading, rmtVars
<1> QED BY <1>1, <1>2

(* and one that takes the result does.                                     *)
LEMMA ReturnCall ==
    ASSUME BaseInv, DriverInv, Return, UNCHANGED <<devices, driver, faults, stuck, wire>>,
           at' \notin Calling
    PROVE  DriverInv' /\ CallInv'
<1>1. DriverInv' /\ call'.at = "idle"
  BY ReturnDriver
<1>2. CallInv'
  BY <1>1 DEF BaseInv, CallInv, Calling, Resetting, BitReading
<1> QED BY <1>1, <1>2

(* The types after a step in which the search starts or ends.               *)
LEMMA AnsweredTypes ==
    ASSUME BaseInv, DriverInv', driver' = driver, devices' = devices,
           NEW f \in BOOLEAN, Answered(f) \/ (loc' = NoLocals /\ f = FALSE),
           st' \in [lastDiscrepancy : Nat, lastFamily : Nat, lastDevice : BOOLEAN, rom : Codes],
           st'.lastDiscrepancy \in 0..CodeBits,
           selected' \subseteq devices,
           UNCHANGED <<faults, stuck, found>>
    PROVE  TypeOK' /\ LocTypes' /\ loc'.isFound = f /\ loc'.rom = <<>>
<1>1. /\ loc' \in [idBit : Nat, lastZero : Nat, id : Byte, cmp : Byte,
                   isFound : BOOLEAN, rom : Seq(Byte)]
      /\ loc'.idBit = 1 /\ loc'.lastZero = 0 /\ loc'.rom = <<>> /\ loc'.isFound = f
      /\ loc'.id = BitByte(0) /\ loc'.cmp = BitByte(0)
  BY AnsweredIs, NoLocalsType, BitByteFacts
<1>2. call'.at \in {"idle", "receive", "stop", "done", "panic"} /\ call'.value \in Byte
  BY DEF DriverInv, CallTypes
<1>3. st'.rom \in Codes
  OBVIOUS
<1>4. loc'.idBit \in 1..CodeBits + 1 /\ loc'.lastZero \in 0..CodeBits /\ Len(loc'.rom) <= Bytes
  BY <1>1, CodeBitsNat
<1>5. TypeOK'
  BY <1>1, <1>2, <1>3, <1>4, BitBytesKept DEF BaseInv, TypeOK
<1> QED BY <1>1, <1>5 DEF LocTypes

(* The counters of the search stay in their range.                         *)
LEMMA StateTypes ==
    ASSUME BaseInv
    PROVE  /\ st \in [lastDiscrepancy : Nat, lastFamily : Nat, lastDevice : BOOLEAN, rom : Codes]
           /\ st.lastDiscrepancy \in 0..CodeBits
  BY DEF BaseInv, LocTypes, TypeOK

(* SearchPresent keeps the types and the driver's invariant,               *)
LEMMA SearchPresentBase ==
    ASSUME BaseInv, DriverInv, SearchPresent
    PROVE  BaseInv' /\ DriverInv'
<1>1. /\ at \in {"present", "verify_present"}
      /\ Return
      /\ answer' = IF at = "verify_present" THEN "verifying" ELSE answer
      /\ UNCHANGED <<devices, driver, faults, stuck, wire, found>>
  BY DEF SearchPresent
<1>a. answer = "none"
  BY <1>1 DEF BaseInv, CallerInv, Searching
<1>2. CASE ~call.present
  <2>1. /\ st' = ResetCounters(st) /\ Answered(FALSE) /\ at' = "searched"
        /\ UNCHANGED selected
    BY <1>2 DEF SearchPresent, Goto
  <2>2. DriverInv' /\ CallInv'
    BY <1>1, <2>1, ReturnCall DEF Calling, Resetting, BitReading
  <2>3. TypeOK' /\ LocTypes' /\ loc'.isFound = FALSE /\ loc'.rom = <<>>
    <3>1. LocTypes /\ selected' \subseteq devices
      BY <2>1 DEF BaseInv, TypeOK
    <3>2. /\ st' \in [lastDiscrepancy : Nat, lastFamily : Nat, lastDevice : BOOLEAN, rom : Codes]
          /\ st'.lastDiscrepancy \in 0..CodeBits
      BY <2>1, <3>1, ResetCountersIs, CodeBitsNat
    <3> QED BY <1>1, <2>1, <2>2, <3>1, <3>2, AnsweredTypes
  <2>4. CallerInv'
    BY <1>1, <1>a, <2>1, <2>3 DEF BaseInv, CallerInv, Resetting, Searching, RomReading, Labels
  <2> QED BY <2>2, <2>3, <2>4 DEF BaseInv
<1>3. CASE call.present
  <2>1. /\ selected' = devices /\ loc' = NoLocals /\ at' = "id" /\ UNCHANGED st
    BY <1>3 DEF SearchPresent, Goto
  <2>2. DriverInv' /\ CallInv'
    BY <1>1, <2>1, ReturnCall DEF Calling, Resetting, BitReading
  <2>3. TypeOK' /\ LocTypes' /\ loc'.isFound = FALSE /\ loc'.rom = <<>>
    <3>1. selected' \subseteq devices
      BY <2>1
    <3> QED BY <1>1, <2>1, <2>2, <3>1, StateTypes, AnsweredTypes
  <2>4. CallerInv'
    <3>1. loc'.idBit = 1 /\ CodeBits + 1 # 1
      BY <2>1, NoLocalsType, CodeBitsNat
    <3> QED BY <1>1, <1>a, <2>1, <2>3, <3>1 DEF CallerInv, Resetting, Searching, RomReading, Labels
  <2> QED BY <2>2, <2>3, <2>4 DEF BaseInv
<1> QED BY <1>2, <1>3

(* IdRead does,                                                            *)
LEMMA IdReadBase ==
    ASSUME BaseInv, DriverInv, IdRead
    PROVE  BaseInv' /\ DriverInv' /\ loc'.id = call.value
<1>1. /\ at = "id_read" /\ at' = "cmp" /\ Return
      /\ loc' = [loc EXCEPT !.id = call.value]
      /\ UNCHANGED <<wireVars, st, found, answer>>
  BY DEF IdRead, Goto
<1>2. DriverInv' /\ CallInv'
  BY <1>1, ReturnCall DEF Calling, Resetting, BitReading, wireVars
<1>3. call.value \in {BitByte(0), BitByte(1)} /\ call.value \in Byte
  <2>1. call.at = "done"
    BY <1>1 DEF Return
  <2> QED BY <1>1, <2>1 DEF BaseInv, TypeOK, CallInv, BitReading, HasResult
<1>4. /\ loc' \in [idBit : Nat, lastZero : Nat, id : Byte, cmp : Byte,
                   isFound : BOOLEAN, rom : Seq(Byte)]
      /\ loc'.id = call.value /\ loc'.cmp = loc.cmp /\ loc'.idBit = loc.idBit
      /\ loc'.lastZero = loc.lastZero /\ loc'.rom = loc.rom
  BY <1>1, <1>3 DEF BaseInv, LocTypes
<1>5. TypeOK'
  <2>1. call'.at \in {"idle", "receive", "stop", "done", "panic"} /\ call'.value \in Byte
    BY <1>2 DEF DriverInv, CallTypes
  <2> QED BY <1>1, <1>3, <1>4, <2>1, BitBytesKept DEF BaseInv, TypeOK, wireVars
<1>6. LocTypes'
  BY <1>1, <1>4 DEF BaseInv, LocTypes
<1>7. CallerInv'
  BY <1>1, <1>4 DEF BaseInv, CallerInv, Resetting, Searching, RomReading, Labels
<1> QED BY <1>2, <1>4, <1>5, <1>6, <1>7 DEF BaseInv

(* ComplementRead does,                                                    *)
LEMMA ComplementReadBase ==
    ASSUME BaseInv, DriverInv, ComplementRead
    PROVE  BaseInv' /\ DriverInv' /\ loc'.cmp = call.value
<1>1. /\ at = "cmp_read" /\ at' = "decide" /\ Return
      /\ loc' = [loc EXCEPT !.cmp = call.value]
      /\ UNCHANGED <<wireVars, st, found, answer>>
  BY DEF ComplementRead, Goto
<1>2. DriverInv' /\ CallInv'
  BY <1>1, ReturnCall DEF Calling, Resetting, BitReading, wireVars
<1>3. call.value \in {BitByte(0), BitByte(1)} /\ call.value \in Byte
  <2>1. call.at = "done"
    BY <1>1 DEF Return
  <2> QED BY <1>1, <2>1 DEF BaseInv, TypeOK, CallInv, BitReading, HasResult
<1>4. /\ loc' \in [idBit : Nat, lastZero : Nat, id : Byte, cmp : Byte,
                   isFound : BOOLEAN, rom : Seq(Byte)]
      /\ loc'.cmp = call.value /\ loc'.id = loc.id /\ loc'.idBit = loc.idBit
      /\ loc'.lastZero = loc.lastZero /\ loc'.rom = loc.rom
  BY <1>1, <1>3 DEF BaseInv, LocTypes
<1>5. TypeOK'
  <2>1. call'.at \in {"idle", "receive", "stop", "done", "panic"} /\ call'.value \in Byte
    BY <1>2 DEF DriverInv, CallTypes
  <2> QED BY <1>1, <1>3, <1>4, <2>1, BitBytesKept DEF BaseInv, TypeOK, wireVars
<1>6. LocTypes'
  BY <1>1, <1>4 DEF BaseInv, LocTypes
<1>7. CallerInv'
  BY <1>1, <1>4 DEF BaseInv, CallerInv, Resetting, Searching, RomReading, Labels
<1> QED BY <1>2, <1>4, <1>5, <1>6, <1>7 DEF BaseInv

(* ReadRomPresent does.                                                    *)
LEMMA ReadRomPresentBase ==
    ASSUME BaseInv, DriverInv, ReadRomPresent
    PROVE  BaseInv' /\ DriverInv'
<1>1. /\ at = "read_rom_present" /\ at' \in {"done", "byte"} /\ Return
      /\ IF at' = "done" THEN answer' = "DEVICE_NOT_RESPONDING" ELSE answer' = answer
      /\ UNCHANGED <<wireVars, st, loc, found>>
  BY DEF ReadRomPresent, Goto
<1>2. DriverInv' /\ CallInv'
  BY <1>1, ReturnCall DEF Calling, Resetting, BitReading, wireVars
<1>3. TypeOK' /\ LocTypes'
  BY <1>1, <1>2, TypeKept DEF wireVars, BaseInv, TypeOK
<1>4. CallerInv'
  <2>1. loc'.rom = <<>> /\ answer = "none" /\ Len(<<>>) < Bytes
    BY <1>1, CodeBitsNat DEF BaseInv, CallerInv, Searching
  <2> QED BY <1>1, <2>1 DEF BaseInv, CallerInv, Resetting, Searching, RomReading, Labels
<1> QED BY <1>2, <1>3, <1>4 DEF BaseInv

(* A sequence of bytes with one more byte is a sequence of bytes.          *)
LEMMA LongerSequence ==
    ASSUME NEW S, NEW s \in Seq(S), NEW e \in S, NEW n \in Nat, Len(s) <= n, Len(s) # n
    PROVE  /\ Append(s, e) \in Seq(S) /\ Len(Append(s, e)) <= n
           /\ Len(Append(s, e)) = Len(s) + 1 /\ Len(s) \in Nat
           /\ Append(s, e)[Len(s) + 1] = e
           /\ \A i \in 1..Len(s) : Append(s, e)[i] = s[i]
  OBVIOUS

(* ByteRead keeps the types and the driver's invariant,                    *)
LEMMA ByteReadBase ==
    ASSUME BaseInv, DriverInv, ByteRead
    PROVE  BaseInv' /\ DriverInv'
<1>1. /\ at = "byte_read" /\ Return
      /\ loc' = [loc EXCEPT !.rom = Append(loc.rom, call.value)]
      /\ at' = IF Len(loc.rom) + 1 = Bytes THEN "crc" ELSE "byte"
      /\ UNCHANGED <<wireVars, st, found, answer>>
  BY DEF ByteRead, Goto
<1>2. DriverInv' /\ CallInv'
  BY <1>1, ReturnCall DEF Calling, Resetting, BitReading, wireVars
<1>3. /\ loc.rom \in Seq(Byte) /\ Len(loc.rom) < Bytes /\ call.value \in Byte
      /\ Len(loc.rom) \in Nat
  BY <1>1 DEF BaseInv, TypeOK, CallerInv
<1>4. /\ Append(loc.rom, call.value) \in Seq(Byte)
      /\ Len(Append(loc.rom, call.value)) <= Bytes
      /\ Len(Append(loc.rom, call.value)) = Len(loc.rom) + 1
  BY <1>3, CodeBitsNat, LongerSequence
<1>5. /\ loc' \in [idBit : Nat, lastZero : Nat, id : Byte, cmp : Byte,
                   isFound : BOOLEAN, rom : Seq(Byte)]
      /\ loc'.id = loc.id /\ loc'.cmp = loc.cmp /\ loc'.idBit = loc.idBit
      /\ loc'.lastZero = loc.lastZero /\ loc'.rom = Append(loc.rom, call.value)
  BY <1>1, <1>4 DEF BaseInv, LocTypes
<1>6. TypeOK'
  <2>1. call'.at \in {"idle", "receive", "stop", "done", "panic"} /\ call'.value \in Byte
    BY <1>2 DEF DriverInv, CallTypes
  <2> QED BY <1>1, <1>4, <1>5, <2>1, BitBytesKept DEF BaseInv, TypeOK, wireVars
<1>7. LocTypes'
  BY <1>1, <1>5 DEF BaseInv, LocTypes
<1>8. CallerInv'
  <2>1. at' = "byte" => Len(loc'.rom) < Bytes
    BY <1>1, <1>3, <1>4, <1>5, CodeBitsNat
  <2> QED BY <1>1, <2>1 DEF BaseInv, CallerInv, Resetting, Searching, RomReading, Labels
<1> QED BY <1>2, <1>6, <1>7, <1>8 DEF BaseInv

(* and Initialize establishes them again.                                  *)
LEMMA InitializeBase ==
    ASSUME BaseInv, DriverInv, Initialize
    PROVE  BaseInv' /\ DriverInv' /\ faults <= faults'
<1>1. /\ at = "initialize" /\ at' \in {"search", "read_rom"}
      /\ faults' \in 0..MaxFaults /\ faults <= faults'
      /\ \/ rmt' = rmt
         \/ \E tx, rx \in BOOLEAN : rmt' = [rmt EXCEPT !.tx = tx, !.rx = rx]
      /\ UNCHANGED <<rb, air, call, callId, gotId, devices, driver, selected, stuck,
                     wire, st, loc, found, answer>>
  <2>1. faults \in 0..MaxFaults /\ MaxFaults \in Nat
    BY MaxFaultsAssumption DEF BaseInv, TypeOK
  <2>2. CASE driver = "gpio"
    BY <2>1, <2>2 DEF Initialize, Goto, rmtVars
  <2>3. CASE driver # "gpio"
    <3>1. PICK failing \in {"nothing", "tx_config", "tx_install", "rx_config", "rx_install"} :
             /\ failing # "nothing" => faults < MaxFaults
             /\ faults' = faults + (IF failing = "nothing" THEN 0 ELSE 1)
             /\ Install(failing)
      BY <2>3 DEF Initialize
    <3>2. faults' \in 0..MaxFaults /\ faults <= faults'
      BY <2>1, <3>1
    <3>3. /\ \E tx, rx \in BOOLEAN : rmt' = [rmt EXCEPT !.tx = tx, !.rx = rx]
          /\ UNCHANGED <<rb, air, call, callId, gotId>>
      <4> DEFINE tx == failing \in {"nothing", "rx_install"}
                 rx == failing = "nothing"
      <4>1. tx \in BOOLEAN /\ rx \in BOOLEAN
        OBVIOUS
      <4>2. rmt' = [rmt EXCEPT !.tx = tx, !.rx = rx] /\ UNCHANGED <<rb, air, call, callId, gotId>>
        BY <3>1 DEF Install
      <4> HIDE DEF tx, rx
      <4> QED BY <4>1, <4>2
    <3> QED BY <3>2, <3>3 DEF Initialize, Goto
  <2> QED BY <2>2, <2>3
<1>2. rmt' \in [tx : BOOLEAN, rx : BOOLEAN, on : BOOLEAN, idle : Nat] /\ rmt'.idle = rmt.idle
  BY <1>1 DEF DriverInv, CallTypes
<1>3. DriverInv'
  <2>1. CallTypes'
    BY <1>1, <1>2 DEF DriverInv, CallTypes
  <2> QED BY <1>1, <2>1 DEF DriverInv, CleanCall, NoPresence, StuckCall, InCall, HasResult,
                             OwnTrace, Recorded
<1>4. TypeOK' /\ LocTypes'
  BY <1>1, <1>3, TypeKept DEF BaseInv, TypeOK
<1>5. CallInv'
  <2>1. faults \in Nat /\ faults' \in Nat /\ (faults' = 0 => faults = 0)
                       /\ (faults > 0 => faults' > 0)
    <3>1. faults \in 0..MaxFaults /\ MaxFaults \in Nat
      BY MaxFaultsAssumption DEF BaseInv, TypeOK
    <3>2. faults' \in 0..MaxFaults /\ faults <= faults'
      BY <1>1
    <3> QED BY <3>1, <3>2
  <2> QED BY <1>1, <2>1 DEF BaseInv, CallInv, Resetting, BitReading
<1>6. CallerInv'
  BY <1>1 DEF BaseInv, CallerInv, Resetting, Searching, RomReading, Labels
<1> QED BY <1>1, <1>3, <1>4, <1>5, <1>6 DEF BaseInv

(* The direction is a bit, one the two readings allow.                     *)
LEMMA DirectionBit ==
    ASSUME BaseInv, at = "decide"
    PROVE  Direction \in {0, 1} /\ loc.idBit \in 1..CodeBits
<1>1. loc.idBit \in 1..CodeBits
  BY CodeBitsNat DEF BaseInv, TypeOK, CallerInv, Searching
<1>2. st.rom[loc.idBit] \in {0, 1}
  BY <1>1 DEF BaseInv, TypeOK, Codes
<1> QED BY <1>1, <1>2 DEF Direction

(* What a decision does, field by field.                                   *)
LEMMA DecideIs ==
    ASSUME BaseInv, Decide
    PROVE  /\ at = "decide" /\ at' = IF loc.idBit = CodeBits THEN "end" ELSE "id"
           /\ ~NobodyAnswers
           /\ st' \in [lastDiscrepancy : Nat, lastFamily : Nat, lastDevice : BOOLEAN, rom : Codes]
           /\ st'.lastDiscrepancy = st.lastDiscrepancy /\ st'.lastDevice = st.lastDevice
           /\ st'.rom = [st.rom EXCEPT ![loc.idBit] = Direction]
           /\ loc' \in [idBit : Nat, lastZero : Nat, id : Byte, cmp : Byte,
                        isFound : BOOLEAN, rom : Seq(Byte)]
           /\ loc'.idBit = loc.idBit + 1
           /\ loc'.lastZero = IF TookZero THEN loc.idBit ELSE loc.lastZero
           /\ loc'.id = loc.id /\ loc'.cmp = loc.cmp /\ loc'.rom = loc.rom
           /\ loc.idBit \in 1..CodeBits /\ Direction \in {0, 1}
           /\ UNCHANGED <<rmtVars, devices, driver, faults, stuck, wire, found, answer>>
<1>1. Direction \in {0, 1} /\ loc.idBit \in 1..CodeBits
  BY DirectionBit DEF Decide
<1>2. st.rom \in Codes /\ st.lastDiscrepancy \in Nat /\ st.lastFamily \in Nat
      /\ st.lastDevice \in BOOLEAN /\ loc.idBit \in Nat
  BY DEF BaseInv, LocTypes
<1>3. [st.rom EXCEPT ![loc.idBit] = Direction] \in Codes
  BY <1>1, <1>2 DEF Codes
<1>4. /\ st' \in [lastDiscrepancy : Nat, lastFamily : Nat, lastDevice : BOOLEAN, rom : Codes]
      /\ st'.lastDiscrepancy = st.lastDiscrepancy /\ st'.lastDevice = st.lastDevice
      /\ st'.rom = [st.rom EXCEPT ![loc.idBit] = Direction]
  <2> DEFINE f == IF TookZero /\ loc.idBit <= Width THEN loc.idBit ELSE st.lastFamily
             r == [st.rom EXCEPT ![loc.idBit] = Direction]
  <2>1. f \in Nat /\ r \in Codes
    BY <1>2, <1>3
  <2>2. st' = [lastDiscrepancy |-> st.lastDiscrepancy, lastFamily |-> f,
               lastDevice |-> st.lastDevice, rom |-> r]
    BY DEF Decide
  <2> HIDE DEF f, r
  <2>3. /\ st' \in [lastDiscrepancy : Nat, lastFamily : Nat, lastDevice : BOOLEAN, rom : Codes]
        /\ st'.lastDiscrepancy = st.lastDiscrepancy /\ st'.lastDevice = st.lastDevice
        /\ st'.rom = r
    BY <1>2, <2>1, <2>2
  <2> QED BY <2>3 DEF r
<1>5. /\ loc' \in [idBit : Nat, lastZero : Nat, id : Byte, cmp : Byte,
                   isFound : BOOLEAN, rom : Seq(Byte)]
      /\ loc'.idBit = loc.idBit + 1
      /\ loc'.lastZero = IF TookZero THEN loc.idBit ELSE loc.lastZero
      /\ loc'.id = loc.id /\ loc'.cmp = loc.cmp /\ loc'.rom = loc.rom
  <2> DEFINE z == IF TookZero THEN loc.idBit ELSE loc.lastZero
             b == loc.idBit + 1
  <2>1. loc' = [loc EXCEPT !.idBit = b, !.lastZero = z]
    BY DEF Decide
  <2>3. z \in Nat /\ b \in Nat
    BY <1>2 DEF BaseInv, LocTypes
  <2> HIDE DEF z, b
  <2>2. /\ loc' \in [idBit : Nat, lastZero : Nat, id : Byte, cmp : Byte,
                   isFound : BOOLEAN, rom : Seq(Byte)]
        /\ loc'.idBit = b /\ loc'.lastZero = z
        /\ loc'.id = loc.id /\ loc'.cmp = loc.cmp /\ loc'.rom = loc.rom
    BY <2>1, <2>3 DEF BaseInv, LocTypes
  <2> QED BY <2>2 DEF z, b
<1> QED BY <1>1, <1>4, <1>5 DEF Decide, Goto

(* Decide keeps the types and the driver's invariant,                      *)
LEMMA DecideBase ==
    ASSUME BaseInv, DriverInv, Decide
    PROVE  BaseInv' /\ DriverInv'
<1>1. /\ at = "decide" /\ at' \in {"id", "end"}
      /\ at' = "end" <=> loc.idBit = CodeBits
      /\ UNCHANGED <<rmtVars, devices, driver, faults, stuck, wire, found, answer>>
      /\ loc.idBit \in 1..CodeBits
  BY DecideIs
<1>2. DriverInv' /\ CallInv'
  BY <1>1, StillCall DEF Calling, Resetting, BitReading
<1>3. /\ loc'.idBit \in 1..CodeBits + 1
      /\ loc'.lastZero \in 0..CodeBits
      /\ loc'.idBit = CodeBits + 1 <=> loc.idBit = CodeBits
  <2>1. loc'.idBit = loc.idBit + 1 /\ loc'.lastZero = IF TookZero THEN loc.idBit ELSE loc.lastZero
    BY DecideIs
  <2> QED BY <1>1, <2>1, CodeBitsNat DEF BaseInv, TypeOK
<1>4. TypeOK'
  <2>1. /\ st'.lastDiscrepancy \in 0..CodeBits /\ st'.rom \in Codes
        /\ loc'.id = loc.id /\ loc'.cmp = loc.cmp /\ loc'.rom = loc.rom
    BY DecideIs DEF BaseInv, TypeOK
  <2>2. selected' \subseteq devices
    BY DEF Decide, BaseInv, TypeOK
  <2> QED BY <1>1, <1>3, <2>1, <2>2, BitBytesKept DEF BaseInv, TypeOK, rmtVars
<1>5. LocTypes'
  BY DecideIs DEF LocTypes
<1>6. CallerInv'
  <2>1. loc'.rom = loc.rom
    BY DecideIs
  <2> QED BY <1>1, <1>3, <2>1 DEF BaseInv, CallerInv, Resetting, Searching, RomReading, Labels
<1> QED BY <1>2, <1>4, <1>5, <1>6 DEF BaseInv

(* What the end of a search does.                                          *)
LEMMA SearchEndIs ==
    ASSUME BaseInv, SearchEnd
    PROVE  /\ at = "end" \/ (at = "decide" /\ NobodyAnswers)
           /\ at' = "searched"
           /\ loc'.isFound <=> CodeComplete /\ Some(ByteOf(st.rom, 1))
           /\ loc'.isFound \in BOOLEAN /\ Answered(loc'.isFound) /\ loc'.rom = <<>>
           /\ st' \in [lastDiscrepancy : Nat, lastFamily : Nat, lastDevice : BOOLEAN, rom : Codes]
           /\ st'.rom = st.rom
           /\ st'.lastDiscrepancy = IF loc'.isFound THEN loc.lastZero ELSE 0
           /\ st'.lastDevice <=> loc'.isFound /\ loc.lastZero = 0
           /\ UNCHANGED <<rmtVars, wireVars, found, answer>>
<1> DEFINE isFound == CodeComplete /\ Some(ByteOf(st.rom, 1))
           d == loc.lastZero = 0
           s == [st EXCEPT !.lastDiscrepancy = loc.lastZero, !.lastDevice = d]
<1>1. /\ Answered(isFound)
      /\ st' = IF isFound THEN s ELSE ResetCounters(st)
  BY DEF SearchEnd
<1>2. isFound \in BOOLEAN /\ d \in BOOLEAN
  BY DEF CodeComplete
<1> HIDE DEF isFound, d
<1>3. loc'.isFound = isFound /\ loc'.rom = <<>>
  BY <1>1, <1>2, AnsweredIs
<1>4. LocTypes
  BY DEF BaseInv
<1>5. /\ s \in [lastDiscrepancy : Nat, lastFamily : Nat, lastDevice : BOOLEAN, rom : Codes]
      /\ s.rom = st.rom /\ s.lastDiscrepancy = loc.lastZero /\ s.lastDevice = d
  BY <1>2, <1>4 DEF LocTypes
<1>6. CASE isFound
  <2>1. st' = s
    BY <1>1, <1>6
  <2> QED BY <1>1, <1>2, <1>3, <1>5, <1>6, <2>1 DEF SearchEnd, Goto, isFound, d
<1>7. CASE ~isFound
  <2>1. st' = ResetCounters(st)
    BY <1>1, <1>7
  <2> QED BY <1>1, <1>2, <1>3, <1>4, <1>7, <2>1, ResetCountersIs DEF SearchEnd, Goto, isFound, d
<1> QED BY <1>6, <1>7

(* SearchEnd does,                                                         *)
LEMMA SearchEndBase ==
    ASSUME BaseInv, DriverInv, SearchEnd
    PROVE  BaseInv' /\ DriverInv'
<1>1. /\ at \in {"end", "decide"} /\ at' = "searched"
      /\ loc'.isFound \in BOOLEAN /\ Answered(loc'.isFound) /\ loc'.rom = <<>>
      /\ st' \in [lastDiscrepancy : Nat, lastFamily : Nat, lastDevice : BOOLEAN, rom : Codes]
      /\ st'.lastDiscrepancy = IF loc'.isFound THEN loc.lastZero ELSE 0
      /\ UNCHANGED <<rmtVars, devices, driver, selected, faults, stuck, wire, found, answer>>
  BY SearchEndIs DEF wireVars
<1>2. DriverInv' /\ CallInv'
  BY <1>1, StillCall DEF Calling, Resetting, BitReading
<1>3. TypeOK' /\ LocTypes'
  <2>1. st'.lastDiscrepancy \in 0..CodeBits /\ selected' \subseteq devices
    BY <1>1, CodeBitsNat DEF BaseInv, TypeOK
  <2> QED BY <1>1, <1>2, <2>1, AnsweredTypes
<1>4. CallerInv'
  BY <1>1 DEF BaseInv, CallerInv, Resetting, Searching, RomReading, Labels
<1> QED BY <1>2, <1>3, <1>4 DEF BaseInv

(* The types when the state, the locals and the bus stay.                  *)
LEMMA KeepCodeBase ==
    ASSUME BaseInv, DriverInv, KeepCode
    PROVE  BaseInv' /\ DriverInv'
<1>1. /\ at = "searched" /\ answer # "verifying"
      /\ at' = IF ~loc.isFound THEN "verify"
               ELSE IF Len(found) = Quantity THEN "overrun" ELSE "search"
      /\ found' = IF at' = "search" THEN Append(found, st.rom) ELSE found
      /\ st' = IF loc.isFound THEN st ELSE NoState
      /\ UNCHANGED <<rmtVars, devices, driver, selected, faults, stuck, wire, loc, answer>>
  BY DEF KeepCode, Goto, InVerify, wireVars
<1>2. DriverInv' /\ CallInv'
  BY <1>1, StillCall DEF Calling, Resetting, BitReading
<1>3. found' \in Seq(Codes) /\ Len(found') <= Quantity
  <2>1. found \in Seq(Codes) /\ Len(found) <= Quantity /\ st.rom \in Codes
    BY DEF BaseInv, TypeOK
  <2>2. CASE at' = "search"
    <3>1. Len(found) # Quantity /\ found' = Append(found, st.rom)
      BY <1>1, <2>2
    <3> QED BY <2>1, <3>1, QuantityAssumption, LongerSequence
  <2>3. CASE at' # "search"
    BY <1>1, <2>1, <2>3
  <2> QED BY <2>2, <2>3
<1>4. /\ st' \in [lastDiscrepancy : Nat, lastFamily : Nat, lastDevice : BOOLEAN, rom : Codes]
      /\ st'.lastDiscrepancy \in 0..CodeBits
      /\ ~loc.isFound => ~st'.lastDevice
  BY <1>1, StateTypes, NoStateType, CodeBitsNat
<1>5. TypeOK'
  <2>1. st'.rom \in Codes
    BY <1>4
  <2> QED BY <1>1, <1>3, <1>4, <2>1, BitBytesKept DEF BaseInv, TypeOK, rmtVars
<1>6. LocTypes'
  BY <1>1, <1>4 DEF BaseInv, LocTypes
<1>7. CallerInv'
  BY <1>1, <1>4 DEF BaseInv, CallerInv, Resetting, Searching, RomReading, Labels
<1> QED BY <1>2, <1>5, <1>6, <1>7 DEF BaseInv

(* the ends of an operation do,                                            *)
LEMMA DoneBase ==
    ASSUME BaseInv, DriverInv, VerifyRom \/ CheckRom
    PROVE  BaseInv' /\ DriverInv'
<1>1. /\ at \in {"searched", "crc"} /\ at' = "done"
      /\ answer' \in {"present", "absent", "OK", "CRC_FAILED"}
      /\ UNCHANGED <<rmtVars, devices, driver, selected, faults, stuck, wire, st, loc, found>>
  BY DEF VerifyRom, CheckRom, Goto, wireVars
<1>2. DriverInv' /\ CallInv'
  BY <1>1, StillCall DEF Calling, Resetting, BitReading
<1>3. TypeOK' /\ LocTypes'
  BY <1>1, <1>2, TypeKept DEF BaseInv, TypeOK
<1>4. CallerInv'
  BY <1>1 DEF BaseInv, CallerInv, Resetting, Searching, RomReading, Labels
<1> QED BY <1>2, <1>3, <1>4 DEF BaseInv

(* Panic does,                                                             *)
LEMMA PanicBase ==
    ASSUME BaseInv, DriverInv, Panic
    PROVE  BaseInv' /\ DriverInv'
<1>1. /\ at \in {"search", "read_rom"} /\ call.at = "idle"
      /\ call' = [call EXCEPT !.at = "panic"]
      /\ UNCHANGED <<rmt, rb, air, callId, gotId, devices, driver, selected, faults, stuck,
                     wire, at, st, loc, found, answer>>
  BY DEF Panic, BeginPanics, wireVars
<1>2. /\ DOMAIN call' = DOMAIN call /\ call'.at = "panic"
      /\ call'.op = call.op /\ call'.n = call.n /\ call'.present = call.present
      /\ call'.value = call.value
  BY <1>1 DEF DriverInv, CallTypes
<1>3. CallTypes'
  BY <1>1, <1>2 DEF DriverInv, CallTypes
<1>4. DriverInv'
  BY <1>2, <1>3 DEF DriverInv, CleanCall, NoPresence, StuckCall, InCall, HasResult
<1>5. TypeOK' /\ LocTypes'
  BY <1>1, <1>4, TypeKept DEF BaseInv, TypeOK
<1>6. CallInv'
  BY <1>1, <1>2 DEF BaseInv, CallInv, Resetting, BitReading
<1>7. CallerInv'
  BY <1>1 DEF BaseInv, CallerInv
<1> QED BY <1>4, <1>5, <1>6, <1>7 DEF BaseInv

(* and the driver's own steps do.                                          *)
LEMMA DriverStepBase ==
    ASSUME BaseInv, DriverInv, OwnTraces, DriverStep,
           UNCHANGED <<wireVars, at, st, loc, found, answer>>
    PROVE  BaseInv' /\ DriverInv'
<1>1. UNCHANGED <<devices, driver, selected, faults, stuck, wire, at, st, loc, found, answer>>
  BY DEF wireVars
<1>2. /\ DriverInv'
      /\ \/ call' = call
         \/ /\ InCall /\ InCall' /\ call'.op = call.op /\ call'.n = call.n
            /\ \/ HasResult /\ call'.value = call.value
               \/ call.op = "reset"
               \/ ~HasResult /\ call.op = "read" /\ \E t : call'.value = ReadData(t, call.n)
            /\ driver = "rmt"
  <2>1. CASE TraceArrives
    BY <1>1, <2>1, ArrivesDriver DEF TraceArrives
  <2>2. CASE Receive
    <3>1. DriverInv' /\ call'.at = "stop" /\ call'.op = call.op /\ call'.n = call.n
      BY <1>1, <2>2, ReceiveDriver
    <3>2. call.at = "receive" /\ driver = "rmt" /\ call.op \in {"none", "reset", "read"}
      BY <2>2 DEF Receive, DriverInv, CallTypes
    <3>3. call.op # "reset" => call'.value = ReadData(Head(rb).items, call.n)
      <4> DEFINE p == call.op = "reset" /\ Presence(Head(rb).items)
                 v == IF call.op = "reset" THEN ZeroByte
                      ELSE ReadData(Head(rb).items, call.n)
      <4>1. call' = [call EXCEPT !.at = "stop", !.present = p, !.value = v]
        BY <2>2 DEF Receive
      <4> HIDE DEF p, v
      <4>2. call'.value = v
        BY <4>1 DEF DriverInv, CallTypes
      <4> QED BY <4>2 DEF v
    <3>4. call.op # "none"
      BY <3>2 DEF BaseInv, CallInv
    <3> QED BY <3>1, <3>2, <3>3, <3>4 DEF InCall, HasResult
  <2>3. CASE ReceiveTimesOut \/ Stop
    <3>1. /\ DriverInv' /\ call'.at \in {"stop", "done"}
          /\ call.at \in {"receive", "stop"}
          /\ call'.op = call.op /\ call'.n = call.n /\ call'.value = call.value
      BY <1>1, <2>3, EndsDriver
    <3>2. driver = "rmt"
      BY <3>1 DEF DriverInv, CallTypes
    <3>3. call.at = "receive" => call.op = "reset"
      BY <2>3 DEF ReceiveTimesOut, Stop
    <3> QED BY <3>1, <3>2, <3>3 DEF InCall, HasResult
  <2> QED BY <2>1, <2>2, <2>3 DEF DriverStep
<1>3. TypeOK' /\ LocTypes'
  BY <1>1, <1>2, TypeKept DEF BaseInv, TypeOK
<1>4. CallInv'
  <2>1. IdBit' = IdBit /\ ComplementBit' = ComplementBit
    BY <1>1 DEF IdBit, ComplementBit
  <2>2. CASE call' = call
    BY <1>1, <2>1, <2>2, BitBytesKept DEF BaseInv, CallInv, InCall, HasResult
  <2>3. CASE call' # call
    <3>1. /\ InCall /\ InCall' /\ call'.op = call.op /\ call'.n = call.n
          /\ driver = "rmt"
          /\ call.op = "read" => \/ HasResult /\ call'.value = call.value
                                \/ \E t : call'.value = ReadData(t, call.n)
      BY <1>2, <2>3
    <3>2. at \in Resetting \union BitReading \union {"byte_read"}
      BY <3>1 DEF BaseInv, CallInv, InCall
    <3>3. at \in BitReading => call'.value \in {BitByte(0), BitByte(1)}
      <4> SUFFICES ASSUME at \in BitReading PROVE call'.value \in {BitByte(0), BitByte(1)}
        OBVIOUS
      <4>1. call.op = "read" /\ call.n = 1 /\ (HasResult => call.value \in {BitByte(0), BitByte(1)})
        BY DEF BaseInv, CallInv
      <4>2. \A t : ReadData(t, 1) \in {BitByte(0), BitByte(1)}
        BY <3>1, RmtOneBit
      <4> QED BY <3>1, <4>1, <4>2
    <3> QED BY <1>1, <2>1, <3>1, <3>2, <3>3, BitBytesKept DEF BaseInv, CallInv, Resetting, BitReading
  <2> QED BY <2>2, <2>3
<1>5. CallerInv'
  BY <1>1 DEF BaseInv, CallerInv
<1> QED BY <1>2, <1>3, <1>4, <1>5 DEF BaseInv

(* Every step keeps it all.                                                *)
LEMMA BaseStep ==
    ASSUME BaseInv, DriverInv, OwnTraces, [Next]_vars
    PROVE  BaseInv' /\ DriverInv'
<1>1. CASE Initialize
  BY <1>1, InitializeBase
<1>2. CASE Search
  BY <1>2, SearchResetBase, SearchPresentBase, ReadIdBase, IdReadBase, ReadComplementBase,
     ComplementReadBase, DecideBase, SearchEndBase DEF Search
<1>3. CASE KeepCode \/ VerifyRom \/ Panic
  BY <1>3, KeepCodeBase, DoneBase, PanicBase
<1>4. CASE ReadRom
  BY <1>4, ReadRomResetBase, ReadRomPresentBase, ReadByteBase, ByteReadBase, DoneBase DEF ReadRom
<1>5. CASE DriverStep /\ UNCHANGED <<wireVars, at, st, loc, found, answer>>
  BY <1>5, DriverStepBase
<1>6. CASE UNCHANGED vars
  <2>1. UNCHANGED <<rmtVars, devices, driver, selected, faults, stuck, wire, at, st, loc,
                    found, answer>>
    BY <1>6 DEF vars, wireVars
  <2>2. DriverInv'
    BY <2>1, StutterDriver DEF rmtVars
  <2>3. TypeOK' /\ LocTypes'
    BY <2>1, <2>2, TypeKept DEF BaseInv, TypeOK
  <2>4. CallInv'
    <3>1. IdBit' = IdBit /\ ComplementBit' = ComplementBit
      BY <2>1 DEF IdBit, ComplementBit
    <3> QED BY <2>1, <3>1, BitBytesKept DEF BaseInv, CallInv, InCall, HasResult, rmtVars
  <2>5. CallerInv'
    BY <2>1 DEF BaseInv, CallerInv
  <2> QED BY <2>2, <2>3, <2>4, <2>5 DEF BaseInv
<1> QED BY <1>1, <1>2, <1>3, <1>4, <1>5, <1>6 DEF Next

(* The types and the driver's invariant hold at first.                     *)
LEMMA BaseInit == Init => BaseInv /\ DriverInv /\ OwnTraces
<1> SUFFICES ASSUME Init PROVE BaseInv /\ DriverInv /\ OwnTraces
  OBVIOUS
<1>1. /\ rmt = [tx |-> FALSE, rx |-> FALSE, on |-> FALSE, idle |-> OW_DURATION_RX_IDLE]
      /\ rb = <<>> /\ air = <<>> /\ callId = 0 /\ gotId = 0
      /\ call = NewCall("none", 0, "idle", FALSE, ZeroByte)
      /\ devices \in Populations /\ driver \in {"rmt", "gpio"} /\ selected = {}
      /\ faults = 0 /\ stuck = FALSE /\ wire = [wave |-> <<>>, noise |-> "none"]
      /\ at = "initialize" /\ st = NoState /\ loc = NoLocals /\ found = <<>> /\ answer = "none"
  BY DEF Init, RmtInit, NoCall
<1>2. OwnTraces
  <2>1. <<>> \in Seq([items : {}, id : {callId}])
    OBVIOUS
  <2> QED BY <1>1, <2>1 DEF OwnTraces
<1>3. /\ call.op = "none" /\ call.n = 0 /\ call.at = "idle" /\ call.present = FALSE
      /\ call.value = ZeroByte /\ DOMAIN call = {"op", "n", "at", "status", "present", "value"}
  BY <1>1 DEF NewCall
<1>4. CallTypes
  <2>1. rmt \in [tx : BOOLEAN, rx : BOOLEAN, on : BOOLEAN, idle : Nat]
        /\ rmt.idle = OW_DURATION_RX_IDLE
    BY <1>1 DEF OW_DURATION_RX_IDLE, OW_DURATION_SLOT
  <2>2. /\ call.op \in {"none", "reset", "read"} /\ call.n \in Nat
        /\ call.at \in {"idle", "receive", "stop", "done", "panic"}
        /\ call.at \notin {"receive", "stop"}
        /\ call.present \in BOOLEAN /\ call.value \in Byte
    <3>1. call.present \in BOOLEAN
      BY <1>3
    <3> QED BY <1>3, <3>1, ZeroByteType
  <2>3. DOMAIN call = {"op", "n", "at", "status", "present", "value"}
    BY <1>3
  <2> QED BY <2>1, <2>2, <2>3 DEF CallTypes
<1>5. DriverInv
  BY <1>3, <1>4 DEF DriverInv, CleanCall, NoPresence, StuckCall, InCall, HasResult
<1>6. LocTypes
  BY <1>1, NoStateType, NoLocalsType DEF LocTypes
<1>7. TypeOK
  <2>1. st.lastDiscrepancy \in 0..CodeBits /\ st.rom \in Codes
    BY <1>1, NoStateType, CodeBitsNat
  <2>2. /\ loc.idBit \in 1..CodeBits + 1 /\ loc.lastZero \in 0..CodeBits
        /\ loc.rom \in Seq(Byte) /\ Len(loc.rom) <= Bytes
        /\ loc.id = BitByte(0) /\ loc.cmp = BitByte(0)
    BY <1>1, NoLocalsType, CodeBitsNat, BitByteFacts
  <2>3. faults \in 0..MaxFaults /\ found \in Seq(Codes) /\ Len(found) <= Quantity
    BY <1>1, MaxFaultsAssumption, QuantityAssumption
  <2> QED BY <1>1, <1>3, <2>1, <2>2, <2>3, ZeroByteType DEF TypeOK
<1>8. CallInv
  BY <1>1, <1>3 DEF CallInv, Resetting, BitReading
<1>9. CallerInv
  BY <1>1, NoLocalsType DEF CallerInv, Resetting, Searching, RomReading, Labels
<1> QED BY <1>2, <1>5, <1>6, <1>7, <1>8, <1>9 DEF BaseInv

-----------------------------------------------------------------------------
(* The search makes no code up after one disturbance.                      *)

(* The wired AND of the bits that are sent.                                *)
LEMMA AllBits ==
    /\ \A S : All(S) \in {0, 1}
    /\ All({}) = 1
    /\ \A b \in {0, 1} : All({b}) = b
    /\ \A S \in SUBSET {0, 1} : S # {} /\ All(S) = 1 => S = {1}
    /\ \A S : All(S) = 0 <=> 0 \in S
<1>1. \A S \in SUBSET {0, 1} : S # {} /\ All(S) = 1 => S = {1}
  <2> SUFFICES ASSUME NEW S \in SUBSET {0, 1}, S # {}, All(S) = 1 PROVE S = {1}
    OBVIOUS
  <2>1. 0 \notin S
    BY DEF All
  <2> QED BY <2>1
<1> QED BY <1>1 DEF All

(* A device takes a written bit for what it is.                            *)
LEMMA DevicesSee ==
    ASSUME NEW b \in {0, 1} PROVE DeviceSees(SlotsOf(<<b>>)[1]) = b
<1>1. CASE driver = "rmt"
  <2>1. SlotsOf(<<b>>)[1] = Pulse(IF b = 1 THEN 2 ELSE 65)
    BY <1>1 DEF SlotsOf, WriteSlots, OW_DURATION_1_LOW, OW_DURATION_0_LOW
  <2>2. SlotsOf(<<b>>)[1].low = IF b = 1 THEN 2 ELSE 65
    BY <2>1 DEF Pulse
  <2> QED BY <2>2 DEF DeviceSees
<1>2. CASE driver # "rmt"
  <2>1. SlotsOf(<<b>>)[1] = IF b = 1 THEN [low |-> Timing.A, high |-> Timing.B]
                            ELSE [low |-> Timing.C, high |-> Timing.D]
    BY <1>2 DEF SlotsOf, GpioWriteSlots
  <2>2. SlotsOf(<<b>>)[1].low = IF b = 1 THEN 6 ELSE 60
    BY <2>1 DEF Timing
  <2> QED BY <2>2 DEF DeviceSees
<1> QED BY <1>1, <1>2

(* Every device has a code, and a right one.                               *)
LEMMA DevicesHaveCodes ==
    ASSUME BaseInv PROVE \A d \in devices : d \in Codes /\ RightCode(d)
  BY PopulationsAssumption DEF BaseInv, TypeOK

(* The bit read is true to the wire when nothing disturbs the call.        *)
LEMMA CleanBit ==
    ASSUME BaseInv, DriverInv, at \in BitReading, call.at = "done",
           wire.noise = "none", NEW b \in {0, 1}, wire.wave = ReadWave(<<b>>)
    PROVE  call.value = BitByte(b)
<1>1. call.op = "read" /\ call.n = 1
  BY DEF BaseInv, CallInv
<1>2. call.value = IF driver = "rmt" THEN ReadData(Recorded, 1)
                                     ELSE GpioReadData(wire.wave)
  BY <1>1 DEF DriverInv, CleanCall, HasResult
<1>3. Recorded = Record(ReadWave(<<b>>), OW_DURATION_RX_IDLE)
  BY <1>1 DEF Recorded
<1> QED BY <1>2, <1>3, OneBit

(* In a step that ends with at most one disturbance and the wire free, the *)
(* same was true before.                                                   *)
LEMMA FewFaults ==
    ASSUME BaseInv, faults' \in Nat, faults <= faults', stuck => stuck',
           faults' <= 1, ~stuck'
    PROVE  faults <= 1 /\ ~stuck /\ faults \in Nat
<1>1. faults \in Nat
  BY MaxFaultsAssumption DEF BaseInv, TypeOK
<1> QED BY <1>1

(* SearchPresent keeps SearchSound: every device listens.                  *)
LEMMA SearchPresentSound ==
    ASSUME BaseInv, DriverInv, SoundInv, SearchPresent PROVE SoundInv'
<1>1. /\ at \in {"present", "verify_present"} /\ Return
      /\ UNCHANGED <<devices, driver, faults, stuck, wire>>
  BY DEF SearchPresent
<1>2. CASE ~call.present
  <2>1. at' = "searched" /\ loc'.isFound = FALSE
    BY <1>2, AnsweredIs DEF SearchPresent, Goto
  <2> QED BY <2>1 DEF SoundInv, Searching
<1>3. CASE call.present
  <2>1. selected' = devices /\ loc'.idBit = 1 /\ at' = "id" /\ st' = st
    BY <1>3, NoLocalsType DEF SearchPresent, Goto
  <2>2. devices # {}
    <3> SUFFICES ASSUME devices = {} PROVE FALSE
      OBVIOUS
    <3>1. wire.wave = ResetWave(FALSE)
      <4>1. wire.wave = ResetWave(devices # {})
        BY <1>1 DEF BaseInv, CallInv, Resetting
      <4> QED BY <4>1 DEF ResetWave
    <3>2. InCall /\ call.op = "reset"
      BY <1>1 DEF BaseInv, CallInv, Resetting
    <3> QED BY <1>3, <3>1, <3>2 DEF DriverInv, NoPresence
  <2>3. SearchSound'
    <3>1. \A d \in selected' : (Agree(st.rom, d, loc.idBit - 1))'
      BY <2>1 DEF Agree
    <3>2. TrueReadings'
      BY <2>1 DEF TrueReadings, BitReading
    <3> QED BY <1>1, <2>1, <2>2, <3>1, <3>2 DEF SearchSound
  <2> QED BY <2>1, <2>3 DEF SoundInv
<1> QED BY <1>2, <1>3

(* A call that reads a bit begins.                                         *)
LEMMA ReadingSound ==
    ASSUME BaseInv, DriverInv, SoundInv, ReadId \/ ReadComplement PROVE SoundInv'
<1>1. /\ at \in {"id", "cmp"} /\ at' = IF at = "id" THEN "id_read" ELSE "cmp_read"
      /\ UNCHANGED <<selected, st, loc>>
      /\ \E wave : CallDriver("read", 1, wave)
  BY DEF ReadId, ReadComplement, Goto
<1>2. PICK wave : CallDriver("read", 1, wave)
  BY <1>1
<1>3. /\ UNCHANGED <<devices, driver>>
      /\ faults' \in 0..MaxFaults /\ faults <= faults'
      /\ stuck => stuck'
      /\ faults' = faults => wire'.noise = "none" \/ (stuck /\ wire'.noise = "stuck")
      /\ faults # faults' => faults' = faults + 1
      /\ faults' = 0 => wire'.noise = "none"
  BY <1>2, CallBegins
<1> SUFFICES ASSUME faults' <= 1, ~stuck' PROVE SearchSound'
  BY <1>1 DEF SoundInv
<1>4. faults <= 1 /\ ~stuck /\ faults \in Nat /\ faults' \in Nat
  <2>1. faults' \in 0..MaxFaults /\ faults <= faults' /\ (stuck => stuck')
    BY <1>3
  <2>2. faults' \in Nat
    BY <2>1, MaxFaultsAssumption
  <2> QED BY <2>1, <2>2, FewFaults
<1>5. SearchSound
  BY <1>1, <1>4 DEF SoundInv, Searching
<1>6. faults' = 0 => faults = 0
  BY <1>3, <1>4
<1>7. selected = {} => faults' = faults
  <2>1. selected = {} => faults = 1
    BY <1>4, <1>5 DEF SearchSound
  <2> QED BY <1>3, <1>4, <2>1
<1>8. faults' = 0 \/ selected' = {} => TrueReadings'
  <2> SUFFICES ASSUME faults' = 0 \/ selected = {} PROVE TrueReadings'
    BY <1>1
  <2>1. wire'.noise = "none"
    BY <1>3, <1>4, <1>7
  <2>2. TrueReadings
    BY <1>5, <1>6 DEF SearchSound
  <2>3. IdBit' = IdBit
    BY <1>1 DEF IdBit
  <2> QED BY <1>1, <1>3, <2>1, <2>2, <2>3, BitBytesKept DEF TrueReadings, BitReading
<1> QED BY <1>1, <1>3, <1>5, <1>6, <1>8 DEF SearchSound, Agree

(* A call that reads a bit returns.                                        *)
LEMMA ReadSound ==
    ASSUME BaseInv, DriverInv, SoundInv, IdRead \/ ComplementRead PROVE SoundInv'
<1>1. /\ at \in {"id_read", "cmp_read"} /\ at' = IF at = "id_read" THEN "cmp" ELSE "decide"
      /\ Return
      /\ loc' = IF at = "id_read" THEN [loc EXCEPT !.id = call.value]
                                  ELSE [loc EXCEPT !.cmp = call.value]
      /\ UNCHANGED <<devices, driver, selected, faults, stuck, wire, st>>
  BY DEF IdRead, ComplementRead, Goto, wireVars
<1>2. loc'.idBit = loc.idBit /\ IF at = "id_read" THEN loc'.id = call.value
                                ELSE loc'.cmp = call.value /\ loc'.id = loc.id
  BY <1>1 DEF BaseInv, LocTypes
<1> SUFFICES ASSUME faults <= 1, ~stuck PROVE SearchSound'
  BY <1>1 DEF SoundInv
<1>3. SearchSound
  BY <1>1 DEF SoundInv, Searching
<1>4. IdBit' = IdBit /\ ComplementBit' = ComplementBit
  BY <1>1, <1>2 DEF IdBit, ComplementBit
<1>5. faults' = 0 \/ selected' = {} => TrueReadings'
  <2> SUFFICES ASSUME faults = 0 \/ selected = {} PROVE TrueReadings'
    BY <1>1
  <2>1. TrueReadings
    BY <1>3 DEF SearchSound
  <2>2. wire.noise = "none" /\ call.at = "done"
    BY <1>1, <2>1 DEF TrueReadings, BitReading, Return
  <2>3. IdBit \in {0, 1} /\ ComplementBit \in {0, 1}
    BY AllBits DEF IdBit, ComplementBit
  <2>4. CASE at = "id_read"
    <3>1. call.value = BitByte(IdBit)
      BY <2>2, <2>3, <2>4, CleanBit DEF BaseInv, CallInv, BitReading
    <3> QED BY <1>1, <1>2, <1>4, <2>4, <3>1, BitBytesKept DEF TrueReadings, BitReading
  <2>5. CASE at = "cmp_read"
    <3>1. call.value = BitByte(ComplementBit)
      BY <2>2, <2>3, <2>5, CleanBit DEF BaseInv, CallInv, BitReading
    <3> QED BY <1>1, <1>2, <1>4, <2>1, <2>5, <3>1, BitBytesKept DEF TrueReadings, BitReading
  <2> QED BY <1>1, <2>4, <2>5
<1> QED BY <1>1, <1>2, <1>3, <1>5 DEF SearchSound, Agree

(* The devices that still follow after a decision.                         *)
LEMMA FollowersAre ==
    ASSUME BaseInv, Decide
    PROVE  selected' = {d \in selected : d[loc.idBit] = Direction}
<1>1. DeviceSees(SlotsOf(<<Direction>>)[1]) = Direction
  BY DirectionBit, DevicesSee DEF Decide
<1> QED BY <1>1 DEF Decide

(* The ROM code with one bit written.                                      *)
LEMMA WrittenRom ==
    ASSUME BaseInv, Decide
    PROVE  /\ st'.rom[loc.idBit] = Direction
           /\ \A j \in 1..CodeBits : j # loc.idBit => st'.rom[j] = st.rom[j]
<1>1. st.rom \in Codes /\ loc.idBit \in 1..CodeBits /\ st'.rom = [st.rom EXCEPT ![loc.idBit] = Direction]
  BY DecideIs DEF BaseInv, TypeOK
<1> QED BY <1>1 DEF Codes

(* What the two readings say of the devices that still follow.             *)
LEMMA Readings ==
    ASSUME BaseInv, at = "decide", loc.id = BitByte(IdBit), loc.cmp = BitByte(ComplementBit)
    PROVE  /\ loc.id = loc.cmp <=> IdBit = ComplementBit
           /\ Some(loc.id) <=> IdBit = 1
           /\ Some(loc.cmp) <=> ComplementBit = 1
           /\ IdBit = 0 <=> \E d \in selected : d[loc.idBit] = 0
           /\ ComplementBit = 0 <=> \E d \in selected : d[loc.idBit] = 1
           /\ \A d \in selected : d[loc.idBit] \in {0, 1}
           /\ IdBit \in {0, 1} /\ ComplementBit \in {0, 1}
<1>1. loc.idBit \in 1..CodeBits
  BY DirectionBit
<1> DEFINE ids == {d[loc.idBit] : d \in selected}
           cmps == {1 - d[loc.idBit] : d \in selected}
<1>2. \A d \in selected : d[loc.idBit] \in {0, 1}
  BY <1>1, DevicesHaveCodes DEF BaseInv, TypeOK, Codes
<1>3. IdBit = All(ids) /\ ComplementBit = All(cmps)
  BY DEF IdBit, ComplementBit
<1>4. IdBit = 0 <=> \E d \in selected : d[loc.idBit] = 0
  <2>1. IdBit = 0 <=> 0 \in ids
    BY <1>3, AllBits
  <2> QED BY <2>1
<1>5. ComplementBit = 0 <=> \E d \in selected : d[loc.idBit] = 1
  <2>1. ComplementBit = 0 <=> 0 \in cmps
    BY <1>3, AllBits
  <2>2. \A d \in selected : 1 - d[loc.idBit] = 0 <=> d[loc.idBit] = 1
    BY <1>2
  <2> QED BY <2>1, <2>2
<1>6. IdBit \in {0, 1} /\ ComplementBit \in {0, 1}
  BY <1>3, AllBits
<1>7. loc.id = loc.cmp <=> IdBit = ComplementBit
  <2>1. BitByte(0) # BitByte(1)
    BY BitByteFacts
  <2>2. CASE IdBit = ComplementBit
    BY <2>2
  <2>3. CASE IdBit = 0 /\ ComplementBit = 1
    BY <2>1, <2>3
  <2>4. CASE IdBit = 1 /\ ComplementBit = 0
    BY <2>1, <2>4
  <2> QED BY <1>6, <2>2, <2>3, <2>4
<1>8. (Some(loc.id) <=> IdBit = 1) /\ (Some(loc.cmp) <=> ComplementBit = 1)
  BY <1>6, BitByteFacts
<1> QED BY <1>2, <1>4, <1>5, <1>6, <1>7, <1>8

(* When the bits are read as they were sent, some device follows.          *)
LEMMA SomeoneFollows ==
    ASSUME BaseInv, Decide, selected # {}, loc.id = BitByte(IdBit),
           loc.cmp = BitByte(ComplementBit)
    PROVE  \E d \in selected : d[loc.idBit] = Direction
<1>1. /\ at = "decide" /\ Direction \in {0, 1}
      /\ loc.id = loc.cmp <=> IdBit = ComplementBit
      /\ Some(loc.id) <=> IdBit = 1
      /\ IdBit = 0 <=> \E d \in selected : d[loc.idBit] = 0
      /\ ComplementBit = 0 <=> \E d \in selected : d[loc.idBit] = 1
      /\ \A d \in selected : d[loc.idBit] \in {0, 1}
      /\ IdBit \in {0, 1} /\ ComplementBit \in {0, 1}
  BY DirectionBit, Readings DEF Decide
<1>2. CASE IdBit = 0 /\ ComplementBit = 0
  BY <1>1, <1>2
<1>3. CASE IdBit = 1
  <2>1. \A d \in selected : d[loc.idBit] = 1
    BY <1>1, <1>3
  <2>2. ComplementBit = 0
    BY <1>1, <2>1
  <2>3. Direction = 1
    BY <1>1, <1>3, <2>2 DEF Direction
  <2> QED BY <2>1, <2>3
<1>4. CASE IdBit = 0 /\ ComplementBit = 1
  <2>1. \A d \in selected : d[loc.idBit] = 0
    BY <1>1, <1>4
  <2>2. Direction = 0
    BY <1>1, <1>4 DEF Direction
  <2> QED BY <2>1, <2>2
<1> QED BY <1>1, <1>2, <1>3, <1>4

(* Decide keeps SearchSound: who still listens agrees with the bits so far. *)
LEMMA DecideSound ==
    ASSUME BaseInv, DriverInv, SoundInv, Decide PROVE SoundInv'
<1> DEFINE i == loc.idBit
<1>1. /\ at = "decide" /\ at' \in {"id", "end"} /\ ~NobodyAnswers
      /\ loc'.idBit = i + 1 /\ i \in 1..CodeBits /\ Direction \in {0, 1}
      /\ UNCHANGED <<devices, driver, faults, stuck, wire>>
  BY DecideIs
<1> SUFFICES ASSUME faults <= 1, ~stuck PROVE SearchSound'
  BY <1>1 DEF SoundInv
<1>2. SearchSound
  BY <1>1 DEF SoundInv, Searching
<1>3. selected # {}
  <2> SUFFICES ASSUME selected = {} PROVE FALSE
    OBVIOUS
  <2>1. loc.id = BitByte(IdBit) /\ loc.cmp = BitByte(ComplementBit)
    BY <1>1, <1>2 DEF SearchSound, TrueReadings
  <2>2. IdBit = 1 /\ ComplementBit = 1
    <3>1. {d[loc.idBit] : d \in selected} = {} /\ {1 - d[loc.idBit] : d \in selected} = {}
      OBVIOUS
    <3> QED BY <3>1, AllBits DEF IdBit, ComplementBit
  <2> QED BY <1>1, <2>1, <2>2, BitByteFacts DEF NobodyAnswers
<1>4. selected' = {d \in selected : d[i] = Direction}
  BY FollowersAre
<1>5. /\ st'.rom[i] = Direction
      /\ \A j \in 1..CodeBits : j # i => st'.rom[j] = st.rom[j]
  BY WrittenRom
<1>6. \A d : Agree(st.rom, d, i - 1) =>
        /\ Agree(st'.rom, d, i - 1)
        /\ d[i] = Direction => Agree(st'.rom, d, i)
  <2>1. \A j \in 1..i - 1 : j \in 1..CodeBits /\ j # i
    BY <1>1, CodeBitsNat
  <2>2. \A j \in 1..i : j = i \/ j \in 1..i - 1
    BY <1>1
  <2> QED BY <1>5, <2>1, <2>2 DEF Agree
<1>7. i + 1 - 1 = i /\ i + 1 - 2 = i - 1 /\ i + 1 > 1
  BY <1>1
<1>8. \A d \in selected' : Agree(st'.rom, d, loc'.idBit - 1)
  <2>1. loc'.idBit - 1 = i
    BY <1>1, <1>7
  <2>2. \A d \in selected : Agree(st.rom, d, i - 1)
    BY <1>2 DEF SearchSound
  <2>3. \A d \in selected' : Agree(st'.rom, d, i)
    BY <1>4, <1>6, <2>2
  <2> QED BY <2>1, <2>3
<1>9. faults' = 0 => selected' # {}
  <2> SUFFICES ASSUME faults = 0 PROVE selected' # {}
    BY <1>1
  <2>1. loc.id = BitByte(IdBit) /\ loc.cmp = BitByte(ComplementBit)
    BY <1>1, <1>2 DEF SearchSound, TrueReadings
  <2> QED BY <1>3, <1>4, <2>1, SomeoneFollows
<1>10. TrueReadings'
  BY <1>1 DEF TrueReadings, BitReading
<1>11. selected' = {} =>
         /\ loc'.idBit > 1
         /\ \E d \in devices' : /\ Agree(st'.rom, d, loc'.idBit - 2)
                                /\ d[loc'.idBit - 1] # st'.rom[loc'.idBit - 1]
  <2> SUFFICES ASSUME selected' = {}
               PROVE  \E d \in devices : Agree(st'.rom, d, i - 1) /\ d[i] # st'.rom[i]
    <3>1. loc'.idBit - 1 = i /\ loc'.idBit - 2 = i - 1 /\ loc'.idBit > 1
      BY <1>1, <1>7
    <3> QED BY <1>1, <3>1
  <2>1. PICK d \in selected : TRUE
    BY <1>3
  <2>2. d \in devices /\ d[i] # Direction /\ Agree(st.rom, d, i - 1)
    BY <1>2, <1>4 DEF SearchSound, BaseInv, TypeOK
  <2>3. Agree(st'.rom, d, i - 1) /\ d[i] # st'.rom[i]
    BY <1>5, <1>6, <2>2
  <2> QED BY <2>2, <2>3
<1>12. devices' # {}
  BY <1>1, <1>2 DEF SearchSound
<1> QED BY <1>8, <1>9, <1>10, <1>11, <1>12 DEF SearchSound

(* SearchEnd keeps SearchSound,                                            *)
LEMMA SearchEndSound ==
    ASSUME BaseInv, DriverInv, SoundInv, SearchEnd PROVE SoundInv'
<1>1. /\ at \in {"end", "decide"} /\ at' = "searched"
      /\ loc'.isFound => CodeComplete
      /\ st'.rom = st.rom
      /\ UNCHANGED <<devices, faults, stuck>>
  BY SearchEndIs DEF wireVars
<1> SUFFICES ASSUME faults <= 1, ~stuck, CodeComplete PROVE st.rom \in devices
  BY <1>1 DEF SoundInv, Searching
<1>2. SearchSound
  BY <1>1 DEF SoundInv, Searching
<1>3. loc.idBit = CodeBits + 1
  BY CodeBitsNat DEF CodeComplete, BaseInv, TypeOK
<1>4. loc.idBit - 1 = CodeBits /\ loc.idBit - 2 = CodeBits - 1
  BY <1>3, CodeBitsNat
<1>5. st.rom \in Codes
  BY DEF BaseInv, TypeOK
<1>6. CASE selected # {}
  <2>1. PICK d \in selected : Agree(st.rom, d, CodeBits)
    BY <1>2, <1>4, <1>6 DEF SearchSound
  <2>2. d \in devices
    BY DEF BaseInv, TypeOK
  <2>3. d = st.rom
    BY <1>5, <2>1, <2>2, DevicesHaveCodes, SameCodes
  <2> QED BY <2>2, <2>3
<1>7. CASE selected = {}
  <2>1. PICK d \in devices : Agree(st.rom, d, CodeBits - 1) /\ d[CodeBits] # st.rom[CodeBits]
    BY <1>2, <1>4, <1>7 DEF SearchSound
  <2>2. d \in Codes /\ RightCode(d)
    BY DevicesHaveCodes
  <2>3. Crc8(BytesOf(st.rom)) # ZeroByte
    BY <1>5, <2>1, <2>2, LastBitCaught
  <2> QED BY <2>3 DEF CodeComplete
<1> QED BY <1>6, <1>7

(* and so does every step.                                                 *)
LEMMA SoundStep ==
    ASSUME BaseInv, DriverInv, SoundInv, [Next]_vars PROVE SoundInv'
<1>1. CASE Initialize
  BY <1>1 DEF Initialize, Goto, SoundInv, Searching
<1>2. CASE SearchReset
  <2>1. CASE at' = "searched"
    <3>1. loc'.isFound = FALSE
      BY <1>2, <2>1, AnsweredIs DEF SearchReset, Goto
    <3> QED BY <2>1, <3>1 DEF SoundInv, Searching
  <2>2. CASE at' # "searched"
    <3>1. at' \in {"present", "verify_present"}
      BY <1>2, <2>2 DEF SearchReset, Goto
    <3> QED BY <3>1 DEF SoundInv, Searching
  <2> QED BY <2>1, <2>2
<1>3. CASE SearchPresent
  BY <1>3, SearchPresentSound
<1>4. CASE ReadId \/ ReadComplement
  BY <1>4, ReadingSound
<1>5. CASE IdRead \/ ComplementRead
  BY <1>5, ReadSound
<1>6. CASE Decide
  BY <1>6, DecideSound
<1>7. CASE SearchEnd
  BY <1>7, SearchEndSound
<1>8. CASE KeepCode \/ VerifyRom \/ ReadRom
  <2>1. at' \in {"verify", "overrun", "search", "done", "read_rom_present", "byte", "byte_read",
                 "crc"}
    BY <1>8 DEF KeepCode, VerifyRom, ReadRom, ReadRomReset, ReadRomPresent, ReadByte, ByteRead,
                CheckRom, Goto
  <2> QED BY <2>1 DEF SoundInv, Searching
<1>9. CASE Panic \/ (DriverStep /\ UNCHANGED <<wireVars, at, st, loc, found, answer>>)
           \/ UNCHANGED vars
  <2>1. UNCHANGED <<devices, driver, selected, faults, stuck, wire, at, st, loc>>
    BY <1>9 DEF Panic, wireVars, vars
  <2>2. IdBit' = IdBit /\ ComplementBit' = ComplementBit
    BY <2>1 DEF IdBit, ComplementBit
  <2> QED BY <2>1, <2>2, BitBytesKept DEF SoundInv, SearchSound, TrueReadings, Agree
<1> QED BY <1>1, <1>2, <1>3, <1>4, <1>5, <1>6, <1>7, <1>8, <1>9 DEF Next, Search

-----------------------------------------------------------------------------
(* owb_read_rom.                                                           *)

(* Before the first byte nothing has been read.                            *)
LEMMA NothingRead ==
    ASSUME NEW d, loc'.rom = <<>>, stuck' \in BOOLEAN
    PROVE  BytesRead(d)'
<1>1. DOMAIN loc'.rom = {} /\ Len(loc'.rom) = 0
  OBVIOUS
<1>2. CASE ~stuck'
  BY <1>1, <1>2 DEF BytesRead
<1>3. CASE stuck'
  <2>1. 0 \in 0..Len(loc'.rom)
    BY <1>1
  <2> QED BY <1>1, <1>3, <2>1 DEF BytesRead
<1> QED BY <1>2, <1>3

(* The byte that an undisturbed call returns.                              *)
LEMMA CleanByte ==
    ASSUME BaseInv, DriverInv, at = "byte_read", call.at = "done",
           wire.noise = "none", NEW d \in Codes, devices = {d}
    PROVE  call.value = ByteOf(d, Len(loc.rom) + 1)
<1> DEFINE n == Len(loc.rom)
           bits == [i \in 1..Width |-> All({e[n * Width + i] : e \in devices})]
<1>1. n \in Nat /\ n < Bytes
  BY DEF BaseInv, TypeOK, CallerInv
<1>2. n + 1 \in 1..Bytes
  BY <1>1, CodeBitsNat
<1>3. \A i \in 1..Width : d[n * Width + i] \in {0, 1}
  <2> SUFFICES ASSUME NEW i \in 1..Width PROVE d[n * Width + i] \in {0, 1}
    OBVIOUS
  <2>1. (n + 1 - 1) * Width + i \in 1..CodeBits
    BY <1>2, Index
  <2>2. n + 1 - 1 = n
    BY <1>1
  <2>3. n * Width + i \in 1..CodeBits
    BY <2>1, <2>2
  <2> QED BY <2>3 DEF Codes
<1>4. bits = [i \in 1..Width |-> d[n * Width + i]]
  <2> SUFFICES ASSUME NEW i \in 1..Width
               PROVE All({e[n * Width + i] : e \in devices}) = d[n * Width + i]
    OBVIOUS
  <2>1. {e[n * Width + i] : e \in devices} = {d[n * Width + i]}
    OBVIOUS
  <2> QED BY <1>3, <2>1, AllBits
<1>5. ByteOf(d, n + 1) = bits
  <2>1. n + 1 - 1 = n
    BY <1>1
  <2>2. ByteOf(d, n + 1) = [i \in 1..Width |-> d[(n + 1 - 1) * Width + i]]
    BY DEF ByteOf
  <2> HIDE DEF n
  <2>3. ByteOf(d, n + 1) = [i \in 1..Width |-> d[n * Width + i]]
    BY <2>1, <2>2
  <2> HIDE DEF bits
  <2> QED BY <1>4, <2>3
<1>6. bits \in [1..Width -> {0, 1}]
  BY <1>3, <1>4
<1>7. wire.wave = ReadWave(bits) /\ call.op = "read" /\ call.n = Width
  BY DEF BaseInv, CallInv
<1> HIDE DEF bits, n
<1>8. call.value = IF driver = "rmt" THEN ReadData(Recorded, Width)
                                     ELSE GpioReadData(wire.wave)
  BY <1>7 DEF DriverInv, CleanCall, HasResult
<1>9. Recorded = Record(ReadWave(bits), OW_DURATION_RX_IDLE)
  BY <1>7 DEF Recorded
<1>10. Width \in 1..Width /\ Width \in Nat
  BY CodeBitsNat
<1>11. CASE driver = "rmt"
  <2>1. call.value = [k \in 1..Width |-> IF k <= Width THEN bits[k] ELSE 0]
    BY <1>6, <1>8, <1>9, <1>10, <1>11, RmtReads
  <2>2. \A k \in 1..Width : k <= Width
    BY <1>10
  <2>3. call.value = [k \in 1..Width |-> bits[k]]
    BY <2>1, <2>2
  <2>4. call.value = bits
    BY <1>6, <2>3
  <2> QED BY <1>5, <2>4 DEF n
<1>12. CASE driver # "rmt"
  <2>1. call.value = [k \in 1..Width |->
            IF k > Width - Width THEN bits[k - (Width - Width)] ELSE 0]
    BY <1>6, <1>7, <1>8, <1>10, <1>12, GpioReads
  <2>2. \A k \in 1..Width : k > Width - Width /\ k - (Width - Width) = k
    BY <1>10
  <2>3. call.value = [k \in 1..Width |-> bits[k]]
    BY <2>1, <2>2
  <2>4. call.value = bits
    BY <1>6, <2>3
  <2> QED BY <1>5, <2>4 DEF n
<1> QED BY <1>11, <1>12

(* A call that reads a byte begins.                                        *)
LEMMA ReadByteRom ==
    ASSUME BaseInv, DriverInv, RomInv, ReadByte PROVE RomInv'
<1>1. /\ at = "byte" /\ at' = "byte_read" /\ loc' = loc
      /\ \E wave : CallDriver("read", Width, wave)
  BY DEF ReadByte, Goto
<1>2. PICK wave : CallDriver("read", Width, wave)
  BY <1>1
<1>3. /\ UNCHANGED <<devices, driver>>
      /\ faults' \in 0..MaxFaults /\ faults <= faults'
      /\ stuck => stuck'
      /\ faults' = faults => wire'.noise = "none" \/ (stuck /\ wire'.noise = "stuck")
      /\ faults # faults' => faults' = faults + 1
      /\ stuck' \in BOOLEAN
  BY <1>2, CallBegins, CodeBitsNat
<1>4. PICK d \in devices :
        /\ devices = {d} /\ Len(loc.rom) < Bytes
        /\ faults <= 1 => BytesRead(d)
  BY <1>1 DEF RomInv, RomReading
<1>5. faults \in Nat /\ faults' \in Nat /\ (faults' <= 1 => faults <= 1)
  <2>1. faults \in 0..MaxFaults /\ MaxFaults \in Nat
    BY MaxFaultsAssumption DEF BaseInv, TypeOK
  <2>2. faults' \in 0..MaxFaults /\ faults <= faults'
    BY <1>3
  <2> QED BY <2>1, <2>2
<1>6. ASSUME faults' <= 1 PROVE BytesRead(d)'
  <2>1. BytesRead(d)
    BY <1>4, <1>5, <1>6
  <2>2. Len(loc.rom) \in Nat /\ DOMAIN loc.rom = 1..Len(loc.rom)
    BY DEF BaseInv, TypeOK
  <2>3. CASE ~stuck /\ \A k \in DOMAIN loc.rom : loc.rom[k] = ByteOf(d, k)
    <3>1. CASE ~stuck'
      BY <1>1, <2>3, <3>1 DEF BytesRead
    <3>2. CASE stuck'
      <4>1. Len(loc.rom) \in 0..Len(loc.rom) /\ \A k \in DOMAIN loc.rom : k <= Len(loc.rom)
        BY <2>2
      <4>2. \E n \in 0..Len(loc.rom) : \A k \in DOMAIN loc.rom :
               loc.rom[k] = IF k <= n THEN ByteOf(d, k) ELSE ZeroByte
        BY <2>3, <4>1
      <4> QED BY <1>1, <3>2, <4>2 DEF BytesRead
    <3> QED BY <3>1, <3>2
  <2>4. CASE /\ ~stuck /\ faults = 1
             /\ \E p \in DOMAIN loc.rom :
                  /\ loc.rom[p] # ByteOf(d, p)
                  /\ \A k \in DOMAIN loc.rom \ {p} : loc.rom[k] = ByteOf(d, k)
    <3>1. faults' = 1 /\ wire'.noise = "none"
      BY <1>3, <1>5, <1>6, <2>4
    <3>2. ~stuck'
      BY <1>2, <2>4, <3>1, CallBegins, CodeBitsNat
    <3> QED BY <1>1, <2>4, <3>1, <3>2 DEF BytesRead
  <2>5. CASE /\ stuck
             /\ \E n \in 0..Len(loc.rom) : \A k \in DOMAIN loc.rom :
                  loc.rom[k] = IF k <= n THEN ByteOf(d, k) ELSE ZeroByte
    BY <1>1, <1>3, <2>5 DEF BytesRead
  <2> QED BY <2>1, <2>3, <2>4, <2>5 DEF BytesRead
<1> QED BY <1>1, <1>3, <1>4, <1>6 DEF RomInv

(* A byte more                                                             *)
LEMMA OneByteMore ==
    ASSUME NEW s \in Seq(Byte), NEW v \in Byte
    PROVE  /\ Len(s) \in Nat /\ DOMAIN s = 1..Len(s)
           /\ DOMAIN Append(s, v) = 1..Len(s) + 1 /\ Len(Append(s, v)) = Len(s) + 1
           /\ Append(s, v)[Len(s) + 1] = v
           /\ \A k \in DOMAIN s : Append(s, v)[k] = s[k]
           /\ \A k \in DOMAIN Append(s, v) : k \in DOMAIN s \/ k = Len(s) + 1
           /\ Len(s) + 1 \notin DOMAIN s /\ Len(s) + 1 \in DOMAIN Append(s, v)
           /\ \A k \in DOMAIN s : k \in DOMAIN Append(s, v)
  OBVIOUS

(* ByteRead keeps BytesRead: the bytes of the only device, in order.       *)
LEMMA ByteReadRom ==
    ASSUME BaseInv, DriverInv, RomInv, ByteRead PROVE RomInv'
<1> DEFINE v == call.value
           s == loc.rom
<1>1. /\ at = "byte_read" /\ Return
      /\ loc' = [loc EXCEPT !.rom = Append(s, v)]
      /\ at' = IF Len(s) + 1 = Bytes THEN "crc" ELSE "byte"
      /\ UNCHANGED <<devices, driver, faults, stuck, wire>>
  BY DEF ByteRead, Goto, wireVars
<1>2. loc'.rom = Append(s, v) /\ s \in Seq(Byte) /\ v \in Byte /\ Len(s) < Bytes
  BY <1>1 DEF BaseInv, LocTypes, TypeOK, CallerInv
<1>3. PICK d \in devices : devices = {d} /\ (faults <= 1 => BytesRead(d))
  BY <1>1 DEF RomInv, RomReading
<1>4. /\ Len(s) \in Nat /\ DOMAIN s = 1..Len(s)
      /\ DOMAIN Append(s, v) = 1..Len(s) + 1 /\ Len(Append(s, v)) = Len(s) + 1
      /\ Append(s, v)[Len(s) + 1] = v
      /\ \A k \in DOMAIN s : Append(s, v)[k] = s[k]
      /\ \A k \in DOMAIN Append(s, v) : k \in DOMAIN s \/ k = Len(s) + 1
      /\ Len(s) + 1 \notin DOMAIN s /\ Len(s) + 1 \in DOMAIN Append(s, v)
      /\ \A k \in DOMAIN s : k \in DOMAIN Append(s, v)
  BY <1>2, OneByteMore
<1>5. wire.noise = "none" => v = ByteOf(d, Len(s) + 1)
  BY <1>1, <1>3, CleanByte, DevicesHaveCodes DEF Return
<1> HIDE DEF v, s
<1>6. ASSUME faults <= 1 PROVE BytesRead(d)'
  <2>1. BytesRead(d)
    BY <1>3, <1>6
  <2>2. /\ at' # "byte_read" /\ stuck' = stuck /\ faults' = faults
        /\ loc'.rom = Append(s, v)
    BY <1>1, <1>2
  <2>3. CASE ~stuck /\ \A k \in DOMAIN s : s[k] = ByteOf(d, k)
    <3>1. CASE v = ByteOf(d, Len(s) + 1)
      <4>1. \A k \in DOMAIN Append(s, v) : Append(s, v)[k] = ByteOf(d, k)
        BY <1>4, <2>3, <3>1
      <4> QED BY <2>2, <2>3, <4>1 DEF BytesRead
    <3>2. CASE v # ByteOf(d, Len(s) + 1)
      <4>1. faults = 1
        <5>1. faults # 0
          BY <1>5, <3>2 DEF BaseInv, CallInv
        <5>2. faults \in 0..MaxFaults /\ MaxFaults \in Nat
          BY MaxFaultsAssumption DEF BaseInv, TypeOK
        <5> QED BY <1>6, <5>1, <5>2
      <4>2. \E p \in DOMAIN Append(s, v) :
              /\ Append(s, v)[p] # ByteOf(d, p)
              /\ \A k \in DOMAIN Append(s, v) \ {p} : Append(s, v)[k] = ByteOf(d, k)
        <5>1. /\ Append(s, v)[Len(s) + 1] # ByteOf(d, Len(s) + 1)
              /\ \A k \in DOMAIN Append(s, v) \ {Len(s) + 1} : Append(s, v)[k] = ByteOf(d, k)
          BY <1>4, <2>3, <3>2
        <5> QED BY <1>4, <5>1
      <4> QED BY <2>2, <2>3, <4>1, <4>2 DEF BytesRead
    <3> QED BY <3>1, <3>2
  <2>4. CASE /\ ~stuck /\ faults = 1 /\ (at = "byte_read" => wire.noise = "none")
             /\ \E p \in DOMAIN s : /\ s[p] # ByteOf(d, p)
                                    /\ \A k \in DOMAIN s \ {p} : s[k] = ByteOf(d, k)
    <3>1. PICK p \in DOMAIN s : /\ s[p] # ByteOf(d, p)
                                /\ \A k \in DOMAIN s \ {p} : s[k] = ByteOf(d, k)
      BY <2>4
    <3>2. v = ByteOf(d, Len(s) + 1)
      BY <1>1, <1>5, <2>4
    <3>3. /\ p \in DOMAIN Append(s, v) /\ Append(s, v)[p] # ByteOf(d, p)
          /\ \A k \in DOMAIN Append(s, v) \ {p} : Append(s, v)[k] = ByteOf(d, k)
      BY <1>4, <3>1, <3>2
    <3> QED BY <2>2, <2>4, <3>3 DEF BytesRead
  <2>5. CASE /\ stuck
             /\ \E n \in 0..Len(s) : \A k \in DOMAIN s :
                  s[k] = IF k <= n THEN ByteOf(d, k) ELSE ZeroByte
    <3>1. PICK n \in 0..Len(s) : \A k \in DOMAIN s :
                  s[k] = IF k <= n THEN ByteOf(d, k) ELSE ZeroByte
      BY <2>5
    <3>2. v = ZeroByte
      <4>1. InCall /\ wire.noise = "stuck"
        BY <1>1, <2>5 DEF BaseInv, CallInv
      <4> QED BY <4>1 DEF DriverInv, StuckCall, v
    <3>3. n \in 0..Len(Append(s, v)) /\ ~(Len(s) + 1 <= n)
      BY <1>4
    <3>4. \A k \in DOMAIN Append(s, v) :
             Append(s, v)[k] = IF k <= n THEN ByteOf(d, k) ELSE ZeroByte
      BY <1>4, <3>1, <3>2, <3>3
    <3> QED BY <2>2, <2>5, <3>3, <3>4 DEF BytesRead
  <2> QED BY <1>6, <2>1, <2>3, <2>4, <2>5 DEF BytesRead, s
<1>7. /\ at' \in {"byte", "crc"}
      /\ at' = "byte" => Len(loc'.rom) < Bytes
      /\ at' = "crc" => Len(loc'.rom) = Bytes
  <2>1. Len(s) \in Nat /\ Len(s) < Bytes /\ Len(loc'.rom) = Len(s) + 1
    BY <1>2, <1>4 DEF s, v
  <2> QED BY <1>1, <2>1, CodeBitsNat DEF s
<1> QED BY <1>1, <1>3, <1>6, <1>7 DEF RomInv

(* Every step keeps what read_rom knows.                                   *)
LEMMA RomStep ==
    ASSUME BaseInv, DriverInv, RomInv, [Next]_vars PROVE RomInv'
<1>0. stuck \in BOOLEAN
  BY DEF BaseInv, TypeOK
<1>1. CASE Initialize
  <2>1. /\ at = "initialize" /\ at' \in {"search", "read_rom"} /\ loc' = loc
        /\ at' = "read_rom" => \E d \in devices : devices = {d}
        /\ UNCHANGED <<devices, stuck>>
    BY <1>1 DEF Initialize, Goto
  <2>2. loc'.rom = <<>> /\ stuck' \in BOOLEAN
    BY <1>0, <2>1 DEF BaseInv, CallerInv, Searching
  <2>3. \A d : BytesRead(d)'
    BY <2>2, NothingRead
  <2> QED BY <2>1, <2>2, <2>3 DEF RomInv, RomReading
<1>2. CASE Search \/ KeepCode \/ VerifyRom \/ CheckRom
  <2>1. at' \notin RomReading
    BY <1>2 DEF Search, SearchReset, SearchPresent, ReadId, IdRead, ReadComplement,
       ComplementRead, Decide, SearchEnd, KeepCode, VerifyRom, CheckRom, Goto, RomReading
  <2> QED BY <2>1 DEF RomInv
<1>3. CASE ReadRomReset
  <2>1. /\ at = "read_rom" /\ at' = "read_rom_present" /\ Reset /\ loc' = loc
    BY <1>3 DEF ReadRomReset, Goto
  <2>2. devices' = devices /\ stuck' \in BOOLEAN
    BY <2>1, ResetBegins
  <2>3. loc'.rom = <<>>
    BY <2>1 DEF RomInv, RomReading
  <2>4. \A d : BytesRead(d)'
    BY <2>2, <2>3, NothingRead
  <2> QED BY <2>1, <2>2, <2>3, <2>4 DEF RomInv, RomReading
<1>4. CASE ReadRomPresent
  <2>1. /\ at = "read_rom_present" /\ at' \in {"done", "byte"} /\ loc' = loc
        /\ UNCHANGED <<devices, stuck, faults>>
    BY <1>4 DEF ReadRomPresent, Goto, wireVars
  <2>2. loc'.rom = <<>> /\ Len(loc'.rom) < Bytes
    BY <2>1, CodeBitsNat DEF RomInv, RomReading
  <2>3. \A d : BytesRead(d)'
    BY <1>0, <2>1, <2>2, NothingRead
  <2> QED BY <2>1, <2>2, <2>3 DEF RomInv, RomReading
<1>5. CASE ReadByte
  BY <1>5, ReadByteRom
<1>6. CASE ByteRead
  BY <1>6, ByteReadRom
<1>7. CASE Panic \/ (DriverStep /\ UNCHANGED <<wireVars, at, st, loc, found, answer>>)
           \/ UNCHANGED vars
  <2>1. UNCHANGED <<devices, faults, stuck, wire, at, loc>>
    BY <1>7 DEF Panic, wireVars, vars
  <2> QED BY <2>1 DEF RomInv, BytesRead
<1> QED BY <1>1, <1>2, <1>3, <1>4, <1>5, <1>6, <1>7 DEF Next, ReadRom

(* What owb_read_rom answers.                                              *)
LEMMA CheckRomTrue ==
    ASSUME BaseInv, RomInv, CheckRom, faults <= 1, Crc8(loc.rom) = ZeroByte
    PROVE  \E d \in devices, n \in IF stuck THEN 0..Bytes ELSE {Bytes} :
              loc.rom = CutAfter(BytesOf(d), n)
<1>1. at = "crc"
  BY DEF CheckRom
<1>2. PICK d \in devices : BytesRead(d) /\ Len(loc.rom) = Bytes
  BY <1>1 DEF RomInv, RomReading
<1>3. d \in Codes /\ RightCode(d)
  BY DevicesHaveCodes
<1> DEFINE D == 1..Bytes
<1>4. loc.rom \in [D -> Byte] /\ DOMAIN loc.rom = D
  BY <1>2 DEF BaseInv, TypeOK
<1>5. \A k \in D : ByteOf(d, k) \in Byte /\ BytesOf(d)[k] = ByteOf(d, k)
  BY <1>3, ByteOfType DEF BytesOf
<1>6. \A n : /\ CutAfter(BytesOf(d), n) \in [D -> Byte]
             /\ \A k \in D : CutAfter(BytesOf(d), n)[k]
                                 = IF k <= n THEN ByteOf(d, k) ELSE ZeroByte
  BY <1>5, ZeroByteType DEF CutAfter
<1>7. \A k \in D : k <= Bytes
  BY CodeBitsNat
<1>8. Bytes \in IF stuck THEN 0..Bytes ELSE {Bytes}
  BY CodeBitsNat
<1> HIDE DEF D
<1>9. CASE ~stuck /\ \A k \in D : loc.rom[k] = ByteOf(d, k)
  <2>1. \A k \in D : loc.rom[k] = CutAfter(BytesOf(d), Bytes)[k]
    BY <1>6, <1>7, <1>9
  <2>2. CutAfter(BytesOf(d), Bytes) \in [D -> Byte]
    BY <1>6
  <2>3. loc.rom = CutAfter(BytesOf(d), Bytes)
    BY <1>4, <2>1, <2>2, SameFunction
  <2> QED BY <1>8, <2>3
<1>10. CASE \E p \in D : /\ loc.rom[p] # ByteOf(d, p)
                          /\ \A k \in D \ {p} : loc.rom[k] = ByteOf(d, k)
  <2>1. PICK p \in D : /\ loc.rom[p] # ByteOf(d, p)
                       /\ \A k \in D \ {p} : loc.rom[k] = ByteOf(d, k)
    BY <1>10
  <2>2. IsBytes(loc.rom) /\ IsBytes(BytesOf(d))
    BY <1>3, <1>4, BytesOfType DEF IsBytes, D
  <2>3. /\ loc.rom[p] # BytesOf(d)[p]
        /\ \A k \in (1..Bytes) \ {p} : loc.rom[k] = BytesOf(d)[k]
    BY <1>5, <2>1 DEF D
  <2>4. Crc8(loc.rom) # Crc8(BytesOf(d))
    BY <2>1, <2>2, <2>3, OneWrongByte DEF D
  <2> QED BY <1>3, <2>4 DEF RightCode
<1>11. CASE stuck /\ \E n \in 0..Len(loc.rom) : \A k \in D :
               loc.rom[k] = IF k <= n THEN ByteOf(d, k) ELSE ZeroByte
  <2>1. PICK n \in 0..Bytes : \A k \in D :
               loc.rom[k] = IF k <= n THEN ByteOf(d, k) ELSE ZeroByte
    BY <1>2, <1>11
  <2>2. \A k \in D : loc.rom[k] = CutAfter(BytesOf(d), n)[k]
    BY <1>6, <2>1
  <2>3. CutAfter(BytesOf(d), n) \in [D -> Byte]
    BY <1>6
  <2>4. loc.rom = CutAfter(BytesOf(d), n)
    BY <1>4, <2>2, <2>3, SameFunction
  <2> QED BY <1>11, <2>4
<1> QED BY <1>2, <1>4, <1>9, <1>10, <1>11 DEF BytesRead

(* What verify_rom answers is true.                                        *)
LEMMA VerifyRomTrue ==
    ASSUME BaseInv, SoundInv, VerifyRom, faults <= 1, answer' = "present", ~stuck
    PROVE  Known \in devices
<1>1. at = "searched" /\ loc.isFound /\ SameCode(Known, st.rom)
  BY DEF VerifyRom
<1>2. st.rom \in devices
  BY <1>1 DEF SoundInv
<1>3. Known = st.rom
  <2>1. st.rom \in Codes
    BY DEF BaseInv, TypeOK
  <2> QED BY <1>1, <2>1, KnownAssumption, SameBytes DEF SameCode
<1> QED BY <1>2, <1>3

(* Every step keeps what the callers have been told true.                  *)
LEMMA AnswerStep ==
    ASSUME BaseInv, DriverInv, SoundInv, RomInv, AnswerInv, [Next]_vars
    PROVE  AnswerInv'
<1>1. CASE VerifyRom
  <2>1. UNCHANGED <<devices, stuck, faults>> /\ answer' # "OK"
    BY <1>1 DEF VerifyRom, wireVars
  <2> QED BY <1>1, <2>1, VerifyRomTrue DEF AnswerInv
<1>2. CASE CheckRom
  <2>1. /\ UNCHANGED <<devices, stuck, faults, loc>> /\ answer' # "present"
        /\ answer' = "OK" => Crc8(loc.rom) = ZeroByte
    BY <1>2 DEF CheckRom, wireVars
  <2> QED BY <1>2, <2>1, CheckRomTrue DEF AnswerInv
<1>3. CASE Panic \/ (DriverStep /\ UNCHANGED <<wireVars, at, st, loc, found, answer>>)
           \/ UNCHANGED vars
  <2>1. UNCHANGED <<devices, faults, stuck, loc, answer>>
    BY <1>3 DEF Panic, wireVars, vars
  <2> QED BY <2>1 DEF AnswerInv
<1>4. CASE Initialize \/ Search \/ KeepCode \/ ReadRomReset \/ ReadRomPresent \/ ReadByte
           \/ ByteRead
  <2>1. at # "done"
    BY <1>4 DEF Initialize, Search, SearchReset, SearchPresent, ReadId, IdRead, ReadComplement,
       ComplementRead, Decide, SearchEnd, KeepCode, ReadRomReset, ReadRomPresent, ReadByte,
       ByteRead
  <2>2. answer \in {"none", "verifying"}
    BY <2>1 DEF BaseInv, CallerInv
  <2>3. answer' \in {"none", "verifying", "DEVICE_NOT_RESPONDING"}
    BY <1>4, <2>2 DEF Initialize, Search, SearchReset, SearchPresent, ReadId, IdRead,
       ReadComplement, ComplementRead, Decide, SearchEnd, KeepCode, ReadRomReset, ReadRomPresent,
       ReadByte, ByteRead
  <2> QED BY <2>3 DEF AnswerInv
<1> QED BY <1>1, <1>2, <1>3, <1>4 DEF Next, ReadRom

IInv == BaseInv /\ DriverInv /\ OwnTraces /\ SoundInv /\ RomInv /\ AnswerInv

(* The inductive invariant holds at first,                                 *)
LEMMA Initially == Init => IInv
<1> SUFFICES ASSUME Init PROVE IInv
  OBVIOUS
<1>1. at = "initialize" /\ answer = "none"
  BY DEF Init
<1> QED BY <1>1, BaseInit DEF IInv, SoundInv, RomInv, AnswerInv, Searching, RomReading

(* and every step keeps it.                                                *)
LEMMA Inductive == IInv /\ [Next]_vars => IInv'
  BY BaseStep, NextOwn, SoundStep, RomStep, AnswerStep DEF IInv

(* owb_verify_rom never reports a device that is not there, and owb_read_rom *)
(* never returns with OK another code than the device's, after at most one  *)
(* disturbance and unless the wire is held low: for any width of a byte,     *)
(* length of a code, CRC table that is a permutation, and bus.              *)
THEOREM AnswersCorrect == Spec => []AnswersAreTrue
<1>1. IInv => AnswersAreTrue
  BY DEF IInv, BaseInv, AnswerInv, AnswersAreTrue
<1> QED BY Initially, Inductive, <1>1, PTL DEF Spec

-----------------------------------------------------------------------------
(* The order in which the search finds the devices.                        *)

(* The devices the enumeration has not named yet.                          *)
LEMMA RemainingIs == Remaining = {d \in devices : \A i \in DOMAIN found : found[i] # d}
  BY DEF Remaining, Enumeration!Remaining

(* The next code is the least that remains.                                *)
LEMMA NextCodeIs ==
    ASSUME BaseInv, Remaining # {}
    PROVE  /\ NextCode \in Remaining /\ NextCode \in devices /\ NextCode \in Codes
           /\ \A e \in Remaining \ {NextCode} : Precedes(NextCode, e)
<1>1. Remaining \in SUBSET Codes /\ Remaining \in SUBSET devices
  BY RemainingIs, DevicesHaveCodes
<1>2. \E d \in Remaining : \A e \in Remaining \ {d} : Precedes(d, e)
  BY <1>1, LeastExists
<1>3. NextCode = CHOOSE d \in Remaining : \A e \in Remaining \ {d} : Precedes(d, e)
  BY DEF NextCode, Enumeration!Least
<1> HIDE DEF Remaining, NextCode
<1>4. NextCode \in Remaining /\ \A e \in Remaining \ {NextCode} : Precedes(NextCode, e)
  BY <1>2, <1>3
<1> QED BY <1>1, <1>4

(* Where two codes part, the one with the 0 comes first.                   *)
LEMMA PartHere ==
    ASSUME NEW c \in Codes, NEW d \in Codes, NEW i \in 1..CodeBits,
           Agree(c, d, i - 1), c[i] = 0, d[i] = 1
    PROVE  Precedes(c, d)
<1>1. c[i] < d[i]
  OBVIOUS
<1> QED BY <1>1, PrecedesDef

(* Two different devices part at some bit.                                 *)
LEMMA PartSomewhere ==
    ASSUME NEW c \in Codes, NEW d \in Codes, Precedes(c, d)
    PROVE  \E i \in 1..CodeBits : c[i] = 0 /\ d[i] = 1 /\ Agree(c, d, i - 1)
<1>1. PICK i \in 1..CodeBits : c[i] < d[i] /\ Agree(c, d, i - 1)
  BY PrecedesDef
<1>2. c[i] \in {0, 1} /\ d[i] \in {0, 1}
  BY DEF Codes
<1> QED BY <1>1, <1>2

(* Agreeing up to a bit, and up to the next one.                           *)
LEMMA AgreeFacts ==
    /\ \A c, d, n : Agree(c, d, n) => Agree(d, c, n)
    /\ \A c, d, e, n : Agree(c, d, n) /\ Agree(d, e, n) => Agree(c, e, n)
    /\ \A c, d : \A m, n \in Int : m <= n /\ Agree(c, d, n) => Agree(c, d, m)
    /\ \A c, d : \A n \in Int : \A j \in 1..n : Agree(c, d, n) => c[j] = d[j]
<1>1. \A m, n \in Int : m <= n => \A j \in 1..m : j \in 1..n
  OBVIOUS
<1> QED BY <1>1 DEF Agree

(* What remains comes after the last code found.                           *)
LEMMA RemainsAfter ==
    ASSUME BaseInv, SegmentInv, found # <<>>, NEW d \in devices
    PROVE  /\ LastFound \in Codes /\ d \in Codes
           /\ d \in Remaining <=> Precedes(LastFound, d)
<1>1. LastFound \in Codes /\ d \in Codes
  BY DevicesHaveCodes DEF SegmentInv
<1>2. d \notin Remaining <=> d = LastFound \/ Precedes(d, LastFound)
  BY DEF SegmentInv
<1>3. d = LastFound \/ Precedes(d, LastFound) \/ Precedes(LastFound, d)
  BY <1>1, Total
<1>4. Precedes(LastFound, d) => d # LastFound /\ ~Precedes(d, LastFound)
  BY <1>1, Asymmetric
<1> QED BY <1>1, <1>2, <1>3, <1>4

(* No device is left once there was no branch not taken.                   *)
LEMMA NoneLeft ==
    ASSUME BaseInv, SegmentInv, found # <<>>, LastZeroBranch(LastFound, CodeBits, 0)
    PROVE  Remaining = {}
<1> SUFFICES ASSUME NEW d \in Remaining PROVE FALSE
  OBVIOUS
<1>1. d \in devices
  BY RemainingIs
<1>2. LastFound \in Codes /\ d \in Codes /\ Precedes(LastFound, d)
  BY <1>1, RemainsAfter
<1>3. PICK i \in 1..CodeBits : LastFound[i] = 0 /\ d[i] = 1 /\ Agree(LastFound, d, i - 1)
  BY <1>2, PartSomewhere
<1>4. \A k \in 0 + 1..CodeBits : LastFound[k] = 0 =>
         \A e \in devices : Agree(e, LastFound, k - 1) => e[k] = 0
  BY DEF LastZeroBranch
<1>5. Agree(d, LastFound, i - 1)
  BY <1>3, AgreeFacts
<1>6. i \in 0 + 1..CodeBits
  BY CodeBitsNat
<1> QED BY <1>1, <1>3, <1>4, <1>5, <1>6

(* Otherwise there is a next code, and it parts from the last at the last  *)
(* branch not taken.                                                       *)
LEMMA NextParts ==
    ASSUME BaseInv, SegmentInv, found # <<>>,
           NEW z \in 1..CodeBits, LastZeroBranch(LastFound, CodeBits, z)
    PROVE  /\ Remaining # {}
           /\ Agree(NextCode, LastFound, z - 1)
           /\ LastFound[z] = 0 /\ NextCode[z] = 1
<1> DEFINE F == LastFound
           W == NextCode
<1>1. PICK e \in devices : Agree(e, F, z - 1) /\ e[z] = 1 /\ F[z] = 0
  BY DEF LastZeroBranch
<1>2. F \in Codes /\ e \in Codes
  BY RemainsAfter
<1>3. e \in Remaining
  <2>1. Agree(F, e, z - 1)
    BY <1>1, AgreeFacts
  <2>2. Precedes(F, e)
    BY <1>1, <1>2, <2>1, PartHere
  <2> QED BY <2>2, RemainsAfter
<1>4. W \in Remaining /\ W \in devices /\ W \in Codes /\ (W = e \/ Precedes(W, e))
  BY <1>3, NextCodeIs
<1>5. Precedes(F, W)
  BY <1>4, RemainsAfter
<1> HIDE DEF F, W
<1>6. PICK p \in 1..CodeBits : F[p] = 0 /\ W[p] = 1 /\ Agree(F, W, p - 1)
  BY <1>2, <1>4, <1>5, PartSomewhere
<1>7. Agree(W, F, p - 1)
  BY <1>6, AgreeFacts
<1>8. ~(p > z)
  <2> SUFFICES ASSUME p > z PROVE FALSE
    OBVIOUS
  <2>1. p \in z + 1..CodeBits
    BY CodeBitsNat
  <2>2. F[p] = 0 => \A x \in devices : Agree(x, F, p - 1) => x[p] = 0
    BY <2>1 DEF LastZeroBranch, F
  <2> QED BY <1>4, <1>6, <1>7, <2>2
<1>9. ~(p < z)
  <2> SUFFICES ASSUME p < z PROVE FALSE
    OBVIOUS
  <2>1. p \in 1..z - 1 /\ p - 1 \in Int /\ z - 1 \in Int /\ p - 1 <= z - 1
    BY CodeBitsNat
  <2>2. e[p] = 0 /\ Agree(e, F, p - 1)
    BY <1>1, <1>6, <2>1, AgreeFacts
  <2>3. Agree(e, W, p - 1)
    BY <1>6, <2>2, AgreeFacts
  <2>4. Precedes(e, W)
    BY <1>2, <1>4, <1>6, <2>2, <2>3, PartHere
  <2> QED BY <1>2, <1>4, <2>4, Asymmetric
<1>10. p = z
  BY <1>8, <1>9
<1> QED BY <1>1, <1>3, <1>6, <1>7, <1>10 DEF F, W

(* While nothing disturbs the wire.                                        *)
LEMMA StillNone ==
    ASSUME BaseInv, faults' = 0, faults <= faults' PROVE faults = 0
<1>1. faults \in 0..MaxFaults /\ MaxFaults \in Nat
  BY MaxFaultsAssumption DEF BaseInv, TypeOK
<1> QED BY <1>1

(* The notions depend on what was found and on the bus.                    *)
LEMMA SameFound ==
    ASSUME UNCHANGED <<devices, found>>
    PROVE  /\ Remaining' = Remaining /\ NextCode' = NextCode /\ LastFound' = LastFound
           /\ SegmentInv' <=> SegmentInv
           /\ \A c, n, z : LastZeroBranch(c, n, z)' <=> LastZeroBranch(c, n, z)
<1>1. Remaining' = Remaining
  BY RemainingIs DEF Remaining, Enumeration!Remaining
<1>2. NextCode' = NextCode
  BY <1>1 DEF NextCode, Enumeration!Least
<1>3. LastFound' = LastFound
  BY DEF LastFound
<1> QED BY <1>1, <1>2, <1>3 DEF SegmentInv, LastZeroBranch

(* SearchReset keeps EnumInv,                                              *)
LEMMA SearchResetEnum ==
    ASSUME BaseInv, DriverInv, EnumInv, SearchReset, faults' = 0 PROVE EnumInv'
<1>1. /\ at \in {"search", "verify"} /\ UNCHANGED <<found, answer>>
      /\ devices' = devices /\ faults <= faults'
  <2>1. CASE st.lastDevice
    BY <2>1, MaxFaultsAssumption DEF SearchReset, wireVars, BaseInv, TypeOK
  <2>2. CASE ~st.lastDevice
    <3>1. CallDriver("reset", 0, ResetWave(devices # {}))
      BY <2>2 DEF SearchReset, Reset
    <3> QED BY <2>2, <3>1, CallBegins DEF SearchReset
  <2> QED BY <2>1, <2>2
<1>2. faults = 0
  BY <1>1, StillNone
<1>3. SegmentInv /\ (~InVerify => StateInv)
  BY <1>2 DEF EnumInv
<1>4. SegmentInv' /\ (InVerify' <=> InVerify)
  BY <1>1, <1>3, SameFound DEF InVerify
<1>5. CASE at = "verify"
  <2>1. at' = "verify_present"
    BY <1>5 DEF SearchReset, Goto, BaseInv, CallerInv
  <2> QED BY <1>4, <2>1 DEF EnumInv, StateInv, PathInv, FoundInv, Searching
<1>6. CASE at = "search" /\ st.lastDevice
  <2>1. at' = "searched" /\ ~loc'.isFound
    BY <1>6, AnsweredIs DEF SearchReset, Goto
  <2>2. ~InVerify' => Remaining' = {}
    <3> SUFFICES ASSUME ~InVerify PROVE Remaining = {}
      BY <1>1, <1>4, SameFound
    <3>1. /\ found # <<>> /\ LastZeroBranch(LastFound, CodeBits, st.lastDiscrepancy)
          /\ st.lastDiscrepancy = 0
      BY <1>3, <1>6 DEF StateInv
    <3> QED BY <1>3, <3>1, NoneLeft
  <2> QED BY <1>4, <2>1, <2>2 DEF EnumInv, StateInv, PathInv, FoundInv, Searching
<1>7. CASE at = "search" /\ ~st.lastDevice
  <2>1. at' = "present" /\ st' = st
    BY <1>7 DEF SearchReset, Goto
  <2>2. ~InVerify' => StateInv'
    <3>1. LastFound' = LastFound /\ \A c, n, z : LastZeroBranch(c, n, z)' <=> LastZeroBranch(c, n, z)
      BY <1>1, SameFound
    <3>2. LastZeroBranch(LastFound, CodeBits, st.lastDiscrepancy)'
            <=> LastZeroBranch(LastFound, CodeBits, st.lastDiscrepancy)
      BY <1>1, <2>1, <3>1 DEF LastZeroBranch
    <3> QED BY <1>1, <1>3, <1>4, <1>7, <2>1, <3>1, <3>2 DEF StateInv, Searching
  <2> QED BY <1>4, <2>1, <2>2 DEF EnumInv, PathInv, FoundInv, Searching
<1> QED BY <1>1, <1>5, <1>6, <1>7

(* The last branch depends on the devices and the codes found alone.       *)
LEMMA BranchSame ==
    ASSUME UNCHANGED <<devices, found>>
    PROVE  /\ (LastZeroBranch(LastFound, CodeBits, st.lastDiscrepancy))'
                <=> LastZeroBranch(LastFound, CodeBits, st'.lastDiscrepancy)
           /\ (LastZeroBranch(st.rom, CodeBits, st.lastDiscrepancy))'
                <=> LastZeroBranch(st'.rom, CodeBits, st'.lastDiscrepancy)
           /\ (LastZeroBranch(st.rom, loc.idBit - 1, loc.lastZero))'
                <=> LastZeroBranch(st'.rom, loc'.idBit - 1, loc'.lastZero)
  BY DEF LastZeroBranch, LastFound

(* Nobody remains on an empty bus.                                         *)
LEMMA EmptyBus == devices = {} => Remaining = {}
  BY RemainingIs

(* The search sets out when someone remains.                               *)
LEMMA SomeoneRemains ==
    ASSUME BaseInv, SegmentInv, StateInv, at = "present", devices # {}
    PROVE  Remaining # {}
<1>1. CASE found = <<>>
  BY <1>1, RemainingIs
<1>2. CASE found # <<>>
  <2>1. LastZeroBranch(LastFound, CodeBits, st.lastDiscrepancy) /\ st.lastDiscrepancy # 0
    BY <1>2 DEF StateInv
  <2>2. st.lastDiscrepancy \in 1..CodeBits
    BY <2>1, CodeBitsNat DEF BaseInv, TypeOK
  <2> QED BY <1>2, <2>1, <2>2, NextParts
<1> QED BY <1>1, <1>2

(* SearchPresent keeps EnumInv: the search starts on its path.             *)
LEMMA SearchPresentEnum ==
    ASSUME BaseInv, DriverInv, EnumInv, SearchPresent, faults' = 0 PROVE EnumInv'
<1>1. /\ at \in {"present", "verify_present"} /\ Return
      /\ UNCHANGED <<devices, driver, faults, stuck, wire, found>>
      /\ answer' = IF at = "verify_present" THEN "verifying" ELSE answer
  BY DEF SearchPresent
<1>2. faults = 0 /\ SegmentInv /\ SegmentInv'
  BY <1>1, SameFound DEF EnumInv
<1>3. CASE at = "verify_present"
  BY <1>1, <1>2, <1>3 DEF EnumInv, InVerify
<1>4. CASE at = "present"
  <2>1. ~InVerify /\ ~InVerify' /\ StateInv
    BY <1>1, <1>2, <1>4 DEF BaseInv, CallerInv, InVerify, Searching, EnumInv
  <2>2. call.present <=> devices # {}
    <3>1. wire.noise = "none" /\ wire.wave = ResetWave(devices # {}) /\ call.op = "reset"
      BY <1>2, <1>4 DEF BaseInv, CallInv, Resetting
    <3>2. call.at = "done"
      BY <1>1 DEF Return
    <3>3. call.present <=> IF driver = "rmt" THEN Presence(Recorded) ELSE GpioPresence(wire.wave)
      BY <3>1, <3>2 DEF DriverInv, CleanCall, HasResult
    <3>4. Recorded = Record(ResetWave(devices # {}), OW_RESET_IDLE)
      BY <3>1 DEF Recorded
    <3>5. /\ Presence(Record(ResetWave(devices # {}), OW_RESET_IDLE)) <=> devices # {}
          /\ GpioPresence(ResetWave(devices # {})) <=> devices # {}
      BY PresenceIs
    <3> QED BY <3>1, <3>3, <3>4, <3>5
  <2>3. CASE ~call.present
    <3>1. at' = "searched" /\ ~loc'.isFound
      BY <2>3, AnsweredIs DEF SearchPresent, Goto
    <3>2. Remaining' = {}
      BY <1>1, <2>2, <2>3, EmptyBus, SameFound
    <3> QED BY <1>2, <3>1, <3>2 DEF EnumInv, StateInv, PathInv, FoundInv, Searching
  <2>4. CASE call.present
    <3>1. /\ at' = "id" /\ selected' = devices /\ st' = st
          /\ loc'.idBit = 1 /\ loc'.lastZero = 0
      BY <2>4, NoLocalsType DEF SearchPresent, Goto
    <3>2. StateInv'
      BY <1>1, <1>4, <2>1, <3>1, SameFound, BranchSame DEF StateInv, Searching
    <3>3. PathInv'
      <4>1. Remaining # {}
        BY <1>2, <1>4, <2>1, <2>2, <2>4, SomeoneRemains
      <4>2. NextCode \in devices
        BY <4>1, NextCodeIs
      <4>3. loc'.idBit - 1 = 0 /\ loc'.idBit..CodeBits = 1..CodeBits
        BY <3>1
      <4>4. \A c, d : Agree(c, d, 0)
        BY DEF Agree
      <4>5. \A c : LastZeroBranch(c, 0, 0)
        BY DEF LastZeroBranch
      <4>6. (LastZeroBranch(st.rom, loc.idBit - 1, loc.lastZero))'
        BY <1>1, <3>1, <4>3, <4>5, BranchSame
      <4>7. found # <<>> => st.rom = LastFound
        BY <1>4, <2>1 DEF StateInv, Searching
      <4>8. selected' = {d \in devices' : (Agree(d, st.rom, loc.idBit - 1))'}
        <5>1. \A d : (Agree(d, st.rom, loc.idBit - 1))'
          BY <4>3 DEF Agree
        <5> QED BY <1>1, <3>1, <5>1
      <4>9. Remaining' = Remaining /\ NextCode' = NextCode /\ LastFound' = LastFound
        BY <1>1, SameFound
      <4>10. found' # <<>> => \A j \in loc'.idBit..CodeBits : st'.rom[j] = LastFound'[j]
        BY <1>1, <3>1, <4>7, <4>9
      <4> QED BY <1>1, <3>1, <4>1, <4>2, <4>6, <4>8, <4>9, <4>10 DEF PathInv
    <3> QED BY <1>2, <3>1, <3>2, <3>3 DEF EnumInv, FoundInv
  <2> QED BY <2>3, <2>4
<1> QED BY <1>1, <1>3, <1>4

(* The steps that read a bit                                               *)
LEMMA ReadingEnum ==
    ASSUME BaseInv, DriverInv, EnumInv,
           ReadId \/ IdRead \/ ReadComplement \/ ComplementRead, faults' = 0
    PROVE  EnumInv'
<1>1. /\ at \in Searching /\ at' \in Searching
      /\ UNCHANGED <<devices, selected, st, found, answer>>
      /\ faults <= faults'
  <2>1. CASE ReadId \/ ReadComplement
    <3>1. PICK w : CallDriver("read", 1, w)
      BY <2>1 DEF ReadId, ReadComplement
    <3>2. devices' = devices /\ faults <= faults'
      BY <3>1, CallBegins
    <3> QED BY <2>1, <3>2 DEF ReadId, ReadComplement, Goto, Searching
  <2>2. CASE IdRead \/ ComplementRead
    <3>1. faults <= faults
      BY MaxFaultsAssumption DEF BaseInv, TypeOK
    <3> QED BY <2>2, <3>1 DEF IdRead, ComplementRead, Goto, Searching, wireVars
  <2> QED BY <2>1, <2>2
<1>2. loc'.idBit = loc.idBit /\ loc'.lastZero = loc.lastZero
  BY DEF ReadId, IdRead, ReadComplement, ComplementRead, BaseInv, LocTypes
<1>3. faults = 0
  BY <1>1, StillNone
<1>4. SegmentInv' /\ (InVerify' <=> InVerify)
  BY <1>1, <1>3, SameFound DEF EnumInv, InVerify
<1> SUFFICES ASSUME ~InVerify PROVE StateInv' /\ PathInv' /\ FoundInv'
  BY <1>4 DEF EnumInv
<1>5. StateInv /\ PathInv
  BY <1>3 DEF EnumInv
<1>6. StateInv'
  BY <1>1, <1>5, SameFound, BranchSame DEF StateInv, Searching
<1>7. PathInv'
  <2>1. \A d : (Agree(d, st.rom, loc.idBit - 1))' <=> Agree(d, st.rom, loc.idBit - 1)
    BY <1>1, <1>2 DEF Agree
  <2> QED BY <1>1, <1>2, <1>5, <2>1, SameFound, BranchSame DEF PathInv
<1>8. FoundInv'
  BY <1>1 DEF FoundInv, Searching
<1> QED BY <1>6, <1>7, <1>8

(* A device with a 0 where the next code has a 1, and that agrees with it   *)
(* before, does not remain.                                                *)
LEMMA NotBeforeNext ==
    ASSUME BaseInv, Remaining # {}, NEW e \in devices, NEW i \in 1..CodeBits,
           Agree(e, NextCode, i - 1), e[i] = 0, NextCode[i] = 1
    PROVE  e \notin Remaining
<1>1. e \in Codes /\ NextCode \in Codes
  BY DevicesHaveCodes, NextCodeIs
<1>2. Precedes(e, NextCode)
  BY <1>1, PartHere
<1>3. ~Precedes(NextCode, e) /\ e # NextCode
  BY <1>1, <1>2, Asymmetric
<1> QED BY <1>3, NextCodeIs

(* The search decides for the next code.                                   *)
LEMMA DirectionOfNext ==
    ASSUME BaseInv, SegmentInv, StateInv, PathInv, at = "decide",
           loc.id = BitByte(IdBit), loc.cmp = BitByte(ComplementBit), ~NobodyAnswers
    PROVE  Direction = NextCode[loc.idBit]
<1> DEFINE i == loc.idBit
           W == NextCode
           F == LastFound
           z == st.lastDiscrepancy
<1>1. i \in 1..CodeBits /\ i \in Int /\ z \in 0..CodeBits /\ z \in Int
  BY DirectionBit, CodeBitsNat DEF BaseInv, TypeOK
<1>2. /\ loc.id = loc.cmp <=> IdBit = ComplementBit
      /\ Some(loc.id) <=> IdBit = 1
      /\ Some(loc.cmp) <=> ComplementBit = 1
      /\ IdBit = 0 <=> \E d \in selected : d[i] = 0
      /\ ComplementBit = 0 <=> \E d \in selected : d[i] = 1
      /\ \A d \in selected : d[i] \in {0, 1}
      /\ IdBit \in {0, 1} /\ ComplementBit \in {0, 1}
  BY Readings
<1>3. /\ W \in selected /\ Remaining # {} /\ W \in Codes
      /\ selected = {d \in devices : Agree(d, st.rom, i - 1)}
      /\ found # <<>> => \A j \in i..CodeBits : st.rom[j] = F[j]
  BY NextCodeIs DEF PathInv, Searching
<1>4. \A d \in selected : d \in devices /\ Agree(d, W, i - 1)
  <2>1. \A d \in selected : d \in devices /\ Agree(d, st.rom, i - 1)
    BY <1>3
  <2>2. Agree(st.rom, W, i - 1)
    BY <1>3, <2>1, AgreeFacts
  <2> QED BY <2>1, <2>2, AgreeFacts
<1>5. /\ found = <<>> => z = 0
      /\ found # <<>> => z # 0 /\ LastZeroBranch(F, CodeBits, z)
  BY DEF StateInv, Searching
<1> HIDE DEF i, W, F, z
<1>6. CASE loc.id # loc.cmp
  <2>1. CASE IdBit = 1
    <3>1. Direction = 1
      BY <1>2, <1>6, <2>1 DEF Direction
    <3>2. W[i] = 1
      BY <1>2, <1>3, <2>1
    <3> QED BY <3>1, <3>2 DEF W, i
  <2>2. CASE IdBit = 0
    <3>1. Direction = 0 /\ ComplementBit = 1
      BY <1>2, <1>6, <2>2 DEF Direction
    <3>2. W[i] = 0
      BY <1>2, <1>3, <3>1
    <3> QED BY <3>1, <3>2 DEF W, i
  <2> QED BY <1>2, <2>1, <2>2
<1>7. CASE loc.id = loc.cmp
  <2>1. IdBit = 0 /\ ComplementBit = 0
    BY <1>2, <1>7 DEF NobodyAnswers
  <2>2. PICK e \in selected : e[i] = 0
    BY <1>2, <2>1
  <2>3. Direction = IF i < z THEN st.rom[i] ELSE IF i = z THEN 1 ELSE 0
    BY <1>7 DEF Direction, i, z
  <2>4. W[i] \in {0, 1}
    BY <1>2, <1>3
  <2>5. e \in devices /\ Agree(e, W, i - 1)
    BY <1>4
  <2>6. e \in Remaining => W[i] = 0
    BY <1>1, <1>3, <2>2, <2>4, <2>5, NotBeforeNext DEF W
  <2>7. CASE found = <<>>
    <3>1. e \in Remaining
      BY <2>5, <2>7, RemainingIs
    <3>2. z = 0 /\ ~(i < z) /\ i # z
      BY <1>1, <1>5, <2>7
    <3> QED BY <2>3, <2>6, <3>1, <3>2 DEF W, i
  <2>8. CASE found # <<>>
    <3>1. z \in 1..CodeBits /\ LastZeroBranch(F, CodeBits, z)
      BY <1>1, <1>5, <2>8
    <3>2. Agree(W, F, z - 1) /\ F[z] = 0 /\ W[z] = 1
      BY <2>8, <3>1, NextParts DEF W, F
    <3>3. CASE i < z
      <4>1. i \in i..CodeBits /\ i \in 1..z - 1
        BY <1>1, <3>3, CodeBitsNat
      <4>2. st.rom[i] = F[i]
        BY <1>3, <2>8, <4>1
      <4>3. W[i] = F[i]
        BY <3>2, <4>1 DEF Agree
      <4> QED BY <2>3, <3>3, <4>2, <4>3 DEF W, i
    <3>4. CASE i = z
      <4>1. Direction = 1
        BY <1>1, <2>3, <3>4
      <4> QED BY <3>2, <3>4, <4>1 DEF W, i
    <3>5. CASE i > z
      <4>1. Direction = 0
        BY <1>1, <2>3, <3>5
      <4>2. z \in 1..i - 1 /\ z - 1 <= i - 1 /\ z - 1 \in Int /\ i - 1 \in Int
        BY <1>1, <3>1, <3>5
      <4>3. e[z] = 1
        BY <2>5, <3>2, <4>2 DEF Agree
      <4>4. Agree(F, e, z - 1)
        <5>1. Agree(e, W, z - 1)
          BY <2>5, <4>2, AgreeFacts
        <5> QED BY <3>2, <5>1, AgreeFacts
      <4>5. F \in Codes /\ e \in Codes
        BY <2>5, <2>8, RemainsAfter DEF F
      <4>6. Precedes(F, e)
        BY <3>1, <3>2, <4>3, <4>4, <4>5, PartHere
      <4>7. e \in Remaining
        BY <2>5, <2>8, <4>6, RemainsAfter DEF F
      <4> QED BY <2>6, <4>1, <4>7 DEF W, i
    <3> QED BY <1>1, <3>3, <3>4, <3>5
  <2> QED BY <2>7, <2>8
<1> QED BY <1>6, <1>7

(* Decide keeps EnumInv: the search stays on the path to the next code.    *)
LEMMA DecideEnum ==
    ASSUME BaseInv, DriverInv, SoundInv, EnumInv, Decide, faults' = 0 PROVE EnumInv'
<1> DEFINE i == loc.idBit
           W == NextCode
           rom == st.rom
           new == st'.rom
<1>1. /\ at = "decide" /\ at' \in Searching /\ ~NobodyAnswers
      /\ st'.lastDiscrepancy = st.lastDiscrepancy /\ st'.lastDevice = st.lastDevice
      /\ loc'.idBit = i + 1 /\ i \in 1..CodeBits /\ Direction \in {0, 1}
      /\ loc'.lastZero = IF TookZero THEN i ELSE loc.lastZero
      /\ UNCHANGED <<devices, faults, stuck, wire, found, answer>>
  BY DecideIs DEF Searching
<1>2. faults = 0 /\ ~stuck
  BY <1>1 DEF BaseInv, CallInv
<1>3. SegmentInv' /\ SegmentInv /\ (InVerify' <=> InVerify)
  BY <1>1, <1>2, SameFound DEF EnumInv, InVerify
<1> SUFFICES ASSUME ~InVerify PROVE StateInv' /\ PathInv' /\ FoundInv'
  BY <1>3 DEF EnumInv
<1>4. StateInv /\ PathInv
  BY <1>2 DEF EnumInv
<1>5. loc.id = BitByte(IdBit) /\ loc.cmp = BitByte(ComplementBit)
  BY <1>1, <1>2 DEF SoundInv, Searching, SearchSound, TrueReadings
<1>6. Direction = W[i]
  BY <1>1, <1>3, <1>4, <1>5, DirectionOfNext
<1>7. new[i] = Direction /\ \A j \in 1..CodeBits : j # i => new[j] = rom[j]
  BY WrittenRom
<1>8. StateInv'
  <2>1. at \in Searching /\ at # "search" /\ at' # "search"
    BY <1>1 DEF Searching
  <2> QED BY <1>1, <1>4, <2>1, SameFound, BranchSame DEF StateInv
<1>9. FoundInv'
  BY <1>1 DEF FoundInv, Searching
<1>10. /\ Remaining # {} /\ W \in selected
       /\ selected = {d \in devices : Agree(d, rom, i - 1)}
       /\ LastZeroBranch(rom, i - 1, loc.lastZero)
       /\ found # <<>> => \A j \in i..CodeBits : rom[j] = LastFound[j]
  BY <1>1, <1>4 DEF PathInv, Searching
<1>11. selected' = {d \in selected : d[i] = Direction}
  BY FollowersAre
<1>12. /\ \A j \in 1..i - 1 : j \in 1..CodeBits /\ j # i
       /\ \A j \in i + 1..CodeBits : j \in 1..CodeBits /\ j # i /\ j \in i..CodeBits
       /\ \A j \in 1..i : j = i \/ j \in 1..i - 1
       /\ \A j \in 1..i - 1 : j \in 1..i
       /\ i \in 1..i /\ i + 1 - 1 = i
  BY <1>1, CodeBitsNat
<1> HIDE DEF i, W, rom, new
<1>13. \A j \in 1..i - 1 : new[j] = rom[j]
  BY <1>7, <1>12
<1>14. \A d : /\ Agree(d, new, i - 1) <=> Agree(d, rom, i - 1)
              /\ Agree(d, new, i) <=> Agree(d, rom, i - 1) /\ d[i] = Direction
  BY <1>7, <1>12, <1>13 DEF Agree
<1>15. selected' = {d \in devices : Agree(d, new, i)}
  BY <1>10, <1>11, <1>14
<1>16. LastZeroBranch(new, i, loc'.lastZero)
  <2>1. /\ loc.id = loc.cmp <=> IdBit = ComplementBit
        /\ Some(loc.id) <=> IdBit = 1
        /\ Some(loc.cmp) <=> ComplementBit = 1
        /\ IdBit = 0 <=> \E d \in selected : d[i] = 0
        /\ ComplementBit = 0 <=> \E d \in selected : d[i] = 1
        /\ \A d \in selected : d[i] \in {0, 1}
        /\ IdBit \in {0, 1} /\ ComplementBit \in {0, 1}
    BY <1>1, <1>5, Readings DEF i
  <2>2. CASE TookZero
    <3>1. loc'.lastZero = i /\ new[i] = 0 /\ loc.id = loc.cmp
      BY <1>1, <1>7, <2>2 DEF TookZero
    <3>2. ComplementBit = 0
      BY <1>1, <2>1, <3>1 DEF NobodyAnswers
    <3>3. PICK e \in selected : e[i] = 1
      BY <2>1, <3>2
    <3>4. e \in devices /\ Agree(e, new, i - 1)
      BY <1>10, <1>14
    <3>5. i \in 0..i /\ i + 1..i = {}
      BY <1>1
    <3> QED BY <3>1, <3>3, <3>4, <3>5 DEF LastZeroBranch
  <2>3. CASE ~TookZero
    <3> DEFINE y == loc.lastZero
    <3>1. loc'.lastZero = y
      BY <1>1, <2>3
    <3>2. /\ y \in 0..i - 1
          /\ y > 0 => rom[y] = 0 /\ \E e \in devices : Agree(e, rom, y - 1) /\ e[y] = 1
          /\ \A k \in y + 1..i - 1 : rom[k] = 0 =>
               \A e \in devices : Agree(e, rom, k - 1) => e[k] = 0
      BY <1>10 DEF LastZeroBranch
    <3> HIDE DEF y
    <3>3. \A k \in 1..i - 1 : \A e : Agree(e, new, k - 1) <=> Agree(e, rom, k - 1)
      <4>1. \A k \in 1..i - 1 : \A j \in 1..k - 1 : j \in 1..i - 1
        BY <1>1
      <4> QED BY <1>13, <4>1 DEF Agree
    <3>4. y > 0 => y \in 1..i - 1
      BY <1>1, <3>2
    <3>5. y > 0 => new[y] = 0 /\ \E e \in devices : Agree(e, new, y - 1) /\ e[y] = 1
      BY <1>13, <3>2, <3>3, <3>4
    <3>6. \A k \in y + 1..i : (k \in 1..i - 1 /\ k \in y + 1..i - 1) \/ k = i
      BY <1>1, <3>2
    <3>7. \A k \in y + 1..i : new[k] = 0 =>
             \A e \in devices : Agree(e, new, k - 1) => e[k] = 0
      <4> SUFFICES ASSUME NEW k \in y + 1..i, new[k] = 0, NEW e \in devices, Agree(e, new, k - 1)
                   PROVE  e[k] = 0
        OBVIOUS
      <4>1. CASE k = i
        <5>1. Direction = 0
          BY <1>7, <4>1
        <5>2. loc.id # loc.cmp
          BY <2>3, <5>1 DEF TookZero
        <5>3. IdBit # 1
          BY <2>1, <5>1, <5>2 DEF Direction
        <5>4. ComplementBit = 1
          BY <2>1, <5>2, <5>3
        <5>5. e \in selected
          BY <1>10, <1>14, <4>1
        <5> QED BY <2>1, <4>1, <5>4, <5>5
      <4>2. CASE k # i
        <5>1. k \in 1..i - 1 /\ k \in y + 1..i - 1
          BY <3>6, <4>2
        <5> QED BY <1>13, <3>2, <3>3, <5>1
      <4> QED BY <4>1, <4>2
    <3>8. y \in 0..i
      BY <1>1, <3>2
    <3> QED BY <3>1, <3>5, <3>7, <3>8 DEF LastZeroBranch
  <2> QED BY <2>2, <2>3
<1>17. PathInv'
  <2>1. loc'.idBit = i + 1 /\ loc'.idBit - 1 = i
    BY <1>1, <1>12
  <2>2. (LastZeroBranch(st.rom, loc.idBit - 1, loc.lastZero))'
    BY <1>1, <1>16, <2>1, BranchSame DEF new
  <2>3. selected' = {d \in devices' : (Agree(d, st.rom, loc.idBit - 1))'}
    <3>1. \A d : (Agree(d, st.rom, loc.idBit - 1))' <=> Agree(d, new, i)
      BY <2>1 DEF Agree, new
    <3> QED BY <1>1, <1>15, <3>1
  <2>4. W \in selected'
    BY <1>6, <1>10, <1>11
  <2>5. found # <<>> => \A j \in i + 1..CodeBits : new[j] = LastFound[j]
    BY <1>7, <1>10, <1>12
  <2>6. Remaining' = Remaining /\ NextCode' = W /\ LastFound' = LastFound
    BY <1>1, SameFound DEF W
  <2> QED BY <1>1, <1>10, <2>1, <2>2, <2>3, <2>4, <2>5, <2>6 DEF PathInv, new
<1> QED BY <1>8, <1>9, <1>17

(* SearchEnd keeps EnumInv: what it found is the next code.                *)
LEMMA SearchEndEnum ==
    ASSUME BaseInv, DriverInv, SoundInv, EnumInv, SearchEnd, faults' = 0 PROVE EnumInv'
<1>1. /\ at = "end" \/ (at = "decide" /\ NobodyAnswers)
      /\ at' = "searched"
      /\ loc'.isFound <=> CodeComplete /\ Some(ByteOf(st.rom, 1))
      /\ st'.rom = st.rom
      /\ st'.lastDiscrepancy = IF loc'.isFound THEN loc.lastZero ELSE 0
      /\ st'.lastDevice <=> loc'.isFound /\ loc.lastZero = 0
      /\ UNCHANGED <<devices, faults, stuck, found, answer>>
  BY SearchEndIs DEF wireVars
<1>2. faults = 0 /\ ~stuck /\ at \in Searching
  BY <1>1 DEF BaseInv, CallInv, Searching
<1>3. SegmentInv' /\ (InVerify' <=> InVerify)
  BY <1>1, <1>2, SameFound DEF EnumInv, InVerify
<1> SUFFICES ASSUME ~InVerify PROVE StateInv' /\ PathInv' /\ FoundInv'
  BY <1>3 DEF EnumInv
<1>4. PathInv /\ SearchSound
  BY <1>2 DEF EnumInv, SoundInv
<1>5. /\ Remaining # {} /\ NextCode \in selected
      /\ selected = {d \in devices : Agree(d, st.rom, loc.idBit - 1)}
      /\ LastZeroBranch(st.rom, loc.idBit - 1, loc.lastZero)
  BY <1>2, <1>4 DEF PathInv
<1>6. at = "end"
  <2> SUFFICES ASSUME at = "decide", NobodyAnswers PROVE FALSE
    BY <1>1
  <2>1. loc.id = BitByte(IdBit) /\ loc.cmp = BitByte(ComplementBit)
    BY <1>2, <1>4 DEF SearchSound, TrueReadings
  <2>2. IdBit = 1 /\ ComplementBit = 1
    BY <2>1, Readings DEF NobodyAnswers
  <2>3. NextCode[loc.idBit] # 0 /\ NextCode[loc.idBit] # 1 /\ NextCode[loc.idBit] \in {0, 1}
    BY <1>5, <2>1, <2>2, Readings
  <2> QED BY <2>3
<1>7. loc.idBit = CodeBits + 1 /\ loc.idBit - 1 = CodeBits
  BY <1>6, CodeBitsNat DEF BaseInv, CallerInv, Searching
<1>8. st.rom = NextCode
  <2>1. Agree(NextCode, st.rom, CodeBits)
    BY <1>5, <1>7
  <2>2. NextCode \in Codes /\ st.rom \in Codes
    BY <1>5, NextCodeIs DEF BaseInv, TypeOK
  <2> QED BY <2>1, <2>2, SameCodes
<1>9. loc'.isFound
  <2>1. RightCode(NextCode)
    BY <1>5, NextCodeIs, DevicesHaveCodes
  <2>2. loc.idBit > CodeBits
    BY <1>7, CodeBitsNat
  <2> QED BY <1>1, <1>8, <2>1, <2>2 DEF RightCode, CodeComplete
<1>10. FoundInv'
  <2>1. (LastZeroBranch(st.rom, CodeBits, st.lastDiscrepancy))'
    BY <1>1, <1>5, <1>7, <1>9, BranchSame
  <2>2. Remaining' = Remaining /\ NextCode' = NextCode
    BY <1>1, SameFound
  <2> QED BY <1>1, <1>5, <1>8, <1>9, <2>1, <2>2 DEF FoundInv
<1> QED BY <1>1, <1>10 DEF StateInv, PathInv, Searching

(* KeepCode keeps EnumInv: one more code is found, the next in order.      *)
LEMMA KeepCodeEnum ==
    ASSUME BaseInv, EnumInv, KeepCode, faults' = 0 PROVE EnumInv'
<1>1. /\ at = "searched" /\ ~InVerify /\ ~InVerify'
      /\ at' = IF ~loc.isFound THEN "verify"
               ELSE IF Len(found) = Quantity THEN "overrun" ELSE "search"
      /\ found' = IF at' = "search" THEN Append(found, st.rom) ELSE found
      /\ st' = IF loc.isFound THEN st ELSE NoState
      /\ UNCHANGED <<devices, faults>>
  BY DEF KeepCode, Goto, InVerify, wireVars
<1>2. SegmentInv /\ FoundInv
  BY <1>1 DEF EnumInv
<1>3. CASE at' # "search"
  <2>1. at' \in {"verify", "overrun"} /\ found' = found
    BY <1>1, <1>3
  <2>2. SegmentInv'
    BY <1>1, <1>2, <2>1, SameFound
  <2> QED BY <2>1, <2>2 DEF EnumInv, StateInv, PathInv, FoundInv, Searching
<1>4. CASE at' = "search"
  <2> DEFINE W == NextCode
  <2>1. /\ loc.isFound /\ Len(found) # Quantity /\ found' = Append(found, W) /\ st' = st
        /\ Remaining # {} /\ st.rom = W
        /\ LastZeroBranch(W, CodeBits, st.lastDiscrepancy)
        /\ st.lastDevice <=> st.lastDiscrepancy = 0
    BY <1>1, <1>2, <1>4 DEF FoundInv
  <2>2. W \in Remaining /\ W \in devices /\ W \in Codes
        /\ \A e \in Remaining \ {W} : Precedes(W, e)
    BY <2>1, NextCodeIs
  <2>3. found \in Seq(Codes)
    BY DEF BaseInv, TypeOK
  <2> HIDE DEF W
  <2>4. /\ found' # <<>> /\ LastFound' = W
        /\ \A d : (\A k \in DOMAIN found' : found'[k] # d)
                    <=> (\A k \in DOMAIN found : found[k] # d) /\ W # d
    <3>1. found' \in Seq(Codes) /\ Len(found') = Len(found) + 1 /\ Len(found) \in Nat
          /\ found'[Len(found) + 1] = W
          /\ \A k \in 1..Len(found) : found'[k] = found[k]
          /\ DOMAIN found = 1..Len(found) /\ DOMAIN found' = 1..Len(found) + 1
      BY <2>1, <2>2, <2>3
    <3>2. \A k \in 1..Len(found) + 1 : k \in 1..Len(found) \/ k = Len(found) + 1
      BY <3>1
    <3>3. Len(found) + 1 \in 1..Len(found) + 1 /\ \A k \in 1..Len(found) : k \in 1..Len(found) + 1
      BY <3>1
    <3>4. found' # <<>> /\ found'[Len(found')] = W
      BY <3>1
    <3> QED BY <3>1, <3>2, <3>3, <3>4 DEF LastFound
  <2>5. Remaining' = Remaining \ {W}
    <3>1. Remaining' = {d \in devices' : \A k \in DOMAIN found' : found'[k] # d}
      BY DEF Remaining, Enumeration!Remaining
    <3> QED BY <1>1, <2>4, <3>1, RemainingIs
  <2>6. ASSUME NEW d \in devices
        PROVE  d \notin Remaining' <=> d = W \/ Precedes(d, W)
    <3>1. d \in Codes
      BY DevicesHaveCodes
    <3>2. ASSUME d \notin Remaining PROVE Precedes(d, W)
      <4>1. found # <<>> /\ (d = LastFound \/ Precedes(d, LastFound))
        BY <1>2, <3>2 DEF SegmentInv
      <4>2. LastFound \in Codes /\ Precedes(LastFound, W)
        BY <1>2, <2>2, <4>1, RemainsAfter
      <4> QED BY <2>2, <3>1, <4>1, <4>2, Transitive
    <3>3. ASSUME Precedes(d, W) PROVE d \notin Remaining
      <4>1. ~Precedes(W, d) /\ d # W
        BY <2>2, <3>1, <3>3, Asymmetric
      <4> QED BY <2>2, <4>1
    <3> QED BY <2>5, <3>2, <3>3
  <2>7. SegmentInv'
    BY <1>1, <2>2, <2>4, <2>6 DEF SegmentInv
  <2>8. StateInv'
    <3>1. (LastZeroBranch(LastFound, CodeBits, st.lastDiscrepancy))'
      BY <1>1, <2>1, <2>4 DEF LastZeroBranch
    <3> QED BY <1>4, <2>1, <2>4, <3>1 DEF StateInv, Searching
  <2> QED BY <1>4, <2>7, <2>8 DEF EnumInv, PathInv, FoundInv, Searching
<1> QED BY <1>3, <1>4

(* Every step keeps EnumInv.                                               *)
LEMMA EnumStep ==
    ASSUME BaseInv, DriverInv, SoundInv, EnumInv, [Next]_vars PROVE EnumInv'
<1> SUFFICES ASSUME faults' = 0 PROVE EnumInv'
  BY DEF EnumInv
<1>1. CASE Initialize
  <2>1. faults <= faults'
    <3>1. faults \in Nat /\ MaxFaults \in Nat
      BY MaxFaultsAssumption DEF BaseInv, TypeOK
    <3>2. CASE driver = "gpio"
      BY <1>1, <3>1, <3>2 DEF Initialize
    <3>3. CASE driver # "gpio"
      BY <1>1, <3>1, <3>3 DEF Initialize
    <3> QED BY <3>2, <3>3
  <2>2. faults = 0
    BY <2>1, StillNone
  <2>3. /\ at = "initialize" /\ at' \in {"search", "read_rom"}
        /\ UNCHANGED <<devices, st, found, answer>>
    BY <1>1 DEF Initialize, Goto
  <2>4. SegmentInv' /\ (InVerify' <=> InVerify)
    BY <2>2, <2>3, SameFound DEF EnumInv, InVerify
  <2>5. ~InVerify' => StateInv'
    BY <2>2, <2>3, <2>4, SameFound, BranchSame DEF EnumInv, StateInv, Searching
  <2> QED BY <2>3, <2>4, <2>5 DEF EnumInv, PathInv, FoundInv, Searching
<1>2. CASE Search
  BY <1>2, SearchResetEnum, SearchPresentEnum, ReadingEnum, DecideEnum, SearchEndEnum DEF Search
<1>3. CASE KeepCode
  BY <1>3, KeepCodeEnum
<1>4. CASE VerifyRom \/ ReadRom
  <2>1. /\ at' \in {"done", "read_rom_present", "byte", "byte_read", "crc"}
        /\ UNCHANGED <<devices, found>> /\ faults <= faults'
    <3>1. CASE ReadRomReset \/ ReadByte
      <4>0. PICK op \in {"reset", "read"}, n \in Nat : \E w : CallDriver(op, n, w)
        BY <3>1, CodeBitsNat DEF ReadRomReset, ReadByte, Reset
      <4>1. PICK w : CallDriver(op, n, w)
        BY <4>0
      <4>2. devices' = devices /\ faults <= faults'
        BY <4>1, CallBegins
      <4> QED BY <3>1, <4>2 DEF ReadRomReset, ReadByte, Goto
    <3>2. CASE VerifyRom \/ ReadRomPresent \/ ByteRead \/ CheckRom
      <4>1. faults <= faults
        BY MaxFaultsAssumption DEF BaseInv, TypeOK
      <4> QED BY <3>2, <4>1 DEF VerifyRom, ReadRomPresent, ByteRead, CheckRom, Goto, wireVars
    <3> QED BY <1>4, <3>1, <3>2 DEF ReadRom
  <2>2. faults = 0
    BY <2>1, StillNone
  <2>3. SegmentInv'
    BY <2>1, <2>2, SameFound DEF EnumInv
  <2> QED BY <2>1, <2>3 DEF EnumInv, StateInv, PathInv, FoundInv, Searching
<1>5. CASE Panic \/ (DriverStep /\ UNCHANGED <<wireVars, at, st, loc, found, answer>>)
           \/ UNCHANGED vars
  <2>1. UNCHANGED <<devices, selected, faults, at, st, loc, found, answer>>
    BY <1>5 DEF Panic, wireVars, vars
  <2>2. \A d : (Agree(d, st.rom, loc.idBit - 1))' <=> Agree(d, st.rom, loc.idBit - 1)
    BY <2>1 DEF Agree
  <2>3. SegmentInv' /\ (InVerify' <=> InVerify)
    BY <2>1, SameFound DEF EnumInv, InVerify
  <2>4. ~InVerify' => StateInv'
    BY <2>1, <2>3, SameFound, BranchSame DEF EnumInv, StateInv, Searching
  <2>5. ~InVerify' => PathInv'
    BY <2>1, <2>2, <2>3, SameFound, BranchSame DEF EnumInv, PathInv
  <2>6. ~InVerify' => FoundInv'
    BY <2>1, <2>3, SameFound, BranchSame DEF EnumInv, FoundInv
  <2> QED BY <2>3, <2>4, <2>5, <2>6 DEF EnumInv
<1> QED BY <1>1, <1>2, <1>3, <1>4, <1>5 DEF Next

-----------------------------------------------------------------------------
(* The search implements the enumeration.                                  *)

Ended == at = "verify" \/ InVerify \/ answer \in {"present", "absent"}
         \/ at = "verify_present"

(* A disturbance leaves the wire as disturbed as it was, or worse.         *)
LEMMA DisturbedStep ==
    ASSUME BaseInv, BaseInv', faults <= faults', stuck => stuck'
    PROVE  \/ Disturbed' = Disturbed
           \/ Disturbed # "badly" /\ Disturbed' \in {"once", "badly"} \ {Disturbed}
<1>1. faults \in Nat /\ faults' \in Nat /\ stuck \in BOOLEAN /\ stuck' \in BOOLEAN
  <2>1. /\ faults \in 0..MaxFaults /\ faults' \in 0..MaxFaults /\ MaxFaults \in Nat
        /\ stuck \in BOOLEAN /\ stuck' \in BOOLEAN
    BY MaxFaultsAssumption DEF BaseInv, TypeOK
  <2> QED BY <2>1
<1>2. CASE faults = 0
  BY <1>1, <1>2 DEF Disturbed
<1>3. CASE faults = 1 /\ ~stuck
  <2>1. Disturbed = "once" /\ faults' # 0
    BY <1>1, <1>3 DEF Disturbed
  <2>2. Disturbed' \in {"once", "badly"}
    BY <2>1 DEF Disturbed
  <2> QED BY <2>1, <2>2
<1>4. CASE faults # 0 /\ ~(faults = 1 /\ ~stuck)
  <2>1. Disturbed = "badly"
    BY <1>4 DEF Disturbed
  <2>2. faults' # 0 /\ ~(faults' = 1 /\ ~stuck')
    BY <1>1, <1>4
  <2>3. Disturbed' = "badly"
    BY <2>2 DEF Disturbed
  <2> QED BY <2>1, <2>3
<1> QED BY <1>2, <1>3, <1>4

(* What the disturbances so far allow                                      *)
LEMMA DisturbedIs ==
    ASSUME BaseInv
    PROVE  /\ Disturbed \in {"no", "once", "badly"}
           /\ Disturbed = "no" => faults = 0
           /\ Disturbed = "once" => faults <= 1 /\ ~stuck
<1>1. faults \in Nat
  BY MaxFaultsAssumption DEF BaseInv, TypeOK
<1> QED BY <1>1 DEF Disturbed

(* The steps that find nothing: the wire may be disturbed.                  *)
LEMMA QuietStep ==
    ASSUME BaseInv, BaseInv', UNCHANGED <<devices, found>>, Ended' <=> Ended,
           faults <= faults', stuck => stuck'
    PROVE  [Enumeration!Next]_Enumeration!vars
<1>1. Ended' = Ended
  BY DEF Ended
<1>2. CASE Disturbed' = Disturbed
  BY <1>1, <1>2 DEF Enumeration!vars, Ended
<1>3. CASE Disturbed # "badly" /\ Disturbed' \in {"once", "badly"} \ {Disturbed}
  <2>1. Enumeration!Disturb
    BY <1>1, <1>3 DEF Enumeration!Disturb, Ended
  <2> QED BY <2>1 DEF Enumeration!Next
<1> QED BY <1>2, <1>3, DisturbedStep

(* KeepCode maps to Find, or to End.                                       *)
LEMMA KeepCodeMaps ==
    ASSUME BaseInv, SoundInv, EnumInv, KeepCode
    PROVE  [Enumeration!Next]_Enumeration!vars
<1>1. /\ at = "searched" /\ ~InVerify /\ ~InVerify'
      /\ at' = IF ~loc.isFound THEN "verify"
               ELSE IF Len(found) = Quantity THEN "overrun" ELSE "search"
      /\ found' = IF at' = "search" THEN Append(found, st.rom) ELSE found
      /\ UNCHANGED <<devices, faults, stuck, answer>>
  BY DEF KeepCode, Goto, InVerify, wireVars
<1>2. ~Ended
  BY <1>1 DEF Ended, BaseInv, CallerInv
<1>3. Disturbed' = Disturbed
  BY <1>1 DEF Disturbed
<1>4. CASE at' = "overrun"
  <2>1. ~Ended'
    BY <1>1, <1>2, <1>4 DEF Ended
  <2> QED BY <1>1, <1>2, <1>3, <1>4, <2>1 DEF Enumeration!vars, Ended
<1>5. CASE at' = "verify"
  <2>1. Ended' = TRUE /\ Ended = FALSE
    BY <1>2, <1>5 DEF Ended
  <2>2. Disturbed # "no" \/ Remaining = {}
    <3>1. Disturbed = "no" => Remaining = {}
      BY <1>1, <1>5, DisturbedIs DEF EnumInv, FoundInv
    <3> QED BY <3>1
  <2>3. Enumeration!End
    BY <1>1, <1>3, <1>5, <2>1, <2>2 DEF Enumeration!End, Ended, Remaining
  <2> QED BY <2>3 DEF Enumeration!Next
<1>6. CASE at' = "search"
  <2>1. Ended' = FALSE /\ Ended = FALSE
    BY <1>1, <1>2, <1>6 DEF Ended
  <2>2. loc.isFound /\ found' = Append(found, st.rom)
    BY <1>1, <1>6
  <2>3. st.rom \in Enumeration!Findable
    <3>1. CASE Disturbed = "no"
      <4>1. st.rom = NextCode /\ Remaining # {}
        BY <1>1, <2>2, <3>1, DisturbedIs DEF EnumInv, FoundInv
      <4>2. st.rom \in Remaining
        BY <4>1, NextCodeIs
      <4>3. st.rom \in {d \in Remaining : d = NextCode}
        BY <4>1, <4>2
      <4>4. Enumeration!Findable = {d \in Remaining : d = NextCode}
        BY <3>1 DEF Enumeration!Findable, Remaining, NextCode
      <4> QED BY <4>3, <4>4
    <3>2. CASE Disturbed = "once"
      <4>1. st.rom \in devices
        BY <1>1, <2>2, <3>2, DisturbedIs DEF SoundInv
      <4>2. Enumeration!Findable = devices
        BY <3>2 DEF Enumeration!Findable
      <4> QED BY <4>1, <4>2
    <3>3. CASE Disturbed = "badly"
      <4>1. Enumeration!Findable = Codes
        BY <3>3 DEF Enumeration!Findable
      <4> QED BY <4>1 DEF BaseInv, TypeOK
    <3> QED BY <3>1, <3>2, <3>3, DisturbedIs
  <2>4. Enumeration!Find
    BY <1>1, <1>3, <2>1, <2>2, <2>3 DEF Enumeration!Find, Ended
  <2> QED BY <2>4 DEF Enumeration!Next
<1> QED BY <1>1, <1>4, <1>5, <1>6

(* The faults only grow, and the wire stays low once it is held.            *)
LEMMA FaultsGrow ==
    ASSUME BaseInv, DriverInv, [Next]_vars, ~KeepCode
    PROVE  UNCHANGED <<devices, found>> /\ faults <= faults' /\ (stuck => stuck')
<1>1. faults <= faults
  BY MaxFaultsAssumption DEF BaseInv, TypeOK
<1>2. ASSUME NEW op \in {"reset", "read"}, NEW n \in Nat, NEW w, CallDriver(op, n, w)
      PROVE  devices' = devices /\ faults <= faults' /\ (stuck => stuck')
  BY <1>2, CallBegins
<1>3. CASE Initialize
  <2>1. faults <= faults'
    BY <1>3, InitializeBase
  <2> QED BY <1>3, <2>1 DEF Initialize
<1>4. CASE SearchReset
  <2>1. CASE st.lastDevice
    BY <1>1, <1>4, <2>1 DEF SearchReset, wireVars
  <2>2. CASE ~st.lastDevice
    <3>1. CallDriver("reset", 0, ResetWave(devices # {})) /\ found' = found
      BY <1>4, <2>2 DEF SearchReset, Reset
    <3> QED BY <1>2, <3>1
  <2> QED BY <2>1, <2>2
<1>5. CASE ReadId \/ ReadComplement \/ ReadByte \/ ReadRomReset
  <2>0. PICK op \in {"reset", "read"}, n \in Nat : \E w : CallDriver(op, n, w)
    BY <1>5, CodeBitsNat DEF ReadId, ReadComplement, ReadByte, ReadRomReset, Reset
  <2>1. PICK w : CallDriver(op, n, w)
    BY <2>0
  <2> QED BY <1>2, <1>5, <2>1 DEF ReadId, ReadComplement, ReadByte, ReadRomReset
<1>6. CASE SearchPresent \/ IdRead \/ ComplementRead \/ Decide \/ SearchEnd \/ VerifyRom
           \/ ReadRomPresent \/ ByteRead \/ CheckRom \/ Panic
           \/ (DriverStep /\ UNCHANGED <<wireVars, at, st, loc, found, answer>>)
           \/ UNCHANGED vars
  <2>1. UNCHANGED <<devices, found, faults, stuck>>
    <3>1. CASE SearchPresent \/ IdRead \/ ComplementRead
      BY <3>1 DEF SearchPresent, IdRead, ComplementRead, wireVars
    <3>2. CASE Decide \/ SearchEnd \/ VerifyRom
      BY <3>2 DEF Decide, SearchEnd, VerifyRom, wireVars
    <3>3. CASE ReadRomPresent \/ ByteRead \/ CheckRom \/ Panic
      BY <3>3 DEF ReadRomPresent, ByteRead, CheckRom, Panic, wireVars
    <3>4. CASE (DriverStep /\ UNCHANGED <<wireVars, at, st, loc, found, answer>>) \/ UNCHANGED vars
      BY <3>4 DEF vars, wireVars
    <3> QED BY <1>6, <3>1, <3>2, <3>3, <3>4
  <2> QED BY <1>1, <2>1
<1> QED BY <1>3, <1>4, <1>5, <1>6 DEF Next, Search, ReadRom

(* Only KeepCode ends the enumeration.                                     *)
LEMMA EndedStays ==
    ASSUME BaseInv, [Next]_vars, ~KeepCode PROVE Ended' <=> Ended
<1>1. CASE Initialize
  BY <1>1 DEF Initialize, Goto, Ended, InVerify
<1>2. CASE SearchReset
  <2>1. CASE at = "verify"
    <3>1. at' = "verify_present"
      BY <1>2, <2>1 DEF SearchReset, Goto, BaseInv, CallerInv
    <3> QED BY <2>1, <3>1 DEF Ended
  <2>2. CASE at = "search"
    <3>1. at' \in {"searched", "present"} /\ answer' = answer
      BY <1>2, <2>2 DEF SearchReset, Goto
    <3> QED BY <2>2, <3>1 DEF Ended, InVerify
  <2> QED BY <1>2, <2>1, <2>2 DEF SearchReset
<1>3. CASE SearchPresent
  <2>1. CASE at = "verify_present"
    BY <1>3, <2>1 DEF SearchPresent, Ended, InVerify
  <2>2. CASE at = "present"
    <3>1. at' \in {"searched", "id"} /\ answer' = answer
      BY <1>3, <2>2 DEF SearchPresent, Goto
    <3> QED BY <2>2, <3>1 DEF Ended, InVerify
  <2> QED BY <1>3, <2>1, <2>2 DEF SearchPresent
<1>4. CASE ReadId \/ IdRead \/ ReadComplement \/ ComplementRead \/ Decide \/ SearchEnd
  <2>1. at \in Searching /\ at' \in Searching \union {"searched"} /\ answer' = answer
    BY <1>4 DEF ReadId, IdRead, ReadComplement, ComplementRead, Decide, SearchEnd, Goto, Searching
  <2> QED BY <2>1 DEF Ended, InVerify, Searching
<1>5. CASE VerifyRom
  BY <1>5 DEF VerifyRom, Goto, Ended
<1>6. CASE ReadRom
  <2>1. /\ at \in RomReading
        /\ at' \in RomReading \union {"done"}
        /\ answer' \in {answer, "DEVICE_NOT_RESPONDING", "OK", "CRC_FAILED"}
    BY <1>6 DEF ReadRom, ReadRomReset, ReadRomPresent, ReadByte, ByteRead, CheckRom, Goto, RomReading
  <2>2. answer = "none"
    BY <2>1 DEF BaseInv, CallerInv, RomReading, Searching
  <2> QED BY <2>1, <2>2 DEF Ended, InVerify, RomReading
<1>7. CASE Panic \/ (DriverStep /\ UNCHANGED <<wireVars, at, st, loc, found, answer>>)
           \/ UNCHANGED vars
  BY <1>7 DEF Panic, vars, Ended, InVerify
<1> QED BY <1>1, <1>2, <1>3, <1>4, <1>5, <1>6, <1>7 DEF Next, Search

EInv == IInv /\ EnumInv

(* The invariant of the enumeration holds at first.                        *)
LEMMA InitiallyEnum == Init => EnumInv
<1> SUFFICES ASSUME Init PROVE EnumInv
  OBVIOUS
<1>1. at = "initialize" /\ found = <<>> /\ st = NoState
  BY DEF Init
<1>2. SegmentInv
  BY <1>1, RemainingIs DEF SegmentInv
<1> QED BY <1>1, <1>2, NoStateType DEF EnumInv, StateInv, PathInv, FoundInv, Searching

(* The search finds each device of the bus once, in order and all of them,  *)
(* while nothing disturbs the wire, and makes none up after one disturbance *)
(* that leaves the wire free: for every bus and every length of the codes.  *)
THEOREM EnumerationCorrect == Spec => EnumerationKept
<1>1. Init => EInv /\ Enumeration!Init
  <2> SUFFICES ASSUME Init PROVE EInv /\ Enumeration!Init
    OBVIOUS
  <2>1. EInv
    BY Initially, InitiallyEnum DEF EInv
  <2>2. found = <<>> /\ Ended = FALSE /\ Disturbed = "no"
    BY DEF Init, Ended, InVerify, Disturbed
  <2> QED BY <2>1, <2>2 DEF Enumeration!Init, Ended
<1>2. EInv /\ [Next]_vars => EInv'
  BY Inductive, EnumStep DEF EInv, IInv
<1>3. EInv /\ EInv' /\ [Next]_vars => [Enumeration!Next]_Enumeration!vars
  <2> SUFFICES ASSUME EInv, EInv', [Next]_vars PROVE [Enumeration!Next]_Enumeration!vars
    OBVIOUS
  <2>1. BaseInv /\ BaseInv' /\ DriverInv /\ SoundInv /\ EnumInv
    BY DEF EInv, IInv
  <2>2. CASE KeepCode
    BY <2>1, <2>2, KeepCodeMaps
  <2>3. CASE ~KeepCode
    BY <2>1, <2>3, FaultsGrow, EndedStays, QuietStep
  <2> QED BY <2>2, <2>3
<1> QED BY <1>1, <1>2, <1>3, PTL DEF Spec, EnumerationKept

====
