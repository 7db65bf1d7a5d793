---- MODULE CJsonProofs ----
(***************************************************************************)
(* What the runs of MCJson and MCJsonLists check on a few items, proved    *)
(* for any number of them, for every name and wherever malloc fails: the   *)
(* items of cJSON.c stay a forest, are linked both ways, own each string   *)
(* once, and leak only the references that AddItemReferenceToObject loses. *)
(* The printer stays inside its buffer for every document, every size of   *)
(* the buffers and every INT_MAX.                                          *)
(***************************************************************************)
EXTENDS CJsonItems, PrintBuffer, FiniteSetTheorems, SequenceTheorems,
        NaturalsInduction, WellFoundedInduction, TLAPS

-----------------------------------------------------------------------------
(* Numbers and what can be reached.                                        *)

(* A set of numbers that is not empty has a least one.                     *)
LEMMA LeastNatural ==
    ASSUME NEW S \in SUBSET Nat, S # {}
    PROVE  \E n \in S : \A i \in S : n <= i
<1> DEFINE R == {p \in Nat \X Nat : p[1] < p[2]}
<1>1. IsWellFoundedOn(R, Nat)
  BY NatLessThanWellFounded, Zenon DEF OpToRel
<1>2. \E x \in S : \A y \in S : <<y, x>> \notin R
  <2> HIDE DEF R
  <2> QED BY <1>1, WFMin
<1>3. PICK x \in S : \A y \in S : <<y, x>> \notin R
  BY <1>2
<1>4. ASSUME NEW i \in S PROVE x <= i
  <2>1. i \in Nat /\ x \in Nat /\ <<i, x>> \in Nat \X Nat
    OBVIOUS
  <2>2. i < x => <<i, x>> \in R
    BY <2>1
  <2> QED BY <1>3, <2>1, <2>2
<1> QED BY <1>4

(* Induction, for a set of numbers.                                        *)
LEMMA Induct ==
    ASSUME NEW S, 0 \in S, \A n \in Nat : n \in S => n + 1 \in S
    PROVE  Nat \subseteq S
<1> SUFFICES ASSUME Nat \ S # {} PROVE FALSE
  OBVIOUS
<1>1. PICK n \in Nat \ S : \A i \in Nat \ S : n <= i
  BY LeastNatural
<1>2. n # 0 /\ n - 1 \in Nat /\ n - 1 + 1 = n /\ ~(n <= n - 1)
  BY <1>1
<1>3. n - 1 \in S
  BY <1>1, <1>2
<1> QED BY <1>2, <1>3

(* Reach(E, a) is the least set with a in it that the edges do not leave,  *)
(* if there is a set of nodes that they do not leave.                      *)
LEMMA ReachLeast ==
    ASSUME NEW E, IsFiniteSet(DOMAIN E), NEW T \in SUBSET DOMAIN E, NEW a \in T,
           \A x \in T : E[x] \subseteq T
    PROVE  /\ a \in Reach(E, a)
           /\ Reach(E, a) \subseteq T
           /\ \A x \in Reach(E, a) : E[x] \subseteq Reach(E, a)
           /\ \A S : a \in S /\ (\A x \in S \cap T : E[x] \subseteq S)
                        => Reach(E, a) \subseteq S
<1> DEFINE c == Cardinality(DOMAIN E)
           Next1(Z) == Z \cup UNION {E[x] : x \in Z}
           Fresh(z) == (UNION {E[x] : x \in z.new}) \ z.all
           More(z) == [all |-> z.all \cup Fresh(z), new |-> Fresh(z)]
           Step(g, n) == [i \in 0..n |-> IF i = 0 THEN [all |-> {a}, new |-> {a}]
                                                 ELSE More(g[i - 1])]
           q == CHOOSE g : g = Step(g, c)
           r == [n \in 0..c |-> q[n].all]
           P == {n \in Nat : \E g : g = Step(g, n)}
<1>c. c \in Nat
  BY FS_CardinalityType
<1>1. Reach(E, a) = q[c].all
  BY DEF Reach
<1>2. Nat \subseteq P
  <2>1. 0 \in P
    <3>1. [i \in 0..0 |-> [all |-> {a}, new |-> {a}]] = Step([i \in 0..0 |-> [all |-> {a}, new |-> {a}]], 0)
      OBVIOUS
    <3> QED BY <3>1
  <2>2. ASSUME NEW n \in Nat, n \in P PROVE n + 1 \in P
    <3>1. PICK g : g = Step(g, n)
      BY <2>2
    <3> DEFINE h == [i \in 0..n + 1 |-> IF i <= n THEN g[i] ELSE More(g[n])]
    <3>2. ASSUME NEW i \in 0..n + 1 PROVE h[i] = Step(h, n + 1)[i]
      <4>1. CASE i = 0
        <5>1. i <= n /\ 0 \in 0..n /\ 0 \in 0..n + 1
          BY <4>1
        <5>2. h[i] = g[0]
          BY <4>1, <5>1
        <5>3. g[0] = [all |-> {a}, new |-> {a}]
          BY <3>1, <5>1
        <5> QED BY <4>1, <5>2, <5>3
      <4>2. CASE i # 0 /\ i <= n
        <5>1. i \in 0..n /\ i - 1 \in 0..n + 1 /\ i - 1 <= n
          BY <4>2
        <5>2. h[i] = g[i] /\ h[i - 1] = g[i - 1]
          BY <5>1
        <5>3. g[i] = More(g[i - 1])
          BY <3>1, <4>2, <5>1
        <5> QED BY <5>2, <5>3, <4>2
      <4>3. CASE i = n + 1
        <5>1. i - 1 = n /\ n \in 0..n + 1 /\ ~(i <= n) /\ i # 0
          BY <4>3
        <5>2. h[i] = More(g[n]) /\ h[i - 1] = g[n]
          BY <5>1
        <5> QED BY <5>1, <5>2
      <4> QED BY <4>1, <4>2, <4>3
    <3>3. h = Step(h, n + 1)
      BY <3>2
    <3> HIDE DEF h, Step
    <3>4. n + 1 \in Nat
      OBVIOUS
    <3> QED BY <3>3, <3>4
  <2> HIDE DEF P
  <2> QED BY <2>1, <2>2, Induct
<1>3. q = Step(q, c)
  <2>1. PICK g : g = Step(g, c)
    BY <1>2, <1>c
  <2> HIDE DEF Step
  <2> QED BY <2>1, Zenon
<1> HIDE DEF q, c, P
<1>4a. /\ q[0] = [all |-> {a}, new |-> {a}]
       /\ \A n \in 0..c : n # 0 => q[n] = More(q[n - 1])
  <2>1. 0 \in 0..c
    BY <1>c
  <2>2. \A n \in 0..c : q[n] = Step(q, c)[n]
    <3> HIDE DEF Step
    <3> QED BY <1>3, Zenon
  <2> QED BY <2>1, <2>2
<1>4b. \A n \in Nat : n + 1 <= c => q[n + 1] = More(q[n])
  <2> SUFFICES ASSUME NEW n \in Nat, n + 1 <= c PROVE q[n + 1] = More(q[n])
    OBVIOUS
  <2>1. n + 1 \in 0..c /\ n + 1 # 0 /\ n + 1 - 1 = n
    BY <1>c
  <2> QED BY <2>1, <1>4a
<1> HIDE DEF Step
<1> DEFINE Ahead(z) == /\ z.new \subseteq z.all
                       /\ \A x \in z.all \ z.new : E[x] \subseteq z.all
           U == {n \in Nat : n <= c => Ahead(q[n])}
<1>4c. Nat \subseteq U
  <2>1. 0 \in U
    BY <1>4a
  <2>2. ASSUME NEW n \in Nat, n \in U PROVE n + 1 \in U
    <3> SUFFICES ASSUME n + 1 <= c PROVE Ahead(q[n + 1])
      OBVIOUS
    <3>1. Ahead(q[n])
      BY <2>2, <1>c
    <3>2. /\ q[n + 1].all = q[n].all \cup Fresh(q[n])
          /\ q[n + 1].new = Fresh(q[n])
      <4>1. q[n + 1] = More(q[n])
        BY <1>4b
      <4> HIDE DEF Fresh
      <4> QED BY <4>1
    <3>3. ASSUME NEW x \in q[n + 1].all \ q[n + 1].new PROVE E[x] \subseteq q[n + 1].all
      <4>1. x \in q[n].all
        BY <3>2, <3>3
      <4>2. CASE x \in q[n].new
        <5>1. \A y \in E[x] : y \in UNION {E[w] : w \in q[n].new}
          BY <4>2
        <5>2. ASSUME NEW y \in E[x], y \notin q[n].all PROVE y \in Fresh(q[n])
          <6>1. y \in UNION {E[w] : w \in q[n].new}
            BY <5>1
          <6> QED BY <5>2, <6>1
        <5> QED BY <3>2, <5>2
      <4>3. CASE x \notin q[n].new
        BY <3>1, <3>2, <4>1, <4>3
      <4> QED BY <4>2, <4>3
    <3> QED BY <3>2, <3>3
  <2> HIDE DEF U
  <2> QED BY <2>1, <2>2, Induct
<1>4. r[0] = {a} /\ Reach(E, a) = r[c]
  BY <1>1, <1>4a, <1>c
<1>5. \A n \in Nat : n + 1 <= c => r[n + 1] = Next1(r[n])
  <2> SUFFICES ASSUME NEW n \in Nat, n + 1 <= c PROVE r[n + 1] = Next1(r[n])
    OBVIOUS
  <2>1. n \in 0..c /\ n + 1 \in 0..c /\ n <= c
    BY <1>c
  <2>2. Ahead(q[n])
    BY <1>4c, <2>1
  <2>3. r[n] = q[n].all /\ r[n + 1] = q[n].all \cup Fresh(q[n])
    <3>1. q[n + 1] = More(q[n])
      BY <1>4b, <2>1
    <3> HIDE DEF Fresh
    <3> QED BY <2>1, <3>1
  <2>4. ASSUME NEW y \in Next1(r[n]) PROVE y \in r[n + 1]
    <3>1. CASE y \in q[n].all
      BY <2>3, <3>1
    <3>2. CASE y \notin q[n].all
      <4>1. PICK x \in q[n].all : y \in E[x]
        BY <2>3, <2>4, <3>2
      <4>2. x \in q[n].new
        BY <2>2, <3>2, <4>1
      <4>3. y \in Fresh(q[n])
        <5>1. y \in UNION {E[w] : w \in q[n].new}
          BY <4>1, <4>2
        <5> QED BY <3>2, <5>1
      <4> QED BY <2>3, <4>3
    <3> QED BY <3>1, <3>2
  <2>5. ASSUME NEW y \in r[n + 1] PROVE y \in Next1(r[n])
    <3>1. CASE y \in q[n].all
      BY <2>3, <3>1
    <3>2. CASE y \in Fresh(q[n])
      <4>1. PICK x \in q[n].new : y \in E[x]
        BY <3>2
      <4>2. x \in r[n]
        BY <2>2, <2>3, <4>1
      <4> QED BY <4>1, <4>2
    <3> QED BY <2>3, <2>5, <3>1, <3>2
  <2> QED BY <2>4, <2>5
<1> HIDE DEF r
<1>6. ASSUME NEW S, a \in S, \A x \in S \cap T : E[x] \subseteq S
      PROVE  \A n \in Nat : n <= c => r[n] \subseteq S \cap T
  <2> DEFINE Q == {n \in Nat : n <= c => r[n] \subseteq S \cap T}
  <2>1. 0 \in Q
    BY <1>4, <1>6
  <2>2. ASSUME NEW n \in Nat, n \in Q PROVE n + 1 \in Q
    <3> SUFFICES ASSUME n + 1 <= c PROVE r[n + 1] \subseteq S \cap T
      OBVIOUS
    <3>1. r[n] \subseteq S \cap T
      BY <2>2, <1>c
    <3>2. r[n + 1] = Next1(r[n])
      BY <1>5
    <3> QED BY <3>1, <3>2, <1>6
  <2> HIDE DEF Q
  <2>3. Nat \subseteq Q
    BY <2>1, <2>2, Induct
  <2> QED BY <2>3 DEF Q
<1>7. \A n \in Nat : n <= c => r[n] \subseteq T
  <2>1. \A x \in T \cap T : E[x] \subseteq T
    OBVIOUS
  <2> HIDE DEF Next1
  <2>2. \A n \in Nat : n <= c => r[n] \subseteq T \cap T
    BY <1>6, <2>1
  <2> QED BY <2>2
<1> DEFINE Shut(n) == \A x \in r[n] : E[x] \subseteq r[n]
           V == {n \in Nat : n <= c => /\ a \in r[n]
                                       /\ Shut(n) \/ Cardinality(r[n]) >= n + 1}
<1>8. Nat \subseteq V
  <2>1. 0 \in V
    <3>1. Cardinality({a}) = 1
      BY FS_Singleton
    <3>2. Cardinality(r[0]) >= 0 + 1 /\ a \in r[0]
      BY <1>4, <3>1
    <3> QED BY <3>2
  <2>2. ASSUME NEW n \in Nat, n \in V PROVE n + 1 \in V
    <3> SUFFICES ASSUME n + 1 <= c
                 PROVE  a \in r[n + 1] /\ (Shut(n + 1) \/ Cardinality(r[n + 1]) >= n + 1 + 1)
      OBVIOUS
    <3>1. r[n + 1] = Next1(r[n])
      BY <1>5
    <3>2. a \in r[n] /\ (Shut(n) \/ Cardinality(r[n]) >= n + 1)
      BY <2>2, <1>c
    <3>3. CASE Shut(n)
      <4>1. r[n + 1] = r[n]
        BY <3>1, <3>3
      <4> QED BY <3>2, <3>3, <4>1
    <3>4. CASE ~Shut(n)
      <4>0. PICK x \in r[n] : ~(E[x] \subseteq r[n])
        BY <3>4
      <4>1. PICK y \in E[x] : y \notin r[n]
        BY <4>0
      <4>2. r[n] \cup {y} \subseteq r[n + 1] /\ r[n + 1] \subseteq DOMAIN E
        BY <3>1, <4>0, <4>1, <1>7, <1>c
      <4>3. IsFiniteSet(r[n + 1]) /\ IsFiniteSet(r[n])
        BY <4>2, FS_Subset
      <4>4. Cardinality(r[n] \cup {y}) = Cardinality(r[n]) + 1
        <5>1. \A Z, z : IsFiniteSet(Z) =>
                 Cardinality(Z \cup {z}) =
                    IF z \in Z THEN Cardinality(Z) ELSE Cardinality(Z) + 1
          BY FS_AddElement
        <5> QED BY <4>1, <4>3, <5>1
      <4>5. Cardinality(r[n] \cup {y}) <= Cardinality(r[n + 1])
        BY <4>2, <4>3, FS_Subset
      <4>6. Cardinality(r[n]) \in Nat /\ Cardinality(r[n + 1]) \in Nat
        BY <4>3, FS_CardinalityType
      <4> QED BY <3>2, <3>4, <4>2, <4>4, <4>5, <4>6
    <3> QED BY <3>3, <3>4
  <2> HIDE DEF V
  <2> QED BY <2>1, <2>2, Induct
<1>9. Shut(c) /\ a \in r[c]
  <2>1. a \in r[c] /\ (Shut(c) \/ Cardinality(r[c]) >= c + 1)
    BY <1>8, <1>c
  <2>2. r[c] \subseteq DOMAIN E
    BY <1>7, <1>c
  <2>3. Cardinality(r[c]) \in Nat /\ Cardinality(r[c]) <= c
    BY <2>2, FS_Subset, FS_CardinalityType DEF c
  <2> QED BY <2>1, <2>3, <1>c
<1>10. ASSUME NEW S, a \in S, \A x \in S \cap T : E[x] \subseteq S PROVE r[c] \subseteq S
  BY <1>6, <1>10, <1>c
<1> QED BY <1>4, <1>7, <1>9, <1>10, <1>c

(* InsertAt and RemoveAt by their elements.                                *)
LEMMA InsertedAt ==
    ASSUME NEW S, NEW s \in Seq(S), NEW e \in S, NEW w \in 1..Len(s) + 1
    PROVE  /\ InsertAt(s, w, e) \in Seq(S)
           /\ DOMAIN InsertAt(s, w, e) = 1..Len(s) + 1
           /\ Len(InsertAt(s, w, e)) = Len(s) + 1
           /\ \A j \in 1..Len(s) + 1 :
                 InsertAt(s, w, e)[j] = IF j < w THEN s[j]
                                        ELSE IF j = w THEN e ELSE s[j - 1]
<1> DEFINE a == SubSeq(s, 1, w - 1)
           b == SubSeq(s, w, Len(s))
           d == <<e>>
<1>1. a \in Seq(S) /\ Len(a) = w - 1 /\ \A j \in 1..w - 1 : a[j] = s[j]
  OBVIOUS
<1>2. b \in Seq(S) /\ Len(b) = Len(s) - w + 1
        /\ \A j \in 1..Len(s) - w + 1 : b[j] = s[j + w - 1]
  OBVIOUS
<1>3. d \in Seq(S) /\ Len(d) = 1 /\ d[1] = e
  OBVIOUS
<1>4. InsertAt(s, w, e) = (a \o d) \o b
  BY DEF InsertAt
<1>5. Len(s) \in Nat /\ w \in Nat /\ 1 <= w /\ w <= Len(s) + 1
  OBVIOUS
<1> HIDE DEF a, b, d
<1> DEFINE c == a \o d
<1>6. c \in Seq(S) /\ Len(c) = w
        /\ \A j \in 1..w : c[j] = IF j < w THEN s[j] ELSE e
  <2>1. c \in Seq(S) /\ Len(c) = Len(a) + Len(d)
          /\ \A j \in 1..Len(a) + Len(d) : c[j] = IF j <= Len(a) THEN a[j] ELSE d[j - Len(a)]
    BY <1>1, <1>3, ConcatProperties, Zenon
  <2> HIDE DEF c
  <2> QED BY <1>1, <1>3, <1>5, <2>1
<1> HIDE DEF c
<1>7. c \o b \in Seq(S) /\ Len(c \o b) = w + (Len(s) - w + 1)
        /\ \A j \in 1..w + (Len(s) - w + 1) :
               (c \o b)[j] = IF j <= w THEN c[j] ELSE b[j - w]
  BY <1>2, <1>6, ConcatProperties
<1> DEFINE z == c \o b
<1>8. InsertAt(s, w, e) = z
  BY <1>4 DEF c
<1> HIDE DEF z
<1>9. z \in Seq(S) /\ Len(z) = Len(s) + 1
        /\ \A j \in 1..Len(s) + 1 : z[j] = IF j <= w THEN c[j] ELSE b[j - w]
  BY <1>7, <1>5 DEF z
<1>10. ASSUME NEW j \in 1..Len(s) + 1
       PROVE  z[j] = IF j < w THEN s[j] ELSE IF j = w THEN e ELSE s[j - 1]
  <2>1. CASE j <= w
    BY <1>5, <1>6, <1>9, <2>1
  <2>2. CASE j > w
    <3>1. j - w \in 1..Len(s) - w + 1 /\ j - w + w - 1 = j - 1 /\ ~(j <= w)
      BY <1>5, <2>2
    <3> QED BY <1>2, <1>5, <1>9, <2>2, <3>1
  <2> QED BY <1>5, <2>1, <2>2
<1> QED BY <1>8, <1>9, <1>10

(* The elements of a sequence that one was removed from.                   *)
LEMMA RemovedAt ==
    ASSUME NEW S, NEW s \in Seq(S), NEW w \in 1..Len(s)
    PROVE  /\ RemoveAt(s, w) \in Seq(S)
           /\ DOMAIN RemoveAt(s, w) = 1..Len(s) - 1
           /\ Len(RemoveAt(s, w)) = Len(s) - 1
           /\ \A j \in 1..Len(s) - 1 :
                 RemoveAt(s, w)[j] = IF j < w THEN s[j] ELSE s[j + 1]
<1> DEFINE a == SubSeq(s, 1, w - 1)
           b == SubSeq(s, w + 1, Len(s))
<1>1. a \in Seq(S) /\ Len(a) = w - 1 /\ \A j \in 1..w - 1 : a[j] = s[j]
  OBVIOUS
<1>2. b \in Seq(S) /\ Len(b) = Len(s) - w
        /\ \A j \in 1..Len(s) - w : b[j] = s[j + w]
  OBVIOUS
<1>3. Len(s) \in Nat /\ w \in Nat /\ 1 <= w /\ w <= Len(s)
  OBVIOUS
<1> HIDE DEF a, b
<1>4. a \o b \in Seq(S) /\ Len(a \o b) = Len(a) + Len(b)
        /\ \A j \in 1..Len(a) + Len(b) :
               (a \o b)[j] = IF j <= Len(a) THEN a[j] ELSE b[j - Len(a)]
  BY <1>1, <1>2, ConcatProperties, Zenon
<1> DEFINE z == a \o b
<1>5. RemoveAt(s, w) = z
  BY DEF RemoveAt, a, b
<1> HIDE DEF z
<1>6. z \in Seq(S) /\ Len(z) = Len(s) - 1
        /\ \A j \in 1..Len(s) - 1 : z[j] = IF j <= w - 1 THEN a[j] ELSE b[j - (w - 1)]
  BY <1>1, <1>2, <1>3, <1>4 DEF z
<1>7. ASSUME NEW j \in 1..Len(s) - 1
      PROVE  z[j] = IF j < w THEN s[j] ELSE s[j + 1]
  <2>1. CASE j < w
    BY <1>1, <1>3, <1>6, <2>1
  <2>2. CASE j >= w
    <3>1. j - (w - 1) \in 1..Len(s) - w /\ j - (w - 1) + w = j + 1 /\ ~(j <= w - 1)
      BY <1>3, <2>2
    <3> QED BY <1>2, <1>3, <1>6, <2>2, <3>1
  <2> QED BY <1>3, <2>1, <2>2
<1>8. DOMAIN z = 1..Len(s) - 1
  BY <1>6
<1>9. \A j \in 1..Len(s) - 1 : z[j] = IF j < w THEN s[j] ELSE s[j + 1]
  BY <1>7
<1> QED BY <1>5, <1>6, <1>8, <1>9, Zenon

-----------------------------------------------------------------------------
(* Forests.                                                                *)

(* The forest has the operators of this module under names of its own.     *)
LEMMA ForestNames ==
    /\ \A s : Forest!ToSet(s) = ToSet(s)
    /\ \A E, a : Forest!Reach(E, a) = Reach(E, a)
    /\ \A s, w, e : Forest!InsertAt(s, w, e) = InsertAt(s, w, e)
    /\ \A s, w : Forest!RemoveAt(s, w) = RemoveAt(s, w)
<1>1. \A s : Forest!ToSet(s) = ToSet(s)
  BY DEF Forest!ToSet, ToSet
<1>2. \A E, a : Forest!Reach(E, a) = Reach(E, a)
  <2>1. \A S : Forest!Cardinality(S) = Cardinality(S)
    BY DEF Forest!Cardinality, Cardinality
  <2> QED BY <2>1, Zenon DEF Forest!Reach, Reach
<1>3. \A s, w, e : Forest!InsertAt(s, w, e) = InsertAt(s, w, e)
  BY DEF Forest!InsertAt, InsertAt
<1>4. \A s, w : Forest!RemoveAt(s, w) = RemoveAt(s, w)
  BY DEF Forest!RemoveAt, RemoveAt
<1> QED BY <1>1, <1>2, <1>3, <1>4

(* The children of the items of S are in S.                                *)
Inside(f, S) == \A x \in S \cap DOMAIN f : \A i \in DOMAIN f[x] : f[x][i] \in S

IsListing(f) == f \in [DOMAIN f -> Seq(DOMAIN f)] /\ IsFiniteSet(DOMAIN f)

OnePlace(f) == \A x, y \in DOMAIN f : \A i \in DOMAIN f[x], j \in DOMAIN f[y] :
                  f[x][i] = f[y][j] => x = y /\ i = j

(* A tree is the least set with its root in it that the children do not    *)
(* leave.                                                                  *)
LEMMA TreeLeast ==
    ASSUME NEW f, IsListing(f), NEW a \in DOMAIN f
    PROVE  /\ a \in Forest!Tree(f, a)
           /\ Forest!Tree(f, a) \subseteq DOMAIN f
           /\ Inside(f, Forest!Tree(f, a))
           /\ \A S : a \in S /\ Inside(f, S) => Forest!Tree(f, a) \subseteq S
<1> DEFINE E == [j \in DOMAIN f |-> ToSet(f[j])]
<1>1. Forest!Tree(f, a) = Reach(E, a)
  <2>1. E = [j \in DOMAIN f |-> Forest!ToSet(f[j])]
    BY ForestNames
  <2> HIDE DEF E
  <2> QED BY <2>1, ForestNames DEF Forest!Tree
<1>2. \A x \in DOMAIN f : E[x] = {f[x][i] : i \in DOMAIN f[x]} /\ E[x] \subseteq DOMAIN f
  BY DEF ToSet, IsListing
<1>3. DOMAIN E = DOMAIN f
  OBVIOUS
<1> HIDE DEF E
<1>4. /\ a \in Reach(E, a)
      /\ Reach(E, a) \subseteq DOMAIN f
      /\ \A x \in Reach(E, a) : E[x] \subseteq Reach(E, a)
      /\ \A S : a \in S /\ (\A x \in S \cap DOMAIN f : E[x] \subseteq S)
                        => Reach(E, a) \subseteq S
  BY <1>2, <1>3, ReachLeast DEF IsListing
<1>5. \A S : Inside(f, S) => \A x \in S \cap DOMAIN f : E[x] \subseteq S
  BY <1>2 DEF Inside
<1>6. Inside(f, Reach(E, a))
  BY <1>2, <1>4 DEF Inside
<1> QED BY <1>1, <1>4, <1>5, <1>6

(* What is in a tree and not its root has its parent in the tree.          *)
LEMMA ParentInTree ==
    ASSUME NEW f, IsListing(f), NEW a \in DOMAIN f, NEW x \in Forest!Tree(f, a), x # a
    PROVE  \E y \in Forest!Tree(f, a) : \E i \in DOMAIN f[y] : f[y][i] = x
<1> SUFFICES ASSUME \A y \in Forest!Tree(f, a) : \A i \in DOMAIN f[y] : f[y][i] # x
             PROVE  FALSE
  OBVIOUS
<1> DEFINE S == Forest!Tree(f, a) \ {x}
<1>1. a \in S /\ Inside(f, S)
  BY TreeLeast DEF Inside
<1> QED BY <1>1, TreeLeast

(* A set that has every loose item and the children of its items has all.  *)
LEMMA ForestAll ==
    ASSUME NEW f, NEW R, IsListing(f), Forest!IsForest(f, R), NEW S, R \subseteq S, Inside(f, S)
    PROVE  DOMAIN f \subseteq S
<1> SUFFICES ASSUME NEW x \in DOMAIN f PROVE x \in S
  OBVIOUS
<1>1. PICK r \in R : x \in Forest!Tree(f, r)
  BY DEF Forest!IsForest
<1>2. r \in DOMAIN f
  BY DEF Forest!IsForest
<1> QED BY <1>1, <1>2, TreeLeast

(* A forest, where the loose items lead to all others, is a forest as      *)
(* JsonForest says: the trees of the loose items cover it.                 *)
LEMMA ForestIntro ==
    ASSUME NEW f, NEW R, IsListing(f), OnePlace(f), R \subseteq DOMAIN f,
           \A x \in DOMAIN f : \A i \in DOMAIN f[x] : f[x][i] \notin R,
           \A S \in SUBSET DOMAIN f : R \subseteq S /\ Inside(f, S) => DOMAIN f \subseteq S
    PROVE  Forest!IsForest(f, R)
<1> DEFINE S == UNION {Forest!Tree(f, r) : r \in R}
<1>1. S \subseteq DOMAIN f /\ R \subseteq S /\ Inside(f, S)
  BY TreeLeast DEF Inside
<1>2. DOMAIN f \subseteq S
  <2> HIDE DEF S
  <2> QED BY <1>1
<1>3. \A x \in DOMAIN f : Forest!ToSet(f[x]) \cap R = {}
  BY ForestNames DEF ToSet
<1> QED BY <1>1, <1>2, <1>3 DEF Forest!IsForest, IsListing, OnePlace

(* What IsForest says of the places of the items.                          *)
LEMMA ForestPlaces ==
    ASSUME NEW f, NEW R, Forest!IsForest(f, R)
    PROVE  /\ OnePlace(f)
           /\ R \subseteq DOMAIN f
           /\ \A x \in DOMAIN f : \A i \in DOMAIN f[x] : f[x][i] \notin R /\ f[x][i] \in DOMAIN f
<1>1. \A x \in DOMAIN f : f[x] \in Seq(DOMAIN f) /\ ToSet(f[x]) \cap R = {}
  BY ForestNames DEF Forest!IsForest
<1>2. \A x \in DOMAIN f : \A i \in DOMAIN f[x] : f[x][i] \notin R /\ f[x][i] \in DOMAIN f
  BY <1>1 DEF ToSet
<1> QED BY <1>2 DEF Forest!IsForest, OnePlace

(* No item outside of a loose item's tree has a child in it.               *)
LEMMA StaysOut ==
    ASSUME NEW f, NEW R, IsListing(f), Forest!IsForest(f, R), NEW r \in R,
           NEW y \in DOMAIN f, y \notin Forest!Tree(f, r), NEW i \in DOMAIN f[y]
    PROVE  f[y][i] \notin Forest!Tree(f, r)
<1> SUFFICES ASSUME f[y][i] \in Forest!Tree(f, r) PROVE FALSE
  OBVIOUS
<1>1. r \in DOMAIN f /\ f[y][i] # r
  BY ForestPlaces
<1>2. PICK z \in Forest!Tree(f, r) : \E j \in DOMAIN f[z] : f[z][j] = f[y][i]
  BY <1>1, ParentInTree
<1>3. z \in DOMAIN f
  BY <1>1, TreeLeast
<1> QED BY <1>2, <1>3, ForestPlaces DEF OnePlace

(* The trees of two loose items have nothing in common.                    *)
LEMMA TreesApart ==
    ASSUME NEW f, NEW R, IsListing(f), Forest!IsForest(f, R), NEW r \in R, NEW s \in R, r # s
    PROVE  Forest!Tree(f, r) \cap Forest!Tree(f, s) = {}
<1> DEFINE S == DOMAIN f \ Forest!Tree(f, s)
<1>1. r \in DOMAIN f /\ s \in DOMAIN f
  BY ForestPlaces
<1>2. r \in S
  <2> SUFFICES ASSUME r \in Forest!Tree(f, s) PROVE FALSE
    BY <1>1
  <2>1. PICK y \in Forest!Tree(f, s) : \E i \in DOMAIN f[y] : f[y][i] = r
    BY <1>1, ParentInTree
  <2>2. y \in DOMAIN f
    BY <1>1, TreeLeast
  <2> QED BY <2>1, <2>2, ForestPlaces
<1>3. Inside(f, S)
  BY StaysOut, ForestPlaces DEF Inside
<1> QED BY <1>1, <1>2, <1>3, TreeLeast

(* No item is below itself.                                                *)
LEMMA NotBelowItself ==
    ASSUME NEW f, NEW R, IsListing(f), Forest!IsForest(f, R),
           NEW p \in DOMAIN f, NEW w \in DOMAIN f[p]
    PROVE  p \notin Forest!Tree(f, f[p][w])
<1> DEFINE x == f[p][w]
           S == DOMAIN f \ Forest!Tree(f, x)
<1> SUFFICES ASSUME p \in Forest!Tree(f, x) PROVE FALSE
  OBVIOUS
<1>1. x \in DOMAIN f /\ x \notin R
  BY ForestPlaces
<1>2. ASSUME NEW z \in Forest!Tree(f, x), z # x
      PROVE  \E y \in Forest!Tree(f, x) : \E i \in DOMAIN f[y] : f[y][i] = z
  BY <1>1, <1>2, ParentInTree
<1>3. Forest!Tree(f, x) \subseteq DOMAIN f /\ x \in Forest!Tree(f, x)
  BY <1>1, TreeLeast
<1>4. R \subseteq S
  <2> SUFFICES ASSUME NEW r \in R, r \in Forest!Tree(f, x) PROVE FALSE
    BY ForestPlaces
  <2> QED BY <1>1, <1>2, <1>3, ForestPlaces
<1>5. Inside(f, S)
  <2> SUFFICES ASSUME NEW y \in S, NEW i \in DOMAIN f[y], f[y][i] \in Forest!Tree(f, x)
               PROVE  FALSE
    BY ForestPlaces DEF Inside
  <2>1. CASE f[y][i] = x
    BY <2>1, ForestPlaces DEF OnePlace
  <2>2. CASE f[y][i] # x
    BY <2>2, <1>2, <1>3, ForestPlaces DEF OnePlace
  <2> QED BY <2>1, <2>2
<1>6. DOMAIN f \subseteq S
  BY <1>4, <1>5, ForestAll
<1> QED BY <1>1, <1>3, <1>6

(* A tree is the same in forests that agree on it.                         *)
LEMMA TreeSame ==
    ASSUME NEW f, NEW g, IsListing(f), IsListing(g), NEW a \in DOMAIN f,
           \A x \in Forest!Tree(f, a) : x \in DOMAIN g /\ g[x] = f[x]
    PROVE  Forest!Tree(g, a) = Forest!Tree(f, a)
<1>1. a \in Forest!Tree(f, a) /\ a \in DOMAIN g
  BY TreeLeast
<1>2. Inside(g, Forest!Tree(f, a))
  BY TreeLeast DEF Inside
<1>3. Forest!Tree(g, a) \subseteq Forest!Tree(f, a)
  BY <1>1, <1>2, TreeLeast
<1>4. Inside(f, Forest!Tree(g, a))
  BY <1>1, <1>3, TreeLeast DEF Inside
<1> QED BY <1>1, <1>3, <1>4, TreeLeast

Woods(f, R) == IsListing(f) /\ Forest!IsForest(f, R)

(* A loose item that gets a place in an item that is not below it.         *)
LEMMA WoodsPlace ==
    ASSUME NEW f, NEW R, Woods(f, R), NEW r \in R, NEW p \in DOMAIN f,
           p \notin Forest!Tree(f, r), NEW w \in 1..Len(f[p]) + 1
    PROVE  Woods([f EXCEPT ![p] = InsertAt(f[p], w, r)], R \ {r})
<1> DEFINE s == f[p]
           t == InsertAt(s, w, r)
           g == [f EXCEPT ![p] = t]
<1>1. IsListing(f) /\ OnePlace(f) /\ R \subseteq DOMAIN f
        /\ \A x \in DOMAIN f : \A i \in DOMAIN f[x] : f[x][i] \notin R /\ f[x][i] \in DOMAIN f
  BY ForestPlaces DEF Woods
<1>2. s \in Seq(DOMAIN f) /\ DOMAIN s = 1..Len(s) /\ Len(s) \in Nat
  BY <1>1 DEF IsListing
<1>3. /\ t \in Seq(DOMAIN f)
      /\ DOMAIN t = 1..Len(s) + 1
      /\ \A j \in 1..Len(s) + 1 :
            t[j] = IF j < w THEN s[j] ELSE IF j = w THEN r ELSE s[j - 1]
  <2> DEFINE D == DOMAIN f
  <2>1. s \in Seq(D) /\ r \in D /\ w \in 1..Len(s) + 1
    BY <1>1, <1>2
  <2>2. DOMAIN t = 1..Len(s) + 1 /\ t \in Seq(D)
    <3> HIDE DEF D, s
    <3> QED BY <2>1, InsertedAt
  <2>3. \A j \in 1..Len(s) + 1 :
            t[j] = IF j < w THEN s[j] ELSE IF j = w THEN r ELSE s[j - 1]
    <3> HIDE DEF D, s
    <3> QED BY <2>1, InsertedAt
  <2> QED BY <2>2, <2>3
<1>4. DOMAIN g = DOMAIN f /\ g[p] = t /\ \A x \in DOMAIN f : x # p => g[x] = f[x]
  OBVIOUS
<1>5. r \in DOMAIN f /\ w \in Nat /\ 1 <= w /\ w <= Len(s) + 1
  BY <1>1, <1>2
<1> HIDE DEF g, t
<1>6. IsListing(g)
  <2>1. \A x \in DOMAIN f : g[x] \in Seq(DOMAIN f)
    BY <1>1, <1>3, <1>4 DEF IsListing
  <2>2. g = [x \in DOMAIN g |-> g[x]]
    BY DEF g
  <2> QED BY <1>1, <1>4, <2>1, <2>2 DEF IsListing
<1>7. ASSUME NEW j \in DOMAIN t
      PROVE  t[j] = r \/ \E u \in DOMAIN s : t[j] = s[u] /\ u = (IF j < w THEN j ELSE j - 1)
  <2>1. CASE j < w
    BY <1>2, <1>3, <1>5, <2>1
  <2>2. CASE j = w
    BY <1>3, <1>5, <2>2
  <2>3. CASE j > w
    BY <1>2, <1>3, <1>5, <2>3
  <2> QED BY <1>3, <1>5, <2>1, <2>2, <2>3
<1>8. \A j \in DOMAIN t : t[j] = r => j = w
  <2> SUFFICES ASSUME NEW j \in DOMAIN t, j # w PROVE t[j] # r
    OBVIOUS
  <2>1. j \in 1..Len(s) + 1
    BY <1>3
  <2>2. CASE j < w
    BY <1>1, <1>2, <1>3, <1>5, <2>1, <2>2
  <2>3. CASE j > w
    <3>1. j - 1 \in DOMAIN s /\ t[j] = s[j - 1]
      BY <1>2, <1>3, <1>5, <2>1, <2>3
    <3> QED BY <1>1, <3>1
  <2> QED BY <1>5, <2>1, <2>2, <2>3
<1>9. \A i, j \in DOMAIN t : t[i] = t[j] => i = j
  <2> SUFFICES ASSUME NEW i \in DOMAIN t, NEW j \in DOMAIN t, t[i] = t[j] PROVE i = j
    OBVIOUS
  <2>1. CASE t[i] = r
    BY <1>8, <2>1
  <2>2. CASE t[i] # r
    <3>1. PICK u \in DOMAIN s : t[i] = s[u] /\ u = (IF i < w THEN i ELSE i - 1)
      BY <1>7, <2>2
    <3>2. PICK n \in DOMAIN s : t[j] = s[n] /\ n = (IF j < w THEN j ELSE j - 1)
      BY <1>7, <2>2
    <3>3. u = n
      <4>1. f[p][u] = f[p][n]
        BY <3>1, <3>2
      <4> QED BY <1>1, <4>1, Zenon DEF OnePlace
    <3>4. i # w /\ j # w
      BY <1>3, <1>5, <2>2
    <3>5. i \in 1..Len(s) + 1 /\ j \in 1..Len(s) + 1
      BY <1>3
    <3> QED BY <1>2, <1>5, <3>1, <3>2, <3>3, <3>4, <3>5
  <2> QED BY <2>1, <2>2
<1>10. \A x \in DOMAIN f : x # p => \A i \in DOMAIN f[x], j \in DOMAIN t : f[x][i] # t[j]
  <2> SUFFICES ASSUME NEW x \in DOMAIN f, x # p, NEW i \in DOMAIN f[x], NEW j \in DOMAIN t,
                      f[x][i] = t[j]
               PROVE  FALSE
    OBVIOUS
  <2>1. t[j] # r
    BY <1>1
  <2>2. \E u \in DOMAIN s : t[j] = s[u]
    BY <1>7, <2>1
  <2> QED BY <1>1, <2>2 DEF OnePlace
<1>11. OnePlace(g)
  <2> SUFFICES ASSUME NEW x \in DOMAIN f, NEW y \in DOMAIN f,
                      NEW i \in DOMAIN g[x], NEW j \in DOMAIN g[y], g[x][i] = g[y][j]
               PROVE  x = y /\ i = j
    BY <1>4 DEF OnePlace
  <2>1. CASE x = p /\ y = p
    BY <1>4, <1>9, <2>1
  <2>2. CASE x = p /\ y # p
    BY <1>4, <1>10, <2>2
  <2>3. CASE x # p /\ y = p
    BY <1>4, <1>10, <2>3
  <2>4. CASE x # p /\ y # p
    BY <1>1, <1>4, <2>4 DEF OnePlace
  <2> QED BY <2>1, <2>2, <2>3, <2>4
<1>12. \A x \in DOMAIN g : \A i \in DOMAIN g[x] : g[x][i] \notin R \ {r}
  <2> SUFFICES ASSUME NEW x \in DOMAIN f, NEW i \in DOMAIN g[x]
               PROVE  g[x][i] \notin R \ {r}
    BY <1>4
  <2>1. CASE x = p
    BY <1>1, <1>4, <1>7, <2>1
  <2>2. CASE x # p
    BY <1>1, <1>4, <2>2
  <2> QED BY <2>1, <2>2
<1>13. ASSUME NEW S \in SUBSET DOMAIN g, R \ {r} \subseteq S, Inside(g, S)
       PROVE  DOMAIN g \subseteq S
  <2> DEFINE T == Forest!Tree(f, r)
  <2>1. r \in T /\ T \subseteq DOMAIN f /\ Inside(f, T)
    BY <1>1, <1>5, TreeLeast
  <2>2. \A x \in S : \A i \in DOMAIN f[x] : f[x][i] \in S
    <3> SUFFICES ASSUME NEW x \in S, NEW i \in DOMAIN f[x] PROVE f[x][i] \in S
      OBVIOUS
    <3>0. x \in DOMAIN f /\ \A j \in DOMAIN g[x] : g[x][j] \in S
      BY <1>4, <1>13 DEF Inside
    <3>1. CASE x # p
      BY <1>4, <3>0, <3>1
    <3>2. CASE x = p
      <4>1. CASE i < w
        <5>1. i \in DOMAIN t /\ t[i] = s[i]
          BY <1>2, <1>3, <1>5, <3>2, <4>1
        <5> QED BY <1>4, <3>0, <3>2, <5>1
      <4>2. CASE i >= w
        <5> DEFINE u == i + 1
        <5>2. u \in 1..Len(s) + 1 /\ ~(u < w) /\ u # w /\ u - 1 = i
          BY <1>2, <1>5, <3>2, <4>2
        <5> HIDE DEF u
        <5>3. u \in DOMAIN t /\ t[u] = s[u - 1]
          BY <1>3, <5>2
        <5> QED BY <1>4, <3>0, <3>2, <5>2, <5>3
      <4> QED BY <1>2, <1>5, <3>2, <4>1, <4>2
    <3> QED BY <3>1, <3>2
  <2>3. R \subseteq S \cup T /\ Inside(f, S \cup T)
    BY <1>13, <2>1, <2>2 DEF Inside
  <2>4. DOMAIN f \subseteq S \cup T
    <3> HIDE DEF T
    <3> QED BY <2>3, ForestAll DEF Woods
  <2>5. p \in S
    BY <2>4
  <2>6. r \in S
    <3>1. w \in DOMAIN t /\ t[w] = r
      BY <1>2, <1>3, <1>5
    <3> QED BY <1>4, <1>13, <2>5, <3>1 DEF Inside
  <2>7. R \subseteq S /\ Inside(f, S)
    BY <1>13, <2>2, <2>6 DEF Inside
  <2> QED BY <1>4, <2>7, ForestAll DEF Woods
<1>14. Forest!IsForest(g, R \ {r})
  BY <1>1, <1>4, <1>6, <1>11, <1>12, <1>13, ForestIntro
<1> QED BY <1>6, <1>14 DEF Woods, g, t

(* A child that is taken out is loose.                                     *)
LEMMA WoodsTakeOut ==
    ASSUME NEW f, NEW R, Woods(f, R), NEW p \in DOMAIN f, NEW w \in DOMAIN f[p]
    PROVE  Woods([f EXCEPT ![p] = RemoveAt(f[p], w)], R \cup {f[p][w]})
<1> DEFINE s == f[p]
           t == RemoveAt(s, w)
           g == [f EXCEPT ![p] = t]
           x == f[p][w]
<1>1. IsListing(f) /\ OnePlace(f) /\ R \subseteq DOMAIN f
        /\ \A y \in DOMAIN f : \A i \in DOMAIN f[y] : f[y][i] \notin R /\ f[y][i] \in DOMAIN f
  BY ForestPlaces DEF Woods
<1>2. s \in Seq(DOMAIN f) /\ DOMAIN s = 1..Len(s) /\ Len(s) \in Nat
  BY <1>1 DEF IsListing
<1>3. /\ t \in Seq(DOMAIN f)
      /\ DOMAIN t = 1..Len(s) - 1
      /\ \A j \in 1..Len(s) - 1 : t[j] = IF j < w THEN s[j] ELSE s[j + 1]
  <2>1. w \in 1..Len(s)
    BY <1>2
  <2> QED BY <1>2, <2>1, RemovedAt, Zenon
<1>4. DOMAIN g = DOMAIN f /\ g[p] = t /\ \A y \in DOMAIN f : y # p => g[y] = f[y]
  OBVIOUS
<1>5. w \in Nat /\ 1 <= w /\ w <= Len(s)
  BY <1>1, <1>2
<1> HIDE DEF g, t
<1>6. IsListing(g)
  <2>1. \A y \in DOMAIN f : g[y] \in Seq(DOMAIN f)
    BY <1>1, <1>3, <1>4 DEF IsListing
  <2>2. g = [y \in DOMAIN g |-> g[y]]
    BY DEF g
  <2> QED BY <1>1, <1>4, <2>1, <2>2 DEF IsListing
<1>7. ASSUME NEW j \in DOMAIN t
      PROVE  \E h \in DOMAIN s : t[j] = s[h] /\ h # w /\ h = (IF j < w THEN j ELSE j + 1)
  BY <1>2, <1>3, <1>5
<1>8. ASSUME NEW y \in DOMAIN f, NEW i \in DOMAIN g[y]
      PROVE  \E h \in DOMAIN f[y] : /\ g[y][i] = f[y][h]
                                    /\ y = p => h # w /\ h = (IF i < w THEN i ELSE i + 1)
                                    /\ y # p => h = i
  BY <1>4, <1>7
<1>9. OnePlace(g)
  <2> SUFFICES ASSUME NEW y \in DOMAIN f, NEW z \in DOMAIN f,
                      NEW i \in DOMAIN g[y], NEW j \in DOMAIN g[z], g[y][i] = g[z][j]
               PROVE  y = z /\ i = j
    BY <1>4 DEF OnePlace
  <2>1. PICK h \in DOMAIN f[y] : /\ g[y][i] = f[y][h]
                                 /\ y = p => h # w /\ h = (IF i < w THEN i ELSE i + 1)
                                 /\ y # p => h = i
    BY <1>8
  <2>2. PICK n \in DOMAIN f[z] : /\ g[z][j] = f[z][n]
                                 /\ z = p => n # w /\ n = (IF j < w THEN j ELSE j + 1)
                                 /\ z # p => n = j
    BY <1>8
  <2>3. y = z /\ h = n
    <3>1. f[y][h] = f[z][n]
      BY <2>1, <2>2
    <3>2. \A u, v \in DOMAIN f : \A a \in DOMAIN f[u], b \in DOMAIN f[v] :
             f[u][a] = f[v][b] => u = v /\ a = b
      BY <1>1 DEF OnePlace
    <3> HIDE DEF x
    <3> QED BY <3>1, <3>2, Zenon
  <2>4. CASE y = p
    <3>1. i \in 1..Len(s) - 1 /\ j \in 1..Len(s) - 1
      BY <1>3, <1>4, <2>3, <2>4
    <3> QED BY <1>2, <1>5, <2>1, <2>2, <2>3, <2>4, <3>1
  <2> QED BY <2>1, <2>2, <2>3, <2>4
<1>10. \A y \in DOMAIN g : \A i \in DOMAIN g[y] : g[y][i] \notin R \cup {x}
  <2> SUFFICES ASSUME NEW y \in DOMAIN f, NEW i \in DOMAIN g[y]
               PROVE  g[y][i] \notin R \cup {x}
    BY <1>4
  <2>1. PICK h \in DOMAIN f[y] : g[y][i] = f[y][h] /\ (y = p => h # w)
    BY <1>8
  <2> QED BY <1>1, <2>1 DEF OnePlace
<1>11. ASSUME NEW S \in SUBSET DOMAIN g, R \cup {x} \subseteq S, Inside(g, S)
       PROVE  DOMAIN g \subseteq S
  <2>1. \A y \in S : \A i \in DOMAIN f[y] : f[y][i] \in S
    <3> SUFFICES ASSUME NEW y \in S, NEW i \in DOMAIN f[y] PROVE f[y][i] \in S
      OBVIOUS
    <3>0. y \in DOMAIN f /\ \A j \in DOMAIN g[y] : g[y][j] \in S
      BY <1>4, <1>11 DEF Inside
    <3>1. CASE y # p
      BY <1>4, <3>0, <3>1
    <3>2. CASE y = p
      <4>1. CASE i < w
        <5>1. i \in DOMAIN t /\ t[i] = s[i]
          BY <1>2, <1>3, <1>5, <3>2, <4>1
        <5> QED BY <1>4, <3>0, <3>2, <5>1
      <4>2. CASE i = w
        BY <1>11, <3>2, <4>2
      <4>3. CASE i > w
        <5>1. i - 1 \in 1..Len(s) - 1 /\ ~(i - 1 < w) /\ i - 1 + 1 = i
          BY <1>2, <1>5, <3>2, <4>3
        <5>2. i - 1 \in DOMAIN t /\ t[i - 1] = s[i]
          BY <1>3, <5>1
        <5> QED BY <1>4, <3>0, <3>2, <5>2
      <4> QED BY <1>2, <1>5, <3>2, <4>1, <4>2, <4>3
    <3> QED BY <3>1, <3>2
  <2>2. R \subseteq S /\ Inside(f, S)
    BY <1>11, <2>1 DEF Inside
  <2> QED BY <1>4, <2>2, ForestAll DEF Woods
<1>12. R \cup {x} \subseteq DOMAIN g
  BY <1>1, <1>4
<1>13. Forest!IsForest(g, R \cup {x})
  <2> HIDE DEF x
  <2> QED BY <1>6, <1>9, <1>10, <1>11, <1>12, ForestIntro
<1> QED BY <1>6, <1>13 DEF Woods, g, t

(* A tree that is discarded.                                               *)
LEMMA WoodsDiscard ==
    ASSUME NEW f, NEW R, Woods(f, R), NEW r \in R
    PROVE  /\ Woods(Forest!Without(f, r), R \ {r})
           /\ DOMAIN Forest!Without(f, r) = DOMAIN f \ Forest!Tree(f, r)
           /\ \A x \in DOMAIN f \ Forest!Tree(f, r) : Forest!Without(f, r)[x] = f[x]
<1> DEFINE T == Forest!Tree(f, r)
           g == Forest!Without(f, r)
<1>1. IsListing(f) /\ OnePlace(f) /\ R \subseteq DOMAIN f
        /\ \A y \in DOMAIN f : \A i \in DOMAIN f[y] : f[y][i] \notin R /\ f[y][i] \in DOMAIN f
  BY ForestPlaces DEF Woods
<1>2. g = [x \in DOMAIN f \ T |-> f[x]]
  BY DEF Forest!Without, Forest!Keep
<1>3. DOMAIN g = DOMAIN f \ T /\ \A x \in DOMAIN f \ T : g[x] = f[x]
  BY <1>2
<1>4. r \in T /\ T \subseteq DOMAIN f /\ Inside(f, T)
  BY <1>1, TreeLeast
<1>5. \A x \in DOMAIN f \ T : \A i \in DOMAIN f[x] : f[x][i] \in DOMAIN f \ T
  BY <1>1, StaysOut DEF Woods
<1> HIDE DEF g, T
<1>6. IsListing(g)
  <2>1. ASSUME NEW x \in DOMAIN g PROVE g[x] \in Seq(DOMAIN g)
    <3>1. f[x] \in Seq(DOMAIN f) /\ g[x] = f[x]
      BY <1>1, <1>3 DEF IsListing
    <3>2. \A i \in 1..Len(f[x]) : f[x][i] \in DOMAIN g
      BY <1>3, <1>5, <3>1
    <3> QED BY <3>1, <3>2
  <2>2. IsFiniteSet(DOMAIN g)
    BY <1>1, <1>3, FS_Subset DEF IsListing
  <2> QED BY <1>2, <1>3, <2>1, <2>2 DEF IsListing
<1>7. OnePlace(g)
  BY <1>1, <1>3 DEF OnePlace
<1>8. R \ {r} \subseteq DOMAIN g
  <2> SUFFICES ASSUME NEW s \in R, s # r PROVE s \notin T
    BY <1>1, <1>3
  <2>1. s \in Forest!Tree(f, s)
    BY <1>1, TreeLeast
  <2> QED BY <2>1, TreesApart DEF Woods, T
<1>9. \A x \in DOMAIN g : \A i \in DOMAIN g[x] : g[x][i] \notin R \ {r}
  BY <1>1, <1>3
<1>10. ASSUME NEW S \in SUBSET DOMAIN g, R \ {r} \subseteq S, Inside(g, S)
       PROVE  DOMAIN g \subseteq S
  <2>1. R \subseteq S \cup T /\ Inside(f, S \cup T)
    BY <1>3, <1>4, <1>10 DEF Inside
  <2>2. DOMAIN f \subseteq S \cup T
    BY <2>1, ForestAll DEF Woods
  <2> QED BY <1>3, <2>2
<1>11. Forest!IsForest(g, R \ {r})
  BY <1>6, <1>7, <1>8, <1>9, <1>10, ForestIntro
<1> QED BY <1>3, <1>6, <1>11 DEF Woods, g, T

(* A loose item that takes the place of a child, which is loose then.      *)
LEMMA WoodsSwap ==
    ASSUME NEW f, NEW R, Woods(f, R), NEW p \in DOMAIN f, NEW w \in DOMAIN f[p],
           NEW r \in R, p \notin Forest!Tree(f, r)
    PROVE  Woods([f EXCEPT ![p] = [f[p] EXCEPT ![w] = r]], (R \ {r}) \cup {f[p][w]})
<1> DEFINE s == f[p]
           x == f[p][w]
           t == RemoveAt(s, w)
           f1 == [f EXCEPT ![p] = t]
           u == [s EXCEPT ![w] = r]
           D == DOMAIN f
<1>1. IsListing(f) /\ R \subseteq D /\ x \notin R /\ x \in D
  BY ForestPlaces DEF Woods
<1>2. s \in Seq(D) /\ DOMAIN s = 1..Len(s) /\ Len(s) \in Nat
  BY <1>1 DEF IsListing
<1>3. Woods(f1, R \cup {x})
  BY WoodsTakeOut
<1>4. DOMAIN f1 = D /\ f1[p] = t /\ \A y \in D : y # p => f1[y] = f[y]
  OBVIOUS
<1>5. w \in 1..Len(s) /\ r \in D
  BY <1>1, <1>2
<1>6. u \in Seq(D) /\ Len(u) = Len(s) /\ \A j \in 1..Len(s) : u[j] = IF j = w THEN r ELSE s[j]
  BY <1>2, <1>5
<1> HIDE DEF s, x, f1, u, D
<1>7. t \in Seq(D) /\ DOMAIN t = 1..Len(s) - 1 /\ Len(t) = Len(s) - 1
        /\ \A j \in 1..Len(s) - 1 : t[j] = IF j < w THEN s[j] ELSE s[j + 1]
  BY <1>2, <1>5, RemovedAt
<1> HIDE DEF t
<1>8. Forest!Tree(f1, r) = Forest!Tree(f, r)
  <2>1. Forest!Tree(f, r) \subseteq D
    BY <1>1, <1>5, TreeLeast DEF D
  <2> QED BY <1>1, <1>3, <1>4, <1>5, <2>1, TreeSame DEF Woods, D
<1>9. w \in 1..Len(t) + 1
  BY <1>2, <1>5, <1>7
<1> DEFINE v == InsertAt(t, w, r)
<1>10. v \in Seq(D) /\ Len(v) = Len(t) + 1
        /\ \A j \in 1..Len(t) + 1 : v[j] = IF j < w THEN t[j] ELSE IF j = w THEN r ELSE t[j - 1]
  <2>0. t \in Seq(D) /\ r \in D /\ w \in 1..Len(t) + 1
    BY <1>5, <1>7, <1>9
  <2>1. v \in Seq(D) /\ Len(v) = Len(t) + 1
    BY <2>0, InsertedAt
  <2>2. ASSUME NEW j \in 1..Len(t) + 1
        PROVE  v[j] = IF j < w THEN t[j] ELSE IF j = w THEN r ELSE t[j - 1]
    BY <2>0, InsertedAt, SMTT(60)
  <2> QED BY <2>1, <2>2
<1> HIDE DEF v
<1>11. \A j \in 1..Len(v) : v[j] = u[j]
  <2> SUFFICES ASSUME NEW j \in 1..Len(s) PROVE v[j] = u[j]
    BY <1>7, <1>10, <1>2
  <2>0. j \in 1..Len(t) + 1
    BY <1>2, <1>7
  <2>1. CASE j < w
    <3>1. j \in 1..Len(s) - 1
      BY <1>2, <1>5, <2>1
    <3> QED BY <1>6, <1>7, <1>10, <1>5, <2>0, <2>1, <3>1
  <2>2. CASE j = w
    BY <1>6, <1>10, <2>0, <2>2
  <2>3. CASE j > w
    <3>1. j - 1 \in 1..Len(s) - 1 /\ ~(j - 1 < w) /\ j - 1 + 1 = j
      BY <1>2, <1>5, <2>3
    <3>2. t[j - 1] = s[j]
      BY <1>7, <3>1
    <3> QED BY <1>6, <1>10, <1>5, <2>0, <2>3, <3>2
  <2> QED BY <1>5, <2>1, <2>2, <2>3
<1>12. v = u
  <2>1. Len(u) = Len(v)
    BY <1>2, <1>6, <1>7, <1>10
  <2> QED BY <1>6, <1>10, <1>11, <2>1, SeqEqual
<1>13. Woods([f1 EXCEPT ![p] = v], (R \cup {x}) \ {r})
  <2>1. p \in DOMAIN f1 /\ r \in R \cup {x} /\ p \notin Forest!Tree(f1, r)
    BY <1>4, <1>8 DEF D
  <2> QED BY <1>3, <1>4, <1>9, <2>1, WoodsPlace DEF v
<1>14. [f1 EXCEPT ![p] = v] = [f EXCEPT ![p] = u]
  BY <1>12 DEF f1
<1>15. (R \cup {x}) \ {r} = (R \ {r}) \cup {x}
  BY <1>1
<1> QED BY <1>13, <1>14, <1>15 DEF u, s, x

(* A child that is taken out and discarded.                                *)
LEMMA WoodsDrop ==
    ASSUME NEW f, NEW R, Woods(f, R), NEW p \in DOMAIN f, NEW w \in DOMAIN f[p], NEW t
    PROVE  /\ f[p][w] \in DOMAIN f
           /\ p \notin Forest!Tree(f, f[p][w])
           /\ LET g == [f EXCEPT ![p] = t]
              IN IsListing(g) => /\ Forest!Tree(g, f[p][w]) = Forest!Tree(f, f[p][w])
                                 /\ Forest!Without(g, f[p][w])
                                        = [Forest!Without(f, f[p][w]) EXCEPT ![p] = t]
<1> DEFINE x == f[p][w]
           g == [f EXCEPT ![p] = t]
<1>1. IsListing(f) /\ x \in DOMAIN f /\ p \notin Forest!Tree(f, x)
  BY ForestPlaces, NotBelowItself DEF Woods
<1>2. ASSUME IsListing(g) PROVE Forest!Tree(g, x) = Forest!Tree(f, x)
  <2> DEFINE T == Forest!Tree(f, x)
  <2>1. T \subseteq DOMAIN f /\ p \notin T
    <3> HIDE DEF x
    <3> QED BY <1>1, TreeLeast
  <2>2. \A y \in T : y \in DOMAIN g /\ g[y] = f[y]
    <3> HIDE DEF T
    <3> QED BY <2>1
  <2> HIDE DEF x, g
  <2> QED BY <1>1, <1>2, <2>2, TreeSame
<1>3. ASSUME IsListing(g) PROVE Forest!Without(g, x) = [Forest!Without(f, x) EXCEPT ![p] = t]
  <2> DEFINE T == Forest!Tree(f, x)
  <2>0. DOMAIN g = DOMAIN f
    OBVIOUS
  <2>1. Forest!Without(g, x) = [i \in DOMAIN f \ T |-> g[i]]
    BY <1>2, <1>3, <2>0 DEF Forest!Without, Forest!Keep
  <2>2. Forest!Without(f, x) = [i \in DOMAIN f \ T |-> f[i]]
    BY DEF Forest!Without, Forest!Keep
  <2>3. p \notin T
    BY <1>1
  <2> HIDE DEF T
  <2>4. [i \in DOMAIN f \ T |-> g[i]] = [[i \in DOMAIN f \ T |-> f[i]] EXCEPT ![p] = t]
    BY <2>3
  <2> QED BY <2>1, <2>2, <2>4
<1> QED BY <1>1, <1>2, <1>3

(* Two forests of different items.                                         *)
Both(f, u) == [x \in DOMAIN f \cup DOMAIN u |-> IF x \in DOMAIN f THEN f[x] ELSE u[x]]

(* A tree of new items beside a forest: the step Make.                     *)
LEMMA WoodsGrow ==
    ASSUME NEW f, NEW R, Woods(f, R), NEW u, NEW p, Woods(u, {p}),
           DOMAIN f \cap DOMAIN u = {}
    PROVE  /\ Woods(Both(f, u), R \cup {p})
           /\ p \in DOMAIN u
           /\ Forest!Tree(Both(f, u), p) = DOMAIN u
           /\ Forest!Make(f, R, Both(f, u), R \cup {p})
           /\ \A a \in DOMAIN f : Forest!Tree(Both(f, u), a) = Forest!Tree(f, a)
<1> DEFINE h == Both(f, u)
<1>1. /\ IsListing(f) /\ OnePlace(f) /\ R \subseteq DOMAIN f
      /\ \A y \in DOMAIN f : \A i \in DOMAIN f[y] : f[y][i] \notin R /\ f[y][i] \in DOMAIN f
  BY ForestPlaces DEF Woods
<1>2. /\ IsListing(u) /\ OnePlace(u) /\ p \in DOMAIN u
      /\ \A y \in DOMAIN u : \A i \in DOMAIN u[y] : u[y][i] # p /\ u[y][i] \in DOMAIN u
  BY ForestPlaces DEF Woods
<1>3. /\ h = [x \in DOMAIN h |-> h[x]]
      /\ DOMAIN h = DOMAIN f \cup DOMAIN u
      /\ \A x \in DOMAIN f : h[x] = f[x]
      /\ \A x \in DOMAIN u : h[x] = u[x]
  BY DEF Both
<1> HIDE DEF h
<1>4. IsListing(h)
  <2>1. \A x \in DOMAIN f : f[x] \in Seq(DOMAIN f)
    BY <1>1 DEF IsListing
  <2>2. \A x \in DOMAIN u : u[x] \in Seq(DOMAIN u)
    BY <1>2 DEF IsListing
  <2>3. \A x \in DOMAIN f : h[x] \in Seq(DOMAIN h)
    BY <1>3, <2>1, SeqMonotonic
  <2>4. \A x \in DOMAIN u : h[x] \in Seq(DOMAIN h)
    BY <1>3, <2>2, SeqMonotonic
  <2>5. IsFiniteSet(DOMAIN h)
    <3>1. IsFiniteSet(DOMAIN f) /\ IsFiniteSet(DOMAIN u)
      BY <1>1, <1>2 DEF IsListing
    <3>2. IsFiniteSet(DOMAIN f \cup DOMAIN u)
      BY <3>1, FS_Union
    <3> QED BY <1>3, <3>2
  <2>6. \A x \in DOMAIN h : h[x] \in Seq(DOMAIN h)
    BY <1>3, <2>3, <2>4
  <2> QED BY <1>3, <2>5, <2>6 DEF IsListing
<1>5. OnePlace(h)
  <2> SUFFICES ASSUME NEW x \in DOMAIN h, NEW y \in DOMAIN h,
                      NEW i \in DOMAIN h[x], NEW j \in DOMAIN h[y], h[x][i] = h[y][j]
               PROVE  x = y /\ i = j
    BY DEF OnePlace
  <2>1. CASE x \in DOMAIN f /\ y \in DOMAIN f
    BY <1>1, <1>3, <2>1 DEF OnePlace
  <2>2. CASE x \in DOMAIN f /\ y \in DOMAIN u
    BY <1>1, <1>2, <1>3, <2>2
  <2>3. CASE x \in DOMAIN u /\ y \in DOMAIN f
    BY <1>1, <1>2, <1>3, <2>3
  <2>4. CASE x \in DOMAIN u /\ y \in DOMAIN u
    BY <1>2, <1>3, <2>4 DEF OnePlace
  <2> QED BY <1>3, <2>1, <2>2, <2>3, <2>4
<1>6. \A x \in DOMAIN h : \A i \in DOMAIN h[x] : h[x][i] \notin R \cup {p}
  <2>1. \A x \in DOMAIN f : \A i \in DOMAIN h[x] : h[x][i] \notin R \cup {p}
    BY <1>1, <1>2, <1>3
  <2>2. \A x \in DOMAIN u : \A i \in DOMAIN h[x] : h[x][i] \notin R \cup {p}
    BY <1>1, <1>2, <1>3
  <2> QED BY <1>3, <2>1, <2>2
<1>7. ASSUME NEW S \in SUBSET DOMAIN h, R \cup {p} \subseteq S, Inside(h, S)
      PROVE  DOMAIN h \subseteq S
  <2>1. Inside(f, S) /\ Inside(u, S)
    BY <1>3, <1>7 DEF Inside
  <2>2. DOMAIN f \subseteq S
    BY <1>7, <2>1, ForestAll DEF Woods
  <2>3. DOMAIN u \subseteq S
    BY <1>7, <2>1, ForestAll DEF Woods
  <2> QED BY <1>3, <2>2, <2>3
<1>8. Woods(h, R \cup {p})
  <2>1. R \cup {p} \subseteq DOMAIN h
    BY <1>1, <1>2, <1>3
  <2> QED BY <1>4, <1>5, <1>6, <1>7, <2>1, ForestIntro DEF Woods
<1>9. \A a \in DOMAIN f : Forest!Tree(h, a) = Forest!Tree(f, a)
  <2> SUFFICES ASSUME NEW a \in DOMAIN f PROVE Forest!Tree(h, a) = Forest!Tree(f, a)
    OBVIOUS
  <2>1. Forest!Tree(f, a) \subseteq DOMAIN f
    BY <1>1, TreeLeast
  <2> QED BY <1>1, <1>3, <1>4, <2>1, TreeSame
<1>10. Forest!Tree(h, p) = DOMAIN u
  <2>1. Forest!Tree(u, p) \subseteq DOMAIN u
    BY <1>2, TreeLeast
  <2>2. Forest!Tree(h, p) = Forest!Tree(u, p)
    BY <1>2, <1>3, <1>4, <2>1, TreeSame
  <2>3. Forest!Tree(u, p) = DOMAIN u
    BY DEF Woods, Forest!IsForest
  <2> QED BY <2>2, <2>3
<1>11. Forest!Make(f, R, h, R \cup {p})
  <2>1. DOMAIN h \ DOMAIN f = DOMAIN u
    BY <1>3
  <2>2. Forest!Keep(h, DOMAIN f) = f
    <3>1. f = [x \in DOMAIN f |-> f[x]]
      BY <1>1 DEF IsListing
    <3> QED BY <1>3, <3>1 DEF Forest!Keep
  <2> QED BY <1>2, <1>3, <1>10, <2>1, <2>2 DEF Forest!Make
<1> QED BY <1>2, <1>8, <1>9, <1>10, <1>11 DEF h

(* A single item.                                                          *)
Single(a) == [x \in {a} |-> <<>>]

(* One item without children is a tree.                                    *)
LEMMA WoodsSingle ==
    ASSUME NEW a
    PROVE  Woods(Single(a), {a})
<1> DEFINE f == Single(a)
<1>1. DOMAIN f = {a} /\ f[a] = <<>> /\ f = [x \in DOMAIN f |-> f[x]]
  BY DEF Single
<1> HIDE DEF f
<1>2. <<>> \in Seq(DOMAIN f) /\ IsFiniteSet({a})
  BY FS_Singleton
<1>3. IsListing(f)
  BY <1>1, <1>2 DEF IsListing
<1>4. \A x \in DOMAIN f : DOMAIN f[x] = {}
  BY <1>1
<1> QED BY <1>1, <1>3, <1>4, ForestIntro DEF OnePlace, Woods, f

(* The beginnings of a sequence, which Children goes through.              *)
LEMMA Beginnings ==
    ASSUME NEW S, NEW s \in Seq(S)
    PROVE  /\ SubSeq(s, 1, Len(s)) = s
           /\ \A n \in 1..Len(s) : /\ SubSeq(s, 1, n) \in Seq(S)
                                   /\ Len(SubSeq(s, 1, n)) = n
                                   /\ SubSeq(s, 1, n)[n] = s[n]
           /\ s # <<>> => SubSeq(s, 1, 1) = <<s[1]>>
           /\ \A n \in 1..Len(s) :
                 n + 1 <= Len(s) =>
                    SubSeq(s, 1, n + 1) = Append(SubSeq(s, 1, n), s[n + 1])
<1>0. Len(s) \in Nat /\ DOMAIN s = 1..Len(s) /\ \A i \in 1..Len(s) : s[i] \in S
  OBVIOUS
<1>1. SubSeq(s, 1, Len(s)) = s
  BY SubSeqFull
<1>2. ASSUME NEW n \in 1..Len(s)
      PROVE  /\ SubSeq(s, 1, n) \in Seq(S)
             /\ Len(SubSeq(s, 1, n)) = n
             /\ \A i \in 1..n : SubSeq(s, 1, n)[i] = s[i]
  BY <1>0
<1>3. ASSUME s # <<>> PROVE SubSeq(s, 1, 1) = <<s[1]>>
  <2>1. 1 \in 1..Len(s) /\ s[1] \in S
    BY <1>0, <1>3
  <2>2. SubSeq(s, 1, 1) \in Seq(S) /\ Len(SubSeq(s, 1, 1)) = 1 /\ SubSeq(s, 1, 1)[1] = s[1]
    BY <1>2, <2>1
  <2>3. <<s[1]>> \in Seq(S) /\ Len(<<s[1]>>) = 1 /\ <<s[1]>>[1] = s[1]
    BY <2>1
  <2>4. \A i \in 1..1 : SubSeq(s, 1, 1)[i] = <<s[1]>>[i]
    BY <2>2, <2>3
  <2> QED BY <2>2, <2>3, <2>4, SeqEqual
<1>4. ASSUME NEW n \in 1..Len(s), n + 1 <= Len(s)
      PROVE  SubSeq(s, 1, n + 1) = Append(SubSeq(s, 1, n), s[n + 1])
  <2> DEFINE a == SubSeq(s, 1, n)
             b == SubSeq(s, 1, n + 1)
             e == s[n + 1]
             c == Append(a, e)
  <2>1. n + 1 \in 1..Len(s) /\ e \in S /\ n \in Nat
    BY <1>0, <1>4
  <2>2. a \in Seq(S) /\ Len(a) = n /\ \A i \in 1..n : a[i] = s[i]
    BY <1>2
  <2>3. b \in Seq(S) /\ Len(b) = n + 1 /\ \A i \in 1..n + 1 : b[i] = s[i]
    BY <1>2, <2>1
  <2> HIDE DEF a, b
  <2>4. c \in Seq(S) /\ Len(c) = n + 1 /\ (\A i \in 1..n : c[i] = a[i]) /\ c[n + 1] = e
    BY <2>1, <2>2, AppendProperties
  <2> HIDE DEF c
  <2>5. \A i \in 1..n + 1 : b[i] = c[i]
    BY <2>1, <2>2, <2>3, <2>4
  <2>6. b = c
    BY <2>3, <2>4, <2>5, SeqEqual
  <2> QED BY <2>6 DEF a, b, c
<1> QED BY <1>0, <1>1, <1>2, <1>3, <1>4

(* A list that is linked as s has s for its items, if none is in it twice: *)
(* it is no longer than there are items.                                   *)
LEMMA ChildrenAre ==
    ASSUME NEW m, NEW a, NEW s \in Seq(LiveItems(m)), IsFiniteSet(LiveItems(m)),
           NULL \notin LiveItems(m),
           \A i, j \in DOMAIN s : s[i] = s[j] => i = j,
           m.item[a].child = Nth(s, 1),
           \A i \in DOMAIN s : m.item[s[i]].next = Nth(s, i + 1)
    PROVE  Children(m, a) = s
<1> DEFINE c == Cardinality(LiveItems(m))
           Step(g, u) == [n \in 1..u |->
                             IF n = 1 THEN <<m.item[a].child>>
                             ELSE LET before == g[n - 1]
                                      next == m.item[before[Len(before)]].next
                                  IN IF next = NULL THEN before ELSE Append(before, next)]
           r == CHOOSE g : g = Step(g, c)
           W(n) == IF n <= Len(s) THEN SubSeq(s, 1, n) ELSE s
           G == [n \in 1..c |-> W(n)]
<1>0. Len(s) \in Nat /\ DOMAIN s = 1..Len(s) /\ \A i \in 1..Len(s) : s[i] \in LiveItems(m)
  OBVIOUS
<1>1. Children(m, a) = IF m.item[a].child = NULL THEN <<>> ELSE r[c]
  BY DEF Children
<1>2. CASE s = <<>>
  BY <1>1, <1>2 DEF Nth
<1>3. CASE s # <<>>
  <2>0. Len(s) >= 1
    BY <1>0, <1>3
  <2>1. m.item[a].child = s[1] /\ s[1] # NULL
    BY <1>0, <2>0 DEF Nth
  <2>2. c \in Nat /\ Len(s) <= c
    <3>1. c \in Nat
      BY FS_CardinalityType
    <3>2. IsFiniteSet(1..Len(s)) /\ Cardinality(1..Len(s)) = Len(s)
      BY <1>0, <2>0, FS_Interval
    <3>3. s \in [1..Len(s) -> LiveItems(m)]
      BY <1>0
    <3>4. SUFFICES ASSUME c < Len(s) PROVE FALSE
      BY <1>0, <3>1
    <3> DEFINE S1 == 1..Len(s)
    <3>5. \E x, y \in S1 : x # y /\ s[x] = s[y]
      <4>1. Cardinality(LiveItems(m)) < Cardinality(S1)
        BY <3>2, <3>4
      <4>2. s \in [S1 -> LiveItems(m)] /\ IsFiniteSet(S1)
        BY <3>2, <3>3
      <4> HIDE DEF S1
      <4> QED BY <4>1, <4>2, FS_PigeonHole
    <3> QED BY <1>0, <3>5
  <2>3. \A n \in 1..c : W(n) \in Seq(LiveItems(m))
    BY <1>0, Beginnings
  <2>4. W(1) = <<m.item[a].child>>
    BY <1>3, <2>0, <2>1, Beginnings
  <2>5. ASSUME NEW n \in Nat, n >= 1, n + 1 <= c
        PROVE  W(n + 1) = LET before == W(n)
                              next == m.item[before[Len(before)]].next
                          IN IF next = NULL THEN before ELSE Append(before, next)
    <3>1. CASE n + 1 <= Len(s)
      <4>1. n \in 1..Len(s) /\ n + 1 \in DOMAIN s /\ n <= Len(s)
        BY <1>0, <2>5, <3>1
      <4>2. W(n) = SubSeq(s, 1, n) /\ W(n + 1) = SubSeq(s, 1, n + 1)
        BY <3>1, <4>1
      <4>3. Len(W(n)) = n /\ W(n)[n] = s[n]
        BY <4>1, <4>2, Beginnings
      <4>4. m.item[s[n]].next = s[n + 1] /\ s[n + 1] # NULL
        BY <1>0, <4>1 DEF Nth
      <4>5. W(n + 1) = Append(W(n), s[n + 1])
        BY <3>1, <4>1, <4>2, Beginnings
      <4> HIDE DEF W
      <4> QED BY <4>3, <4>4, <4>5
    <3>2. CASE ~(n + 1 <= Len(s))
      <4>1. W(n) = s /\ W(n + 1) = s
        <5>0. Len(s) \in Nat
          BY <1>0
        <5>1. n = Len(s) \/ ~(n <= Len(s))
          <6> DEFINE l == Len(s)
          <6>1. l \in Nat /\ ~(n + 1 <= l)
            BY <3>2, <5>0
          <6> HIDE DEF l
          <6>2. n = l \/ ~(n <= l)
            BY <6>1
          <6> QED BY <6>2 DEF l
        <5>2. SubSeq(s, 1, Len(s)) = s
          BY Beginnings
        <5> QED BY <3>2, <5>1, <5>2
      <4>2. Len(s) \in DOMAIN s /\ Len(s) + 1 \notin DOMAIN s
        BY <1>0, <2>0
      <4>3. m.item[s[Len(s)]].next = NULL
        BY <4>2 DEF Nth
      <4> HIDE DEF W
      <4> QED BY <4>1, <4>3
    <3> QED BY <3>1, <3>2
  <2>6. G = Step(G, c)
    <3> SUFFICES ASSUME NEW n \in 1..c PROVE G[n] = Step(G, c)[n]
      OBVIOUS
    <3>1. CASE n = 1
      <4>1. G[n] = W(1) /\ Step(G, c)[n] = <<m.item[a].child>>
        BY <3>1
      <4> QED BY <2>4, <4>1
    <3>2. CASE n # 1
      <4> DEFINE u == n - 1
      <4>1. u \in Nat /\ u >= 1 /\ u + 1 <= c /\ u + 1 = n /\ u \in 1..c
        BY <2>2, <3>2
      <4>2. G[n] = W(n) /\ G[u] = W(u)
        BY <4>1
      <4>3. Step(G, c)[n] = LET before == G[u]
                                next == m.item[before[Len(before)]].next
                            IN IF next = NULL THEN before ELSE Append(before, next)
        BY <3>2
      <4> HIDE DEF u, W, G, Step
      <4>4. W(n) = LET before == W(u)
                       next == m.item[before[Len(before)]].next
                   IN IF next = NULL THEN before ELSE Append(before, next)
        BY <2>5, <4>1
      <4> QED BY <4>2, <4>3, <4>4
    <3> QED BY <3>1, <3>2
  <2>7. r = Step(r, c)
    <3> HIDE DEF Step, G
    <3> QED BY <2>6, Zenon
  <2> HIDE DEF r
  <2>8. \A n \in 1..c : r[n] = IF n = 1 THEN <<m.item[a].child>>
                               ELSE LET before == r[n - 1]
                                        next == m.item[before[Len(before)]].next
                                    IN IF next = NULL THEN before ELSE Append(before, next)
    <3>1. \A n \in 1..c : r[n] = Step(r, c)[n]
      <4> HIDE DEF Step
      <4> QED BY <2>7, Zenon
    <3> QED BY <3>1
  <2> DEFINE Q == {n \in Nat : n >= 1 /\ n <= c => r[n] = W(n)}
  <2>9. Nat \subseteq Q
    <3>1. 0 \in Q
      OBVIOUS
    <3>2. ASSUME NEW n \in Nat, n \in Q PROVE n + 1 \in Q
      <4> SUFFICES ASSUME n + 1 <= c PROVE r[n + 1] = W(n + 1)
        OBVIOUS
      <4> DEFINE l == n + 1
      <4>1. l \in 1..c /\ l - 1 = n
        BY <2>2
      <4>2. CASE n = 0
        <5>1. 1 \in 1..c /\ l = 1
          BY <2>2, <4>2
        <5>2. r[1] = W(1)
          <6> HIDE DEF W
          <6> QED BY <2>4, <2>8, <5>1
        <5> QED BY <5>1, <5>2
      <4>3. CASE n # 0
        <5>1. r[n] = W(n)
          <6> HIDE DEF W
          <6> QED BY <3>2, <4>3, <2>2
        <5>2. l # 1
          BY <4>3
        <5> HIDE DEF l
        <5>3. r[l] = LET before == r[n]
                         next == m.item[before[Len(before)]].next
                     IN IF next = NULL THEN before ELSE Append(before, next)
          BY <2>8, <4>1, <5>2
        <5> HIDE DEF W
        <5>4. W(n + 1) = LET before == W(n)
                             next == m.item[before[Len(before)]].next
                         IN IF next = NULL THEN before ELSE Append(before, next)
          <6>1. n >= 1
            BY <4>3
          <6> QED BY <2>5, <6>1
        <5> QED BY <5>1, <5>3, <5>4 DEF l
      <4> QED BY <4>2, <4>3
    <3> HIDE DEF Q
    <3> QED BY <3>1, <3>2, Induct
  <2>10. r[c] = W(c)
    <3>1. c \in Nat /\ c >= 1
      BY <1>0, <2>0, <2>2
    <3> HIDE DEF W, c
    <3> QED BY <2>9, <3>1
  <2>11. W(c) = s
    <3>1. c = Len(s) \/ ~(c <= Len(s))
      BY <1>0, <2>2
    <3> HIDE DEF c
    <3> QED BY <3>1, Beginnings
  <2> QED BY <1>1, <2>1, <2>10, <2>11
<1> QED BY <1>2, <1>3

(* The items of memory m are those of the forest f, linked as it says, and *)
(* the lost ones of L.                                                     *)
Layout(m, f, R, L) ==
    /\ m \in Memory
    /\ Woods(f, R)
    /\ LinkedAs(m, f, R)
    /\ LiveItems(m) = DOMAIN f \cup L
    /\ DOMAIN f \cap L = {}

(* The items of a memory are numbered, NULL is none of them.               *)
LEMMA MemoryFacts ==
    ASSUME NEW m \in Memory
    PROVE  /\ DOMAIN m.item = 1..ItemCount
           /\ IsFiniteSet(1..ItemCount)
           /\ LiveItems(m) \subseteq 1..ItemCount
           /\ IsFiniteSet(LiveItems(m))
           /\ NULL \notin 1..ItemCount
           /\ NULL \in 0..ItemCount
           /\ 1..ItemCount \subseteq 0..ItemCount
           /\ \A x \in 1..ItemCount : m.item[x] \in Item
<1>1. m.item \in [1..ItemCount -> Item]
  BY DEF Memory
<1>2. ItemCount \in Nat
  BY CountsAssumption
<1>3. IsFiniteSet(1..ItemCount)
  BY <1>2, FS_Interval
<1>4. LiveItems(m) \subseteq 1..ItemCount
  BY <1>1 DEF LiveItems
<1>5. IsFiniteSet(LiveItems(m))
  BY <1>3, <1>4, FS_Subset
<1> QED BY <1>1, <1>2, <1>3, <1>4, <1>5 DEF NULL

(* What memory m holds is the forest f, as it is read.                     *)
LEMMA ForestIs ==
    ASSUME NEW m, NEW f, NEW R, NEW L, Layout(m, f, R, L)
    PROVE  /\ DOMAIN f \subseteq 1..ItemCount
           /\ R \subseteq DOMAIN f
           /\ DOMAIN f = LiveItems(m) \ L
           /\ f = ForestOf(m, DOMAIN f)
           /\ \A a \in DOMAIN f :
                 /\ m.item[a].isReference => f[a] = <<>>
                 /\ ~m.item[a].isReference => Children(m, a) = f[a]
                 /\ Owned(m, a) = Forest!Tree(f, a)
<1>1. /\ m \in Memory /\ IsListing(f) /\ OnePlace(f) /\ R \subseteq DOMAIN f
      /\ DOMAIN f \subseteq LiveItems(m) /\ DOMAIN f = LiveItems(m) \ L
      /\ LinkedAs(m, f, R)
  BY ForestPlaces DEF Layout, Woods
<1>2. /\ DOMAIN m.item = 1..ItemCount /\ IsFiniteSet(1..ItemCount)
      /\ LiveItems(m) \subseteq 1..ItemCount /\ IsFiniteSet(LiveItems(m))
      /\ NULL \notin LiveItems(m)
  BY <1>1, MemoryFacts
<1>3. ASSUME NEW a \in DOMAIN f, m.item[a].isReference PROVE f[a] = <<>>
  BY <1>1, <1>3 DEF LinkedAs
<1>4. ASSUME NEW a \in DOMAIN f, ~m.item[a].isReference PROVE Children(m, a) = f[a]
  <2> DEFINE s == f[a]
  <2>1. s \in Seq(LiveItems(m))
    <3>1. s \in Seq(DOMAIN f)
      BY <1>1 DEF IsListing
    <3> QED BY <1>1, <3>1, SeqMonotonic
  <2>2. \A i, j \in DOMAIN s : s[i] = s[j] => i = j
    BY <1>1 DEF OnePlace
  <2>3. m.item[a].child = Nth(s, 1) /\ \A i \in DOMAIN s : m.item[s[i]].next = Nth(s, i + 1)
    BY <1>1, <1>4 DEF LinkedAs
  <2> HIDE DEF s
  <2>4. Children(m, a) = s
    BY <1>2, <2>1, <2>2, <2>3, ChildrenAre
  <2> QED BY <2>4 DEF s
<1>5. f = ForestOf(m, DOMAIN f)
  <2>1. f = [a \in DOMAIN f |-> f[a]]
    BY <1>1 DEF IsListing
  <2> QED BY <1>3, <1>4, <2>1 DEF ForestOf
<1>6. ASSUME NEW a \in DOMAIN f PROVE Owned(m, a) = Forest!Tree(f, a)
  <2> DEFINE E == [x \in DOMAIN m.item |-> Below(m, x)]
             T == Forest!Tree(f, a)
  <2>1. a \in T /\ T \subseteq DOMAIN f /\ Inside(f, T)
    BY <1>1, TreeLeast
  <2>2. DOMAIN E = 1..ItemCount /\ \A x \in DOMAIN f : E[x] = {f[x][i] : i \in DOMAIN f[x]}
    <3>1. ASSUME NEW x \in DOMAIN f PROVE Below(m, x) = {f[x][i] : i \in DOMAIN f[x]}
      <4>1. CASE m.item[x].isReference
        <5>1. f[x] = <<>>
          BY <1>3, <4>1
        <5> QED BY <4>1, <5>1 DEF Below
      <4>2. CASE ~m.item[x].isReference
        <5>1. Children(m, x) = f[x]
          BY <1>4, <4>2
        <5> QED BY <4>2, <5>1 DEF Below, ToSet
      <4> QED BY <4>1, <4>2
    <3> QED BY <1>1, <1>2, <3>1
  <2>3. Owned(m, a) = Reach(E, a)
    BY DEF Owned
  <2> HIDE DEF E, T
  <2>4. \A x \in T : E[x] \subseteq T
    BY <2>1, <2>2 DEF Inside
  <2>5. T \in SUBSET DOMAIN E /\ IsFiniteSet(DOMAIN E)
    BY <1>1, <1>2, <2>1, <2>2
  <2>6. /\ a \in Reach(E, a) /\ Reach(E, a) \subseteq T
        /\ \A x \in Reach(E, a) : E[x] \subseteq Reach(E, a)
    BY <2>1, <2>4, <2>5, ReachLeast
  <2>7. Inside(f, Reach(E, a))
    BY <2>1, <2>2, <2>6 DEF Inside
  <2>8. T \subseteq Reach(E, a)
    BY <1>1, <2>6, <2>7, TreeLeast DEF T
  <2> QED BY <2>3, <2>6, <2>8 DEF T
<1> QED BY <1>1, <1>2, <1>3, <1>4, <1>5, <1>6

-----------------------------------------------------------------------------
(* What Delete follows.                                                    *)

(* The items of a list have their next in it, and none is a loose item.    *)
LEMMA NextIs ==
    ASSUME NEW m, NEW f, NEW R, NEW L, Layout(m, f, R, L), NEW x \in DOMAIN f
    PROVE  /\ x \notin R =>
                \E y \in DOMAIN f : \E i \in DOMAIN f[y] :
                    /\ f[y][i] = x
                    /\ ~m.item[y].isReference
                    /\ m.item[x].next = Nth(f[y], i + 1)
                    /\ m.item[x].prev = Nth(f[y], i - 1)
           /\ x \in R => m.item[x].next = NULL /\ m.item[x].prev = NULL
           /\ ~m.item[x].isReference => m.item[x].child = Nth(f[x], 1)
<1>1. /\ m \in Memory /\ IsListing(f) /\ R \subseteq DOMAIN f /\ LinkedAs(m, f, R)
  BY ForestPlaces DEF Layout, Woods
<1>2. ASSUME x \notin R
      PROVE  \E y \in DOMAIN f : \E i \in DOMAIN f[y] :
                    /\ f[y][i] = x
                    /\ ~m.item[y].isReference
                    /\ m.item[x].next = Nth(f[y], i + 1)
                    /\ m.item[x].prev = Nth(f[y], i - 1)
  <2>1. PICK r \in R : x \in Forest!Tree(f, r)
    BY DEF Layout, Woods, Forest!IsForest
  <2>2. PICK y \in Forest!Tree(f, r) : \E i \in DOMAIN f[y] : f[y][i] = x
    BY <1>1, <1>2, <2>1, ParentInTree
  <2>3. y \in DOMAIN f
    BY <1>1, <2>1, <2>2, TreeLeast
  <2>4. PICK i \in DOMAIN f[y] : f[y][i] = x
    BY <2>2
  <2>5. ~m.item[y].isReference
    <3> SUFFICES ASSUME m.item[y].isReference PROVE FALSE
      OBVIOUS
    <3>1. f[y] = <<>>
      BY <1>1, <2>3 DEF LinkedAs
    <3> QED BY <2>4, <3>1
  <2> QED BY <1>1, <2>3, <2>4, <2>5 DEF LinkedAs
<1> QED BY <1>1, <1>2 DEF LinkedAs

(* Delete goes on from an item to the first child of it, and to the next   *)
(* in the list that it is in.                                              *)
LEMMA AfterIs ==
    ASSUME NEW m, NEW f, NEW R, NEW L, Layout(m, f, R, L)
    PROVE  /\ \A x \in DOMAIN f : \A z \in After(m, x) :
                 \E y \in DOMAIN f : \E j \in DOMAIN f[y] :
                    /\ z = f[y][j]
                    /\ IF j = 1 THEN y = x
                       ELSE j - 1 \in DOMAIN f[y] /\ f[y][j - 1] = x
           /\ \A y \in DOMAIN f : \A j \in DOMAIN f[y] :
                 IF j = 1 THEN f[y][j] \in After(m, y)
                 ELSE j - 1 \in DOMAIN f[y] /\ f[y][j] \in After(m, f[y][j - 1])
<1>1. /\ m \in Memory /\ IsListing(f) /\ R \subseteq DOMAIN f /\ LinkedAs(m, f, R)
      /\ \A x \in DOMAIN f : \A i \in DOMAIN f[x] : f[x][i] \notin R /\ f[x][i] \in DOMAIN f
  BY ForestPlaces DEF Layout, Woods
<1>2. DOMAIN f \subseteq 1..ItemCount /\ NULL \notin 1..ItemCount
  BY <1>1, ForestIs, MemoryFacts
<1>3. \A y \in DOMAIN f : DOMAIN f[y] = 1..Len(f[y]) /\ Len(f[y]) \in Nat
  BY <1>1 DEF IsListing
<1>4. ASSUME NEW x \in DOMAIN f, NEW z \in After(m, x)
      PROVE  \E y \in DOMAIN f : \E j \in DOMAIN f[y] :
                    /\ z = f[y][j]
                    /\ IF j = 1 THEN y = x
                       ELSE j - 1 \in DOMAIN f[y] /\ f[y][j - 1] = x
  <2>1. z # NULL /\ (z = m.item[x].next \/ (~m.item[x].isReference /\ z = m.item[x].child))
    BY <1>4 DEF After
  <2>2. CASE z = m.item[x].next
    <3>1. x \notin R
      BY <2>1, <2>2, NextIs
    <3>2. PICK y \in DOMAIN f : \E i \in DOMAIN f[y] :
                    f[y][i] = x /\ m.item[x].next = Nth(f[y], i + 1)
      BY <3>1, NextIs
    <3>3. PICK i \in DOMAIN f[y] : f[y][i] = x /\ m.item[x].next = Nth(f[y], i + 1)
      BY <3>2
    <3> DEFINE j == i + 1
    <3>4. j \in DOMAIN f[y] /\ z = f[y][j]
      BY <2>1, <2>2, <3>3 DEF Nth
    <3>5. j # 1 /\ j - 1 = i
      BY <1>3
    <3> HIDE DEF j
    <3>6. j - 1 \in DOMAIN f[y] /\ f[y][j - 1] = x
      BY <3>3, <3>5
    <3> QED BY <3>4, <3>5, <3>6
  <2>3. CASE ~m.item[x].isReference /\ z = m.item[x].child
    <3>1. m.item[x].child = Nth(f[x], 1)
      BY <2>3, NextIs
    <3>2. 1 \in DOMAIN f[x] /\ z = f[x][1]
      BY <2>1, <2>3, <3>1 DEF Nth
    <3> QED BY <3>2
  <2> QED BY <2>1, <2>2, <2>3
<1>5. ASSUME NEW y \in DOMAIN f, NEW j \in DOMAIN f[y]
      PROVE  IF j = 1 THEN f[y][j] \in After(m, y)
             ELSE j - 1 \in DOMAIN f[y] /\ f[y][j] \in After(m, f[y][j - 1])
  <2>1. f[y][j] # NULL /\ f[y] # <<>>
    BY <1>1, <1>2
  <2>2. ~m.item[y].isReference
    BY <1>1, <2>1 DEF LinkedAs
  <2>3. CASE j = 1
    <3>1. m.item[y].child = f[y][1]
      BY <1>1, <2>2, <2>3 DEF LinkedAs, Nth
    <3> QED BY <2>1, <2>2, <2>3, <3>1 DEF After
  <2>4. CASE j # 1
    <3> DEFINE i == j - 1
    <3>1. i \in DOMAIN f[y] /\ i + 1 = j
      BY <1>3, <2>4
    <3> HIDE DEF i
    <3>2. m.item[f[y][i]].next = Nth(f[y], i + 1)
      BY <1>1, <2>2, <3>1 DEF LinkedAs
    <3>3. m.item[f[y][i]].next = f[y][j]
      BY <3>1, <3>2 DEF Nth
    <3>4. f[y][j] \in After(m, f[y][i])
      BY <2>1, <3>3 DEF After
    <3> QED BY <2>4, <3>1, <3>4 DEF i
  <2> QED BY <2>3, <2>4
<1> QED BY <1>4, <1>5

(* What is deleted with a loose item is its tree, and each item once.      *)
LEMMA DeletedIs ==
    ASSUME NEW m, NEW f, NEW R, NEW L, Layout(m, f, R, L), NEW r \in R
    PROVE  /\ Deleted(m, r) = Forest!Tree(f, r)
           /\ DeletedOnce(m, r, Forest!Tree(f, r))
<1> DEFINE T == Forest!Tree(f, r)
           E == [x \in DOMAIN m.item |-> After(m, x)]
<1>1. /\ m \in Memory /\ IsListing(f) /\ OnePlace(f) /\ R \subseteq DOMAIN f
      /\ \A x \in DOMAIN f : \A i \in DOMAIN f[x] : f[x][i] \notin R /\ f[x][i] \in DOMAIN f
      /\ DOMAIN f \subseteq LiveItems(m)
  BY ForestPlaces DEF Layout, Woods
<1>2. /\ DOMAIN f \subseteq 1..ItemCount /\ DOMAIN m.item = 1..ItemCount
      /\ IsFiniteSet(1..ItemCount)
  BY <1>1, ForestIs, MemoryFacts
<1>3. /\ r \in T /\ T \subseteq DOMAIN f /\ Inside(f, T)
      /\ \A S : r \in S /\ Inside(f, S) => T \subseteq S
  BY <1>1, TreeLeast
<1>4. Deleted(m, r) = Reach(E, r)
  BY DEF Deleted
<1>5. DOMAIN E = 1..ItemCount /\ \A x \in DOMAIN f : E[x] = After(m, x)
  BY <1>2
<1>p. \A y \in DOMAIN f : \A j \in DOMAIN f[y] : f[y][j] \in T => y \in T
  BY <1>1, StaysOut DEF Layout, Woods
<1> HIDE DEF E, T
<1>6. ASSUME NEW x \in T PROVE E[x] \subseteq T
  <2> SUFFICES ASSUME NEW z \in After(m, x) PROVE z \in T
    BY <1>3, <1>5
  <2>1. PICK y \in DOMAIN f : \E j \in DOMAIN f[y] :
                    /\ z = f[y][j]
                    /\ IF j = 1 THEN y = x
                       ELSE j - 1 \in DOMAIN f[y] /\ f[y][j - 1] = x
    BY <1>3, AfterIs
  <2>2. y \in T
    BY <1>p, <2>1
  <2> QED BY <1>3, <2>1, <2>2 DEF Inside
<1>7. T \in SUBSET DOMAIN E /\ IsFiniteSet(DOMAIN E)
  BY <1>2, <1>3, <1>5
<1>8. /\ r \in Reach(E, r) /\ Reach(E, r) \subseteq T
      /\ \A x \in Reach(E, r) : E[x] \subseteq Reach(E, r)
  BY <1>3, <1>6, <1>7, ReachLeast
<1>9. Inside(f, Reach(E, r))
  <2> SUFFICES ASSUME NEW x \in Reach(E, r), x \in DOMAIN f
               PROVE  \A i \in DOMAIN f[x] : f[x][i] \in Reach(E, r)
    BY DEF Inside
  <2> DEFINE Q == {i \in Nat : i \in DOMAIN f[x] => f[x][i] \in Reach(E, r)}
  <2>0. DOMAIN f[x] = 1..Len(f[x]) /\ Len(f[x]) \in Nat
    BY <1>1 DEF IsListing
  <2>1. 0 \in Q
    BY <2>0
  <2>2. ASSUME NEW n \in Nat, n \in Q PROVE n + 1 \in Q
    <3> DEFINE j == n + 1
    <3> SUFFICES ASSUME j \in DOMAIN f[x] PROVE f[x][j] \in Reach(E, r)
      OBVIOUS
    <3>1. j - 1 = n
      OBVIOUS
    <3> HIDE DEF j
    <3>2. CASE j = 1
      <4>1. f[x][j] \in After(m, x)
        BY <3>2, AfterIs
      <4> QED BY <1>5, <1>8, <4>1
    <3>3. CASE j # 1
      <4>1. n \in DOMAIN f[x] /\ f[x][j] \in After(m, f[x][n])
        BY <3>1, <3>3, AfterIs
      <4>2. f[x][n] \in Reach(E, r) /\ f[x][n] \in DOMAIN f
        BY <1>1, <2>2, <4>1
      <4> QED BY <1>5, <1>8, <4>1, <4>2
    <3> QED BY <3>2, <3>3
  <2> HIDE DEF Q
  <2>3. Nat \subseteq Q
    BY <2>1, <2>2, Induct
  <2> QED BY <2>0, <2>3 DEF Q
<1>10. Deleted(m, r) = T
  BY <1>3, <1>4, <1>8, <1>9
<1>11. ASSUME NEW x \in T PROVE m.item[x].live
  BY <1>1, <1>3 DEF LiveItems
<1>12. ASSUME NEW x \in T PROVE r \notin After(m, x)
  <2> SUFFICES ASSUME r \in After(m, x) PROVE FALSE
    OBVIOUS
  <2>1. PICK y \in DOMAIN f : \E j \in DOMAIN f[y] : r = f[y][j]
    BY <1>3, AfterIs
  <2> QED BY <1>1, <2>1
<1>13. ASSUME NEW x \in T, m.item[x].next = m.item[x].child,
              m.item[x].next # NULL, ~m.item[x].isReference
       PROVE  FALSE
  <2>0. x \in DOMAIN f
    BY <1>3
  <2>1. x \notin R
    BY <1>13, <2>0, NextIs
  <2>2. PICK y \in DOMAIN f : \E i \in DOMAIN f[y] :
                    f[y][i] = x /\ m.item[x].next = Nth(f[y], i + 1)
    BY <2>0, <2>1, NextIs
  <2>3. PICK i \in DOMAIN f[y] : f[y][i] = x /\ m.item[x].next = Nth(f[y], i + 1)
    BY <2>2
  <2>4. i + 1 \in DOMAIN f[y] /\ m.item[x].next = f[y][i + 1]
    BY <1>13, <2>3 DEF Nth
  <2>5. m.item[x].child = Nth(f[x], 1)
    BY <1>13, <2>0, NextIs
  <2>6. 1 \in DOMAIN f[x] /\ m.item[x].child = f[x][1]
    BY <1>13, <2>5 DEF Nth
  <2>7. i + 1 = 1
    <3> DEFINE j == i + 1
    <3>1. f[y][j] = f[x][1] /\ j \in DOMAIN f[y]
      BY <1>13, <2>4, <2>6
    <3> HIDE DEF j
    <3>2. j = 1
      BY <1>1, <2>0, <2>6, <3>1, Zenon DEF OnePlace
    <3> QED BY <3>2 DEF j
  <2>8. i \in 1..Len(f[y])
    BY <1>1 DEF IsListing
  <2> QED BY <2>7, <2>8
<1>14. ASSUME NEW x \in T, NEW y \in T, x # y PROVE After(m, x) \cap After(m, y) = {}
  <2> SUFFICES ASSUME NEW z \in After(m, x), z \in After(m, y) PROVE FALSE
    OBVIOUS
  <2>1. PICK u \in DOMAIN f : \E j \in DOMAIN f[u] :
                    /\ z = f[u][j]
                    /\ IF j = 1 THEN u = x
                       ELSE j - 1 \in DOMAIN f[u] /\ f[u][j - 1] = x
    BY <1>3, AfterIs
  <2>2. PICK v \in DOMAIN f : \E j \in DOMAIN f[v] :
                    /\ z = f[v][j]
                    /\ IF j = 1 THEN v = y
                       ELSE j - 1 \in DOMAIN f[v] /\ f[v][j - 1] = y
    BY <1>3, AfterIs
  <2>3. PICK j \in DOMAIN f[u] : /\ z = f[u][j]
                                 /\ IF j = 1 THEN u = x
                                    ELSE j - 1 \in DOMAIN f[u] /\ f[u][j - 1] = x
    BY <2>1
  <2>4. PICK h \in DOMAIN f[v] : /\ z = f[v][h]
                                 /\ IF h = 1 THEN v = y
                                    ELSE h - 1 \in DOMAIN f[v] /\ f[v][h - 1] = y
    BY <2>2
  <2>5. u = v /\ j = h
    <3>1. f[u][j] = f[v][h]
      BY <2>3, <2>4
    <3> QED BY <1>1, <3>1, Zenon DEF OnePlace
  <2> QED BY <1>14, <2>3, <2>4, <2>5
<1>15. DeletedOnce(m, r, T)
  BY <1>11, <1>12, <1>13, <1>14 DEF DeletedOnce
<1> QED BY <1>10, <1>15 DEF T

(* The blocks of strings in use are those that the items of S own, once.   *)
Strings(m, S) == OwnedOnce(m, S) /\ Blocks(m) = OwnedBlocks(m, S)

Sound(m, f, R, L) == Layout(m, f, R, L) /\ Strings(m, DOMAIN f) /\ ~m.bad

(* What a new item and an unused place hold.                               *)
LEMMA BlankIs ==
    /\ NoString.id = 0
    /\ NoString \in Text
    /\ Blank \in Item /\ Unused \in Item
    /\ Blank.live /\ ~Blank.isReference /\ ~Blank.stringIsConst
    /\ Blank.child = NULL /\ Blank.next = NULL /\ Blank.prev = NULL
    /\ Blank.string = NoString /\ Blank.valuestring = NoString
    /\ ~Unused.live
<1>1. NoString.id = 0
  BY DEF NoString
<1>2. NoString \in Text
  <2>1. <<>> \in Seq(STRING) /\ 0 \in 0..StringCount
    BY CountsAssumption
  <2> QED BY <2>1 DEF NoString, Text
<1>3. NULL \in 0..ItemCount
  BY CountsAssumption DEF NULL
<1>4. Blank \in Item
  BY <1>2, <1>3 DEF Blank, Item
<1>5. Unused \in Item /\ ~Unused.live
  BY <1>4 DEF Unused, Item, Blank
<1> QED BY <1>1, <1>2, <1>4, <1>5 DEF Blank

(* What some of the items own, when no string is owned twice.              *)
LEMMA OwnedPart ==
    ASSUME NEW m, NEW S, OwnedOnce(m, S), NEW T \in SUBSET S
    PROVE  /\ OwnedOnce(m, T)
           /\ OwnedBlocks(m, T) \subseteq OwnedBlocks(m, S)
           /\ OwnedBlocks(m, S \ T) = OwnedBlocks(m, S) \ OwnedBlocks(m, T)
<1>1. Slots(T) \subseteq Slots(S) /\ Slots(S \ T) = Slots(S) \ Slots(T)
  BY DEF Slots
<1>2. OwnedOnce(m, T)
  BY <1>1 DEF OwnedOnce
<1>3. OwnedBlocks(m, T) \subseteq OwnedBlocks(m, S)
  BY <1>1 DEF OwnedBlocks
<1>4. ASSUME NEW b PROVE b \in OwnedBlocks(m, S \ T) <=>
                            b \in OwnedBlocks(m, S) /\ b \notin OwnedBlocks(m, T)
  <2>1. ASSUME b \in OwnedBlocks(m, S \ T)
        PROVE  b \in OwnedBlocks(m, S) /\ b \notin OwnedBlocks(m, T)
    <3>1. PICK s \in Slots(S \ T) : b = Own(m, s).id /\ b # 0
      BY <2>1 DEF OwnedBlocks
    <3>2. b \in OwnedBlocks(m, S)
      BY <1>1, <3>1 DEF OwnedBlocks
    <3>3. ASSUME b \in OwnedBlocks(m, T) PROVE FALSE
      <4>1. PICK t \in Slots(T) : b = Own(m, t).id
        BY <3>3 DEF OwnedBlocks
      <4>2. Own(m, s) # NoString /\ Own(m, t) # NoString
        BY <3>1, <4>1, BlankIs
      <4>3. s = t
        BY <1>1, <3>1, <4>1, <4>2 DEF OwnedOnce
      <4> QED BY <1>1, <3>1, <4>1, <4>3
    <3> QED BY <3>2, <3>3
  <2>2. ASSUME b \in OwnedBlocks(m, S), b \notin OwnedBlocks(m, T)
        PROVE  b \in OwnedBlocks(m, S \ T)
    <3>1. PICK s \in Slots(S) : b = Own(m, s).id /\ b # 0
      BY <2>2 DEF OwnedBlocks
    <3>2. s \notin Slots(T)
      BY <2>2, <3>1 DEF OwnedBlocks
    <3> QED BY <1>1, <3>1, <3>2 DEF OwnedBlocks
  <2> QED BY <2>1, <2>2
<1> QED BY <1>2, <1>3, <1>4

(* Items with the same strings own the same.                               *)
LEMMA OwnedSame ==
    ASSUME NEW m, NEW n, NEW S,
           \A x \in S : OwnName(n, x) = OwnName(m, x) /\ OwnValue(n, x) = OwnValue(m, x)
    PROVE  /\ OwnedOnce(n, S) <=> OwnedOnce(m, S)
           /\ OwnedBlocks(n, S) = OwnedBlocks(m, S)
           /\ \A s \in Slots(S) : Own(n, s) = Own(m, s)
<1>1. \A s \in Slots(S) : Own(n, s) = Own(m, s)
  BY DEF Slots, Own
<1>2. OwnedBlocks(n, S) = OwnedBlocks(m, S)
  BY <1>1 DEF OwnedBlocks
<1>3. OwnedOnce(n, S) <=> OwnedOnce(m, S)
  BY <1>1 DEF OwnedOnce
<1> QED BY <1>1, <1>2, <1>3

(* A loose item is deleted with its tree and the strings it owns.          *)
LEMMA DeleteSound ==
    ASSUME NEW m, NEW f, NEW R, NEW L, Sound(m, f, R, L), NEW r \in R
    PROVE  Sound(Delete(m, r), Forest!Without(f, r), R \ {r}, L)
<1> DEFINE T == Forest!Tree(f, r)
           g == Forest!Without(f, r)
           n == Delete(m, r)
           freed == OwnedBlocks(m, T)
           D == DOMAIN f
<1>1. /\ m \in Memory /\ IsListing(f) /\ R \subseteq D /\ LinkedAs(m, f, R)
      /\ \A x \in D : \A i \in DOMAIN f[x] : f[x][i] \notin R /\ f[x][i] \in D
      /\ LiveItems(m) = D \cup L /\ D \cap L = {}
      /\ OwnedOnce(m, D) /\ Blocks(m) = OwnedBlocks(m, D) /\ ~m.bad
  BY ForestPlaces DEF Sound, Layout, Woods, Strings
<1>2. /\ D \subseteq 1..ItemCount /\ DOMAIN m.item = 1..ItemCount
      /\ NULL \notin 1..ItemCount /\ m.item \in [1..ItemCount -> Item]
      /\ m.str \in [1..StringCount -> BOOLEAN] /\ m.bad = FALSE
  BY <1>1, ForestIs, MemoryFacts DEF Sound, Memory
<1>3. /\ Woods(g, R \ {r})
      /\ DOMAIN g = D \ T
      /\ \A x \in D \ T : g[x] = f[x]
      /\ \A x \in D \ T : \A i \in DOMAIN f[x] : f[x][i] \notin T
  BY WoodsDiscard, StaysOut DEF Sound, Layout, Woods
<1>4. T \subseteq D /\ r \in T /\ r # NULL
  BY <1>1, <1>2, TreeLeast
<1>5. Deleted(m, r) = T /\ DeletedOnce(m, r, T)
  BY DeletedIs DEF Sound
<1>6. OwnedOnce(m, T) /\ freed \subseteq Blocks(m) /\ OwnedBlocks(m, D \ T) = Blocks(m) \ freed
      /\ OwnedOnce(m, D \ T)
  <2>1. T \in SUBSET D /\ D \ T \in SUBSET D /\ OwnedOnce(m, D)
    BY <1>1, <1>4
  <2> HIDE DEF T, D, freed
  <2>2. OwnedOnce(m, T) /\ OwnedOnce(m, D \ T)
    BY <2>1, OwnedPart
  <2>3. /\ OwnedBlocks(m, T) \subseteq OwnedBlocks(m, D)
        /\ OwnedBlocks(m, D \ T) = OwnedBlocks(m, D) \ OwnedBlocks(m, T)
    BY <2>1, OwnedPart
  <2> QED BY <1>1, <2>2, <2>3 DEF freed
<1> HIDE DEF T, g, freed, D
<1>7. n = [m EXCEPT !.item = [x \in DOMAIN m.item |->
                                 IF x \in T THEN Unused ELSE m.item[x]],
                    !.str = [b \in DOMAIN m.str |-> m.str[b] /\ b \notin freed]]
  BY <1>4, <1>5, <1>6 DEF Delete, BadIf, freed
<1>8. /\ DOMAIN n.item = 1..ItemCount
      /\ \A x \in 1..ItemCount : n.item[x] = IF x \in T THEN Unused ELSE m.item[x]
      /\ n.str = [b \in 1..StringCount |-> m.str[b] /\ b \notin freed]
      /\ n.bad = FALSE
  BY <1>2, <1>7 DEF Memory
<1>9. n \in Memory
  <2>1. Unused \in Item
    BY BlankIs
  <2>2. [x \in 1..ItemCount |-> IF x \in T THEN Unused ELSE m.item[x]] \in [1..ItemCount -> Item]
    BY <1>2, <2>1
  <2>3. [b \in 1..StringCount |-> m.str[b] /\ b \notin freed] \in [1..StringCount -> BOOLEAN]
    BY <1>2
  <2>4. DOMAIN m.str = 1..StringCount
    BY <1>2
  <2> QED BY <1>1, <1>2, <1>7, <2>2, <2>3, <2>4 DEF Memory
<1> HIDE DEF n
<1>10. LiveItems(n) = LiveItems(m) \ T
  BY <1>2, <1>8 DEF LiveItems, Unused, Blank
<1>11. LinkedAs(n, g, R \ {r})
  <2>1. \A x \in D \ T : x \in 1..ItemCount /\ n.item[x] = m.item[x]
    BY <1>2, <1>8
  <2>2. R \ {r} \subseteq D \ T
    BY <1>3, ForestPlaces DEF Woods
  <2>3. ASSUME NEW x \in D \ T
        PROVE  IF n.item[x].isReference THEN g[x] = <<>>
               ELSE /\ n.item[x].child = Nth(g[x], 1)
                    /\ \A i \in DOMAIN g[x] :
                         /\ n.item[g[x][i]].next = Nth(g[x], i + 1)
                         /\ n.item[g[x][i]].prev = Nth(g[x], i - 1)
    <3>1. g[x] = f[x] /\ n.item[x] = m.item[x] /\ x \in D
      BY <1>3, <2>1
    <3>2. \A i \in DOMAIN f[x] : n.item[f[x][i]] = m.item[f[x][i]]
      BY <1>1, <1>3, <2>1
    <3>3. IF m.item[x].isReference THEN f[x] = <<>>
          ELSE /\ m.item[x].child = Nth(f[x], 1)
               /\ \A i \in DOMAIN f[x] :
                    /\ m.item[f[x][i]].next = Nth(f[x], i + 1)
                    /\ m.item[f[x][i]].prev = Nth(f[x], i - 1)
      BY <1>1, <3>1 DEF LinkedAs, D
    <3> QED BY <3>1, <3>2, <3>3
  <2>4. \A s \in R \ {r} : n.item[s].next = NULL /\ n.item[s].prev = NULL
    BY <1>1, <2>1, <2>2 DEF LinkedAs
  <2> QED BY <1>3, <2>3, <2>4 DEF LinkedAs
<1>12. Layout(n, g, R \ {r}, L)
  <2>1. LiveItems(n) = DOMAIN g \cup L /\ DOMAIN g \cap L = {}
    BY <1>1, <1>3, <1>4, <1>10
  <2> QED BY <1>3, <1>9, <1>11, <2>1 DEF Layout
<1>13. Strings(n, DOMAIN g)
  <2>1. \A x \in D \ T : OwnName(n, x) = OwnName(m, x) /\ OwnValue(n, x) = OwnValue(m, x)
    BY <1>2, <1>8 DEF OwnName, OwnValue
  <2>2. OwnedOnce(n, D \ T) /\ OwnedBlocks(n, D \ T) = OwnedBlocks(m, D \ T)
    BY <1>6, <2>1, OwnedSame
  <2>3. Blocks(n) = Blocks(m) \ freed
    <3>1. Blocks(n) = {b \in 1..StringCount : m.str[b] /\ b \notin freed}
      BY <1>8 DEF Blocks
    <3>2. Blocks(m) = {b \in 1..StringCount : m.str[b]}
      BY <1>2 DEF Blocks
    <3> QED BY <3>1, <3>2
  <2> QED BY <1>3, <1>6, <2>2, <2>3 DEF Strings
<1> QED BY <1>8, <1>12, <1>13 DEF Sound, n, g

(* Memory n is m with some items linked in another way.                    *)
Relinked(m, n) ==
    /\ n \in Memory
    /\ n.str = m.str
    /\ n.bad = m.bad
    /\ \A x \in 1..ItemCount :
          /\ n.item[x].live = m.item[x].live
          /\ n.item[x].isReference = m.item[x].isReference
          /\ n.item[x].stringIsConst = m.item[x].stringIsConst
          /\ n.item[x].string = m.item[x].string
          /\ n.item[x].valuestring = m.item[x].valuestring

(* One item of a memory is written.                                        *)
LEMMA ItemSet ==
    ASSUME NEW m \in Memory, NEW a \in 1..ItemCount, NEW e \in Item
    PROVE  /\ [m EXCEPT !.item[a] = e] \in Memory
           /\ [m EXCEPT !.item[a] = e].str = m.str
           /\ [m EXCEPT !.item[a] = e].bad = m.bad
           /\ \A x \in 1..ItemCount :
                 [m EXCEPT !.item[a] = e].item[x] = IF x = a THEN e ELSE m.item[x]
  BY DEF Memory

(* The next of an item is set.                                             *)
LEMMA NextSet ==
    ASSUME NEW m \in Memory, NEW a \in 1..ItemCount, NEW v \in 0..ItemCount
    PROVE  LET n == [m EXCEPT !.item[a].next = v]
           IN /\ Relinked(m, n)
              /\ \A x \in 1..ItemCount :
                    /\ n.item[x].child = m.item[x].child
                    /\ n.item[x].next = IF x = a THEN v ELSE m.item[x].next
                    /\ n.item[x].prev = m.item[x].prev
<1> DEFINE e == [m.item[a] EXCEPT !.next = v]
           n == [m EXCEPT !.item[a] = e]
<1>1. m.item[a] \in Item
  BY DEF Memory
<1>2. e \in Item /\ e.next = v
        /\ e.child = m.item[a].child /\ e.prev = m.item[a].prev /\ e.live = m.item[a].live
        /\ e.isReference = m.item[a].isReference /\ e.stringIsConst = m.item[a].stringIsConst
        /\ e.string = m.item[a].string /\ e.valuestring = m.item[a].valuestring
  BY <1>1 DEF Item
<1>3. [m EXCEPT !.item[a].next = v] = n
  OBVIOUS
<1> HIDE DEF e
<1>4. /\ n \in Memory /\ n.str = m.str /\ n.bad = m.bad
      /\ \A x \in 1..ItemCount : n.item[x] = IF x = a THEN e ELSE m.item[x]
  BY <1>2, ItemSet
<1> HIDE DEF n
<1>5. Relinked(m, n)
  BY <1>2, <1>4 DEF Relinked
<1>6. \A x \in 1..ItemCount :
         /\ n.item[x].child = m.item[x].child
         /\ n.item[x].next = IF x = a THEN v ELSE m.item[x].next
         /\ n.item[x].prev = m.item[x].prev
  BY <1>2, <1>4
<1> QED BY <1>3, <1>5, <1>6

(* The prev of an item is set.                                             *)
LEMMA PrevSet ==
    ASSUME NEW m \in Memory, NEW a \in 1..ItemCount, NEW v \in 0..ItemCount
    PROVE  LET n == [m EXCEPT !.item[a].prev = v]
           IN /\ Relinked(m, n)
              /\ \A x \in 1..ItemCount :
                    /\ n.item[x].child = m.item[x].child
                    /\ n.item[x].next = m.item[x].next
                    /\ n.item[x].prev = IF x = a THEN v ELSE m.item[x].prev
<1> DEFINE e == [m.item[a] EXCEPT !.prev = v]
           n == [m EXCEPT !.item[a] = e]
<1>1. m.item[a] \in Item
  BY DEF Memory
<1>2. e \in Item /\ e.prev = v
        /\ e.child = m.item[a].child /\ e.next = m.item[a].next /\ e.live = m.item[a].live
        /\ e.isReference = m.item[a].isReference /\ e.stringIsConst = m.item[a].stringIsConst
        /\ e.string = m.item[a].string /\ e.valuestring = m.item[a].valuestring
  BY <1>1 DEF Item
<1>3. [m EXCEPT !.item[a].prev = v] = n
  OBVIOUS
<1> HIDE DEF e
<1>4. /\ n \in Memory /\ n.str = m.str /\ n.bad = m.bad
      /\ \A x \in 1..ItemCount : n.item[x] = IF x = a THEN e ELSE m.item[x]
  BY <1>2, ItemSet
<1> HIDE DEF n
<1>5. Relinked(m, n)
  BY <1>2, <1>4 DEF Relinked
<1>6. \A x \in 1..ItemCount :
         /\ n.item[x].child = m.item[x].child
         /\ n.item[x].next = m.item[x].next
         /\ n.item[x].prev = IF x = a THEN v ELSE m.item[x].prev
  BY <1>2, <1>4
<1> QED BY <1>3, <1>5, <1>6

(* The child of an item is set.                                            *)
LEMMA ChildSet ==
    ASSUME NEW m \in Memory, NEW a \in 1..ItemCount, NEW v \in 0..ItemCount
    PROVE  LET n == [m EXCEPT !.item[a].child = v]
           IN /\ Relinked(m, n)
              /\ \A x \in 1..ItemCount :
                    /\ n.item[x].child = IF x = a THEN v ELSE m.item[x].child
                    /\ n.item[x].next = m.item[x].next
                    /\ n.item[x].prev = m.item[x].prev
<1> DEFINE e == [m.item[a] EXCEPT !.child = v]
           n == [m EXCEPT !.item[a] = e]
<1>1. m.item[a] \in Item
  BY DEF Memory
<1>2. e \in Item /\ e.child = v
        /\ e.prev = m.item[a].prev /\ e.next = m.item[a].next /\ e.live = m.item[a].live
        /\ e.isReference = m.item[a].isReference /\ e.stringIsConst = m.item[a].stringIsConst
        /\ e.string = m.item[a].string /\ e.valuestring = m.item[a].valuestring
  BY <1>1 DEF Item
<1>3. [m EXCEPT !.item[a].child = v] = n
  OBVIOUS
<1> HIDE DEF e
<1>4. /\ n \in Memory /\ n.str = m.str /\ n.bad = m.bad
      /\ \A x \in 1..ItemCount : n.item[x] = IF x = a THEN e ELSE m.item[x]
  BY <1>2, ItemSet
<1> HIDE DEF n
<1>5. Relinked(m, n)
  BY <1>2, <1>4 DEF Relinked
<1>6. \A x \in 1..ItemCount :
         /\ n.item[x].child = IF x = a THEN v ELSE m.item[x].child
         /\ n.item[x].next = m.item[x].next
         /\ n.item[x].prev = m.item[x].prev
  BY <1>2, <1>4
<1> QED BY <1>3, <1>5, <1>6

(* Links that are set one after the other.                                 *)
LEMMA RelinkedOn ==
    ASSUME NEW m, NEW n, NEW o, Relinked(m, n), Relinked(n, o)
    PROVE  Relinked(m, o)
  BY DEF Relinked

(* A memory where no link was set yet.                                     *)
LEMMA RelinkedSelf ==
    ASSUME NEW m \in Memory
    PROVE  Relinked(m, m)
  BY DEF Relinked

(* The children of p.                                                      *)
Kids(f, p) == {f[p][i] : i \in DOMAIN f[p]}

(* Only the list of p and the loose items are linked in another way.       *)
LEMMA RelinkSound ==
    ASSUME NEW m, NEW f, NEW R, NEW L, Sound(m, f, R, L),
           NEW p \in DOMAIN f, ~m.item[p].isReference, NEW t, NEW Q, NEW n,
           Woods([f EXCEPT ![p] = t], Q), Relinked(m, n),
           Q \subseteq R \cup Kids(f, p),
           \A x \in 1..ItemCount : x # p => n.item[x].child = m.item[x].child,
           \A x \in 1..ItemCount : x \notin R \cup Kids(f, p) =>
                /\ n.item[x].next = m.item[x].next
                /\ n.item[x].prev = m.item[x].prev,
           n.item[p].child = Nth(t, 1),
           \A i \in DOMAIN t : /\ n.item[t[i]].next = Nth(t, i + 1)
                               /\ n.item[t[i]].prev = Nth(t, i - 1),
           \A x \in Q : n.item[x].next = NULL /\ n.item[x].prev = NULL
    PROVE  Sound(n, [f EXCEPT ![p] = t], Q, L)
<1> DEFINE g == [f EXCEPT ![p] = t]
           D == DOMAIN f
<1>1. /\ m \in Memory /\ IsListing(f) /\ OnePlace(f) /\ R \subseteq D /\ LinkedAs(m, f, R)
      /\ \A x \in D : \A i \in DOMAIN f[x] : f[x][i] \notin R /\ f[x][i] \in D
      /\ LiveItems(m) = D \cup L /\ D \cap L = {}
      /\ OwnedOnce(m, D) /\ Blocks(m) = OwnedBlocks(m, D) /\ ~m.bad
  BY ForestPlaces DEF Sound, Layout, Woods, Strings
<1>2. D \subseteq 1..ItemCount /\ DOMAIN m.item = 1..ItemCount /\ DOMAIN n.item = 1..ItemCount
  BY <1>1, ForestIs, MemoryFacts DEF Sound, Relinked
<1>3. DOMAIN g = D /\ g[p] = t /\ \A x \in D : x # p => g[x] = f[x]
  OBVIOUS
<1> HIDE DEF g, D
<1>4. LiveItems(n) = LiveItems(m)
  BY <1>2 DEF LiveItems, Relinked
<1>5. LinkedAs(n, g, Q)
  <2>1. ASSUME NEW x \in D
        PROVE  IF n.item[x].isReference THEN g[x] = <<>>
               ELSE /\ n.item[x].child = Nth(g[x], 1)
                    /\ \A i \in DOMAIN g[x] :
                         /\ n.item[g[x][i]].next = Nth(g[x], i + 1)
                         /\ n.item[g[x][i]].prev = Nth(g[x], i - 1)
    <3>0. x \in 1..ItemCount /\ n.item[x].isReference = m.item[x].isReference
      BY <1>2 DEF Relinked
    <3>1. CASE x = p
      BY <1>3, <3>0, <3>1
    <3>2. CASE x # p
      <4>1. g[x] = f[x] /\ n.item[x].child = m.item[x].child
        BY <1>3, <3>0, <3>2
      <4>2. ASSUME NEW i \in DOMAIN f[x]
            PROVE  /\ n.item[f[x][i]].next = m.item[f[x][i]].next
                   /\ n.item[f[x][i]].prev = m.item[f[x][i]].prev
        <5>1. f[x][i] \notin Kids(f, p)
          BY <1>1, <3>2 DEF Kids, OnePlace, D
        <5>2. f[x][i] \in 1..ItemCount /\ f[x][i] \notin R
          BY <1>1, <1>2
        <5> QED BY <5>1, <5>2
      <4>3. IF m.item[x].isReference THEN f[x] = <<>>
            ELSE /\ m.item[x].child = Nth(f[x], 1)
                 /\ \A i \in DOMAIN f[x] :
                      /\ m.item[f[x][i]].next = Nth(f[x], i + 1)
                      /\ m.item[f[x][i]].prev = Nth(f[x], i - 1)
        BY <1>1 DEF LinkedAs, D
      <4> QED BY <3>0, <4>1, <4>2, <4>3
    <3> QED BY <3>1, <3>2
  <2> QED BY <1>3, <2>1 DEF LinkedAs
<1>6. Layout(n, g, Q, L)
  <2>1. n \in Memory
    BY DEF Relinked
  <2> QED BY <1>1, <1>3, <1>4, <1>5, <2>1 DEF Layout, g
<1>7. Strings(n, D)
  <2>1. \A x \in D : OwnName(n, x) = OwnName(m, x) /\ OwnValue(n, x) = OwnValue(m, x)
    BY <1>2 DEF OwnName, OwnValue, Relinked
  <2>2. OwnedOnce(n, D) /\ OwnedBlocks(n, D) = OwnedBlocks(m, D)
    BY <1>1, <2>1, OwnedSame
  <2>3. Blocks(n) = Blocks(m)
    BY DEF Blocks, Relinked
  <2> QED BY <1>1, <2>2, <2>3 DEF Strings
<1>8. ~n.bad
  BY <1>1 DEF Relinked
<1> QED BY <1>3, <1>6, <1>7, <1>8 DEF Sound, g

(* The element at a place, or NULL, after one was inserted.                *)
LEMMA NthInserted ==
    ASSUME NEW S, NEW s \in Seq(S), NEW e \in S, NEW w \in 1..Len(s) + 1, NEW u \in Int
    PROVE  Nth(InsertAt(s, w, e), u) = IF u < w THEN Nth(s, u)
                                       ELSE IF u = w THEN e ELSE Nth(s, u - 1)
<1> DEFINE t == InsertAt(s, w, e)
<1>1. Len(s) \in Nat /\ DOMAIN s = 1..Len(s) /\ w \in Nat /\ 1 <= w /\ w <= Len(s) + 1
  OBVIOUS
<1>2. DOMAIN t = 1..Len(s) + 1
  BY InsertedAt
<1>3. ASSUME u \in 1..Len(s) + 1
      PROVE  t[u] = IF u < w THEN s[u] ELSE IF u = w THEN e ELSE s[u - 1]
  BY <1>3, InsertedAt, SMTT(60)
<1> HIDE DEF t
<1>4. CASE u \in 1..Len(s) + 1
  <2>1. CASE u < w
    <3>1. u \in DOMAIN s
      BY <1>1, <1>4, <2>1
    <3> QED BY <1>2, <1>3, <1>4, <2>1, <3>1 DEF Nth, t
  <2>2. CASE u = w
    BY <1>1, <1>2, <1>3, <1>4, <2>2 DEF Nth, t
  <2>3. CASE u > w
    <3>1. u - 1 \in DOMAIN s
      BY <1>1, <1>4, <2>3
    <3>2. Nth(s, u - 1) = s[u - 1]
      BY <3>1 DEF Nth
    <3>3. Nth(t, u) = t[u]
      BY <1>2, <1>4 DEF Nth
    <3>4. ~(u < w) /\ u # w
      BY <1>1, <2>3
    <3> QED BY <1>3, <1>4, <3>2, <3>3, <3>4 DEF t
  <2> QED BY <1>1, <1>4, <2>1, <2>2, <2>3
<1>5. CASE u \notin 1..Len(s) + 1
  <2>1. Nth(t, u) = NULL
    BY <1>2, <1>5 DEF Nth
  <2>2. CASE u < w
    <3>1. u \notin DOMAIN s
      BY <1>1, <1>5, <2>2
    <3> QED BY <2>1, <2>2, <3>1 DEF Nth, t
  <2>3. CASE ~(u < w)
    <3>1. u # w /\ u - 1 \notin DOMAIN s
      BY <1>1, <1>5, <2>3
    <3>2. Nth(s, u - 1) = NULL
      BY <3>1 DEF Nth
    <3> QED BY <2>1, <2>3, <3>1, <3>2 DEF t
  <2> QED BY <2>2, <2>3
<1> QED BY <1>4, <1>5

(* The element at a place, or NULL, after one was removed.                 *)
LEMMA NthRemoved ==
    ASSUME NEW S, NEW s \in Seq(S), NEW w \in 1..Len(s), NEW u \in Int
    PROVE  Nth(RemoveAt(s, w), u) = IF u < w THEN Nth(s, u) ELSE Nth(s, u + 1)
<1> DEFINE t == RemoveAt(s, w)
<1>1. Len(s) \in Nat /\ DOMAIN s = 1..Len(s) /\ w \in Nat /\ 1 <= w /\ w <= Len(s)
  OBVIOUS
<1>2. DOMAIN t = 1..Len(s) - 1
  BY RemovedAt
<1>3. ASSUME u \in 1..Len(s) - 1 PROVE t[u] = IF u < w THEN s[u] ELSE s[u + 1]
  <2>1. \A j \in 1..Len(s) - 1 :
           RemoveAt(s, w)[j] = IF j < w THEN s[j] ELSE s[j + 1]
    BY RemovedAt, Zenon
  <2> QED BY <1>3, <2>1
<1> HIDE DEF t
<1>4. CASE u \in 1..Len(s) - 1
  <2>1. u \in DOMAIN s /\ u + 1 \in DOMAIN s
    BY <1>1, <1>4
  <2>2. Nth(t, u) = t[u] /\ Nth(s, u) = s[u] /\ Nth(s, u + 1) = s[u + 1]
    BY <1>2, <1>4, <2>1 DEF Nth
  <2> QED BY <1>3, <1>4, <2>2 DEF t
<1>5. CASE u \notin 1..Len(s) - 1
  <2>1. Nth(t, u) = NULL
    BY <1>2, <1>5 DEF Nth
  <2>2. CASE u < w
    <3>1. u \notin DOMAIN s
      BY <1>1, <1>5, <2>2
    <3> QED BY <2>1, <2>2, <3>1 DEF Nth, t
  <2>3. CASE ~(u < w)
    <3>1. u + 1 \notin DOMAIN s
      BY <1>1, <1>5, <2>3
    <3>2. Nth(s, u + 1) = NULL
      BY <3>1 DEF Nth
    <3> QED BY <2>1, <2>3, <3>2 DEF t
  <2> QED BY <2>2, <2>3
<1> QED BY <1>4, <1>5

(* The children of p in the forest f of m, whose loose items are R.         *)
ListIsLinked(m, f, R, p) ==
    /\ m \in Memory
    /\ p \in 1..ItemCount
    /\ DOMAIN f \subseteq 1..ItemCount
    /\ R \subseteq DOMAIN f
    /\ f[p] \in Seq(DOMAIN f)
    /\ Len(f[p]) \in Nat
    /\ DOMAIN f[p] = 1..Len(f[p])
    /\ Children(m, p) = f[p]
    /\ m.item[p].child = Nth(f[p], 1)
    /\ \A i \in 1..Len(f[p]) :
          /\ f[p][i] \in DOMAIN f
          /\ f[p][i] \notin R
          /\ m.item[f[p][i]].next = Nth(f[p], i + 1)
          /\ m.item[f[p][i]].prev = Nth(f[p], i - 1)
    /\ \A i, j \in 1..Len(f[p]) : f[p][i] = f[p][j] => i = j
    /\ \A x \in R : m.item[x].next = NULL /\ m.item[x].prev = NULL
    /\ \A u : Nth(f[p], u) \in 0..ItemCount

(* The list of p, and the loose items.                                     *)
LEMMA ListOf ==
    ASSUME NEW m, NEW f, NEW R, NEW L, Sound(m, f, R, L),
           NEW p \in DOMAIN f, ~m.item[p].isReference
    PROVE  ListIsLinked(m, f, R, p)
<1>1. /\ m \in Memory /\ IsListing(f) /\ OnePlace(f) /\ R \subseteq DOMAIN f /\ LinkedAs(m, f, R)
      /\ \A x \in DOMAIN f : \A i \in DOMAIN f[x] : f[x][i] \notin R /\ f[x][i] \in DOMAIN f
  BY ForestPlaces DEF Sound, Layout, Woods
<1>2. DOMAIN f \subseteq 1..ItemCount /\ Children(m, p) = f[p]
  BY ForestIs DEF Sound
<1>3. f[p] \in Seq(DOMAIN f)
  BY <1>1 DEF IsListing
<1>4. DOMAIN f[p] = 1..Len(f[p]) /\ Len(f[p]) \in Nat
  BY <1>3
<1>5. \A u : Nth(f[p], u) \in 0..ItemCount
  <2>1. NULL \in 0..ItemCount /\ 1..ItemCount \subseteq 0..ItemCount
    BY <1>1, MemoryFacts
  <2> QED BY <1>1, <1>2, <2>1 DEF Nth
<1>6. \A i, j \in 1..Len(f[p]) : f[p][i] = f[p][j] => i = j
  BY <1>1, <1>4 DEF OnePlace
<1>7. /\ m.item[p].child = Nth(f[p], 1)
      /\ \A i \in 1..Len(f[p]) : /\ m.item[f[p][i]].next = Nth(f[p], i + 1)
                                 /\ m.item[f[p][i]].prev = Nth(f[p], i - 1)
      /\ \A x \in R : m.item[x].next = NULL /\ m.item[x].prev = NULL
  BY <1>1, <1>4 DEF LinkedAs
<1> QED BY <1>1, <1>2, <1>3, <1>4, <1>5, <1>6, <1>7 DEF ListIsLinked

(* An item r linked into the list of p at place w.                         *)
LEMMA LinkInSound ==
    ASSUME NEW m, NEW f, NEW R, NEW L, Sound(m, f, R, L),
           NEW p \in DOMAIN f, ~m.item[p].isReference,
           NEW r \in R, p \notin Forest!Tree(f, r), NEW w \in 1..Len(f[p]) + 1,
           NEW n, Relinked(m, n),
           \A x \in 1..ItemCount :
              /\ n.item[x].child = IF x = p /\ w = 1 THEN r ELSE m.item[x].child
              /\ n.item[x].next = IF x = r THEN Nth(f[p], w)
                                  ELSE IF w # 1 /\ x = f[p][w - 1] THEN r
                                  ELSE m.item[x].next
              /\ n.item[x].prev = IF x = r THEN Nth(f[p], w - 1)
                                  ELSE IF w <= Len(f[p]) /\ x = f[p][w] THEN r
                                  ELSE m.item[x].prev
    PROVE  Sound(n, [f EXCEPT ![p] = InsertAt(f[p], w, r)], R \ {r}, L)
<1> DEFINE s == f[p]
           t == InsertAt(f[p], w, r)
           Q == R \ {r}
<1>1. /\ m \in Memory /\ p \in 1..ItemCount /\ DOMAIN f \subseteq 1..ItemCount
      /\ R \subseteq DOMAIN f /\ s \in Seq(DOMAIN f) /\ Len(s) \in Nat
      /\ DOMAIN s = 1..Len(s)
      /\ m.item[p].child = Nth(s, 1)
      /\ \A i \in 1..Len(s) :
            /\ s[i] \in DOMAIN f /\ s[i] \notin R
            /\ m.item[s[i]].next = Nth(s, i + 1)
            /\ m.item[s[i]].prev = Nth(s, i - 1)
      /\ \A i, j \in 1..Len(s) : s[i] = s[j] => i = j
      /\ \A x \in R : m.item[x].next = NULL /\ m.item[x].prev = NULL
  BY ListOf DEF ListIsLinked
<1>2. Woods([f EXCEPT ![p] = t], Q)
  BY WoodsPlace DEF Sound, Layout
<1>3. Q \subseteq R \cup Kids(f, p)
  OBVIOUS
<1>4. w \in Nat /\ 1 <= w /\ w <= Len(s) + 1
  BY <1>1
<1>5. \A u \in Int : Nth(t, u) = IF u < w THEN Nth(s, u) ELSE IF u = w THEN r ELSE Nth(s, u - 1)
  <2>1. s \in Seq(DOMAIN f) /\ r \in DOMAIN f /\ w \in 1..Len(s) + 1
    BY <1>1
  <2> QED BY <2>1, NthInserted
<1>6. /\ DOMAIN t = 1..Len(s) + 1
      /\ \A j \in 1..Len(s) + 1 : t[j] = Nth(t, j)
  <2>1. DOMAIN t = 1..Len(s) + 1
    BY <1>1, InsertedAt
  <2> QED BY <2>1 DEF Nth
<1>7. \A i \in 1..Len(s) : Nth(s, i) = s[i] /\ s[i] \in 1..ItemCount /\ s[i] # r
  BY <1>1 DEF Nth
<1>8. \A x \in 1..ItemCount : x # p => n.item[x].child = m.item[x].child
  OBVIOUS
<1>9. \A x \in 1..ItemCount : x \notin R \cup Kids(f, p) =>
                /\ n.item[x].next = m.item[x].next
                /\ n.item[x].prev = m.item[x].prev
  <2> SUFFICES ASSUME NEW x \in 1..ItemCount, x \notin R, x \notin Kids(f, p)
               PROVE  n.item[x].next = m.item[x].next /\ n.item[x].prev = m.item[x].prev
    OBVIOUS
  <2>1. \A i \in 1..Len(s) : x # s[i]
    BY <1>1 DEF Kids
  <2>2. w # 1 => x # f[p][w - 1]
    BY <1>1, <1>4, <2>1
  <2>3. w <= Len(f[p]) => x # f[p][w]
    BY <1>1, <1>4, <2>1
  <2> QED BY <2>2, <2>3
<1>10. n.item[p].child = Nth(t, 1)
  <2>1. CASE w = 1
    BY <1>1, <1>5, <2>1
  <2>2. CASE w # 1
    BY <1>1, <1>4, <1>5, <2>2
  <2> QED BY <2>1, <2>2
<1> HIDE DEF t
<1>11. ASSUME NEW j \in DOMAIN t
       PROVE  /\ n.item[t[j]].next = Nth(t, j + 1)
              /\ n.item[t[j]].prev = Nth(t, j - 1)
  <2>0. j \in 1..Len(s) + 1 /\ j \in Int /\ j + 1 \in Int /\ j - 1 \in Int
    BY <1>6
  <2>1. CASE j < w
    <3>1. j \in 1..Len(s) /\ t[j] = s[j]
      BY <1>1, <1>4, <1>5, <1>6, <1>7, <2>0, <2>1
    <3>2. n.item[s[j]].prev = m.item[s[j]].prev
      <4>1. w <= Len(f[p]) => s[j] # s[w]
        BY <1>1, <1>4, <2>1, <3>1
      <4> QED BY <1>7, <3>1, <4>1
    <3>3. n.item[t[j]].prev = Nth(t, j - 1)
      BY <1>1, <1>4, <1>5, <2>0, <2>1, <3>1, <3>2
    <3>4. CASE j + 1 = w
      <4>1. w - 1 = j /\ w # 1
        BY <2>0, <1>4, <3>4
      <4>2. n.item[s[j]].next = r
        BY <1>7, <3>1, <4>1
      <4>3. Nth(t, j + 1) = r
        BY <1>4, <1>5, <2>0, <3>4
      <4> QED BY <3>1, <3>3, <4>2, <4>3
    <3>5. CASE j + 1 # w
      <4>1. j + 1 < w /\ w # 1 /\ w - 1 \in 1..Len(s) /\ w - 1 # j
        BY <1>1, <1>4, <2>0, <2>1, <3>5
      <4>2. s[j] # f[p][w - 1]
        BY <1>1, <3>1, <4>1
      <4>3. n.item[s[j]].next = m.item[s[j]].next
        BY <1>7, <3>1, <4>2
      <4>4. Nth(t, j + 1) = Nth(s, j + 1)
        BY <1>5, <2>0, <4>1
      <4> QED BY <1>1, <3>1, <3>3, <4>3, <4>4
    <3> QED BY <3>4, <3>5
  <2>2. CASE j = w
    <3>1. t[j] = r
      BY <1>4, <1>5, <1>6, <2>0, <2>2
    <3>2. n.item[r].next = Nth(s, w) /\ n.item[r].prev = Nth(s, w - 1)
      BY <1>1
    <3>3. Nth(t, j + 1) = Nth(s, w)
      <4>1. ~(j + 1 < w) /\ j + 1 # w /\ j + 1 - 1 = w
        BY <1>4, <2>2
      <4> QED BY <1>5, <2>0, <4>1
    <3>4. Nth(t, j - 1) = Nth(s, w - 1)
      BY <1>4, <1>5, <2>0, <2>2
    <3> QED BY <3>1, <3>2, <3>3, <3>4
  <2>3. CASE j > w
    <3> DEFINE i == j - 1
    <3>1. i \in 1..Len(s) /\ i >= w /\ i + 1 = j /\ i \in Int
      BY <1>1, <1>4, <2>0, <2>3
    <3>2. t[j] = s[i]
      <4>1. ~(j < w) /\ j # w
        BY <1>4, <2>0, <2>3
      <4> QED BY <1>5, <1>6, <1>7, <2>0, <3>1, <4>1
    <3>3. Nth(t, j + 1) = Nth(s, i + 1)
      <4>1. ~(j + 1 < w) /\ j + 1 # w /\ j + 1 - 1 = i + 1
        BY <1>4, <2>0, <2>3, <3>1
      <4> QED BY <1>5, <2>0, <4>1
    <3> HIDE DEF i
    <3>4. n.item[s[i]].next = m.item[s[i]].next
      <4>1. w # 1 => w - 1 \in 1..Len(s) /\ w - 1 # i
        BY <1>1, <1>4, <3>1
      <4>2. w # 1 => s[i] # f[p][w - 1]
        BY <1>1, <3>1, <4>1
      <4> QED BY <1>7, <3>1, <4>2
    <3>5. CASE i = w
      <4>1. n.item[s[i]].prev = r
        BY <1>1, <1>7, <3>1, <3>5
      <4>2. Nth(t, j - 1) = r
        BY <1>4, <1>5, <3>1, <3>5, <2>0
      <4> QED BY <1>1, <3>1, <3>2, <3>3, <3>4, <4>1, <4>2
    <3>6. CASE i # w
      <4>1. w <= Len(f[p]) => s[i] # f[p][w]
        BY <1>1, <1>4, <3>1, <3>6
      <4>2. n.item[s[i]].prev = m.item[s[i]].prev
        BY <1>7, <3>1, <4>1
      <4>3. Nth(t, i) = Nth(s, i - 1)
        BY <1>4, <1>5, <3>1, <3>6
      <4>4. j - 1 = i
        BY <3>1, <2>0
      <4> QED BY <1>1, <3>1, <3>2, <3>3, <3>4, <4>2, <4>3, <4>4
    <3> QED BY <3>5, <3>6
  <2> QED BY <1>4, <2>0, <2>1, <2>2, <2>3
<1>12. \A x \in Q : n.item[x].next = NULL /\ n.item[x].prev = NULL
  <2> SUFFICES ASSUME NEW x \in R, x # r PROVE n.item[x].next = NULL /\ n.item[x].prev = NULL
    OBVIOUS
  <2>1. x \in 1..ItemCount /\ \A i \in 1..Len(s) : x # s[i]
    BY <1>1
  <2>2. w # 1 => x # f[p][w - 1]
    BY <1>1, <1>4, <2>1
  <2>3. w <= Len(f[p]) => x # f[p][w]
    BY <1>1, <1>4, <2>1
  <2> QED BY <1>1, <2>1, <2>2, <2>3
<1> HIDE DEF Q
<1>13. Sound(n, [f EXCEPT ![p] = t], Q, L)
  BY <1>2, <1>3, <1>8, <1>9, <1>10, <1>11, <1>12, RelinkSound
<1> QED BY <1>13 DEF t, Q

(* add_item_to_array puts a loose item behind the children.                *)
LEMMA AddSound ==
    ASSUME NEW m, NEW f, NEW R, NEW L, Sound(m, f, R, L),
           NEW p \in DOMAIN f, ~m.item[p].isReference,
           NEW r \in R, p \notin Forest!Tree(f, r)
    PROVE  Sound(AddItemToArray(m, p, r),
                 [f EXCEPT ![p] = InsertAt(f[p], Len(f[p]) + 1, r)], R \ {r}, L)
<1> DEFINE s == f[p]
           w == Len(s) + 1
           n == AddItemToArray(m, p, r)
<1>1. /\ m \in Memory /\ p \in 1..ItemCount /\ DOMAIN f \subseteq 1..ItemCount
      /\ R \subseteq DOMAIN f /\ Len(s) \in Nat /\ s \in Seq(DOMAIN f)
      /\ DOMAIN s = 1..Len(s)
      /\ Children(m, p) = s
      /\ m.item[p].child = Nth(s, 1)
      /\ \A i \in 1..Len(s) : s[i] \in DOMAIN f /\ s[i] \notin R
      /\ m.item[r].next = NULL /\ m.item[r].prev = NULL
  BY ListOf DEF ListIsLinked
<1>2. r \in 1..ItemCount /\ r \in 0..ItemCount
  BY <1>1, MemoryFacts
<1> HIDE DEF n
<1>3. w \in 1..Len(f[p]) + 1 /\ Nth(s, w) = NULL /\ ~(w <= Len(s))
  <2>1. w \in 1..w /\ w \notin DOMAIN s
    BY <1>1
  <2> QED BY <1>1, <2>1 DEF Nth
<1>4. /\ Relinked(m, n)
      /\ \A x \in 1..ItemCount :
              /\ n.item[x].child = IF x = p /\ w = 1 THEN r ELSE m.item[x].child
              /\ n.item[x].next = IF x = r THEN Nth(s, w)
                                  ELSE IF w # 1 /\ x = s[w - 1] THEN r
                                  ELSE m.item[x].next
              /\ n.item[x].prev = IF x = r THEN Nth(s, w - 1) ELSE m.item[x].prev
  <2>1. CASE s = <<>>
    <3>1. w = 1 /\ Nth(s, w - 1) = NULL
      BY <1>1, <2>1 DEF Nth
    <3>2. n = [m EXCEPT !.item[p].child = r]
      BY <1>1, <2>1 DEF n, AddItemToArray
    <3>3. /\ Relinked(m, n)
          /\ \A x \in 1..ItemCount :
                /\ n.item[x].child = IF x = p THEN r ELSE m.item[x].child
                /\ n.item[x].next = m.item[x].next
                /\ n.item[x].prev = m.item[x].prev
      <4>1. m \in Memory /\ p \in 1..ItemCount /\ r \in 0..ItemCount
        BY <1>1, <1>2
      <4> QED BY <3>2, <4>1, ChildSet
    <3> QED BY <1>1, <1>3, <3>1, <3>3
  <2>2. CASE s # <<>>
    <3> DEFINE l == s[Len(s)]
               o == [m EXCEPT !.item[l].next = r]
               q == [o EXCEPT !.item[r].prev = l]
    <3>1. Len(s) \in 1..Len(s) /\ w # 1 /\ w - 1 = Len(s)
      BY <1>1, <2>2
    <3>2. l \in 1..ItemCount /\ l \in 0..ItemCount /\ l # r /\ Nth(s, w - 1) = l
      BY <1>1, <3>1, MemoryFacts DEF Nth
    <3>3. n = [m EXCEPT !.item[l].next = r, !.item[r].prev = l]
      BY <1>1, <2>2 DEF n, AddItemToArray, SuffixObject
    <3>4. n = q
      BY <3>3
    <3> HIDE DEF l
    <3>5. /\ Relinked(m, o)
          /\ \A x \in 1..ItemCount :
                /\ o.item[x].child = m.item[x].child
                /\ o.item[x].next = IF x = l THEN r ELSE m.item[x].next
                /\ o.item[x].prev = m.item[x].prev
      <4>1. m \in Memory /\ l \in 1..ItemCount /\ r \in 0..ItemCount
        BY <1>1, <1>2, <3>2
      <4> QED BY <4>1, NextSet
    <3> HIDE DEF o
    <3>6. o \in Memory
      BY <3>5 DEF Relinked
    <3>7. /\ Relinked(o, q)
          /\ \A x \in 1..ItemCount :
                /\ q.item[x].child = o.item[x].child
                /\ q.item[x].next = o.item[x].next
                /\ q.item[x].prev = IF x = r THEN l ELSE o.item[x].prev
      BY <1>2, <3>2, <3>6, PrevSet
    <3> HIDE DEF q
    <3>8. Relinked(m, n)
      BY <3>4, <3>5, <3>7, RelinkedOn
    <3>9. s[w - 1] = l
      BY <3>1 DEF l
    <3> HIDE DEF w
    <3> QED BY <1>1, <1>3, <3>1, <3>2, <3>4, <3>5, <3>7, <3>8, <3>9
  <2> QED BY <2>1, <2>2
<1>5. Sound(n, [f EXCEPT ![p] = InsertAt(f[p], w, r)], R \ {r}, L)
  <2> HIDE DEF w
  <2> QED BY <1>3, <1>4, LinkInSound
<1> QED BY <1>5 DEF n

(* A pointer that may be NULL, in the steps that set what it points to.    *)
LEMMA NextSetAt ==
    ASSUME NEW m \in Memory, NEW a \in 0..ItemCount, NEW v \in 0..ItemCount
    PROVE  LET n == SetNext(m, a, v)
           IN /\ Relinked(m, n)
              /\ \A x \in 1..ItemCount :
                    /\ n.item[x].child = m.item[x].child
                    /\ n.item[x].next = IF x = a THEN v ELSE m.item[x].next
                    /\ n.item[x].prev = m.item[x].prev
<1>1. a # NULL => a \in 1..ItemCount
  BY CountsAssumption DEF NULL
<1>2. NULL \notin 1..ItemCount
  BY MemoryFacts
<1>3. CASE a = NULL
  BY <1>2, <1>3, RelinkedSelf DEF SetNext
<1>4. CASE a # NULL
  BY <1>1, <1>4, NextSet DEF SetNext
<1> QED BY <1>3, <1>4

(* The same for prev.                                                      *)
LEMMA PrevSetAt ==
    ASSUME NEW m \in Memory, NEW a \in 0..ItemCount, NEW v \in 0..ItemCount
    PROVE  LET n == SetPrev(m, a, v)
           IN /\ Relinked(m, n)
              /\ \A x \in 1..ItemCount :
                    /\ n.item[x].child = m.item[x].child
                    /\ n.item[x].next = m.item[x].next
                    /\ n.item[x].prev = IF x = a THEN v ELSE m.item[x].prev
<1>1. a # NULL => a \in 1..ItemCount
  BY CountsAssumption DEF NULL
<1>2. NULL \notin 1..ItemCount
  BY MemoryFacts
<1>3. CASE a = NULL
  BY <1>2, <1>3, RelinkedSelf DEF SetPrev
<1>4. CASE a # NULL
  BY <1>1, <1>4, PrevSet DEF SetPrev
<1> QED BY <1>3, <1>4

(* The child of an item is set, if a condition holds.                      *)
LEMMA ChildSetIf ==
    ASSUME NEW m \in Memory, NEW a \in 1..ItemCount, NEW v \in 0..ItemCount,
           NEW c \in BOOLEAN
    PROVE  LET n == IF c THEN [m EXCEPT !.item[a].child = v] ELSE m
           IN /\ Relinked(m, n)
              /\ \A x \in 1..ItemCount :
                    /\ n.item[x].child = IF x = a /\ c THEN v ELSE m.item[x].child
                    /\ n.item[x].next = m.item[x].next
                    /\ n.item[x].prev = m.item[x].prev
<1>1. CASE c
  BY <1>1, ChildSet
<1>2. CASE ~c
  BY <1>2, RelinkedSelf
<1> QED BY <1>1, <1>2

(* Where in its list an item is.                                           *)
LEMMA NthOf ==
    ASSUME NEW m, NEW f, NEW R, NEW L, Sound(m, f, R, L),
           NEW p \in DOMAIN f, ~m.item[p].isReference
    PROVE  /\ \A i \in 1..Len(f[p]) : /\ Nth(f[p], i) = f[p][i]
                                      /\ f[p][i] \in 1..ItemCount
                                      /\ \A u \in Int : f[p][i] = Nth(f[p], u) => i = u
           /\ \A u \in Int : /\ Nth(f[p], u) # NULL <=> u \in 1..Len(f[p])
                             /\ Nth(f[p], u) \notin R
           /\ \A x \in 1..ItemCount : x \notin Kids(f, p) =>
                 \A u \in Int : x # Nth(f[p], u)
<1>1. /\ DOMAIN f \subseteq 1..ItemCount /\ R \subseteq DOMAIN f
      /\ DOMAIN f[p] = 1..Len(f[p])
      /\ \A i \in 1..Len(f[p]) : f[p][i] \in DOMAIN f /\ f[p][i] \notin R
      /\ \A i, j \in 1..Len(f[p]) : f[p][i] = f[p][j] => i = j
  BY ListOf DEF ListIsLinked
<1>2. NULL \notin 1..ItemCount
  BY ListOf, MemoryFacts DEF ListIsLinked
<1>3. \A u \in Int : Nth(f[p], u) = IF u \in 1..Len(f[p]) THEN f[p][u] ELSE NULL
  BY <1>1 DEF Nth
<1> QED BY <1>1, <1>2, <1>3 DEF Kids

(* cJSON_InsertItemInArray puts a loose item at the place asked for.       *)
LEMMA InsertSound ==
    ASSUME NEW m, NEW f, NEW R, NEW L, Sound(m, f, R, L),
           NEW p \in DOMAIN f, ~m.item[p].isReference,
           NEW r \in R, p \notin Forest!Tree(f, r), NEW w \in 1..Len(f[p]) + 1
    PROVE  Sound(Insert(m, p, w, r), [f EXCEPT ![p] = InsertAt(f[p], w, r)], R \ {r}, L)
<1> DEFINE s == f[p]
           n == Insert(m, p, w, r)
           x == s[w]
           u == Nth(s, w - 1)
           o1 == [m EXCEPT !.item[r].next = x, !.item[r].prev = u]
           o2 == [o1 EXCEPT !.item[x].prev = r]
<1>1. /\ m \in Memory /\ p \in 1..ItemCount /\ DOMAIN f \subseteq 1..ItemCount
      /\ R \subseteq DOMAIN f /\ Len(s) \in Nat /\ s \in Seq(DOMAIN f)
      /\ DOMAIN s = 1..Len(s)
      /\ Children(m, p) = s
      /\ m.item[p].child = Nth(s, 1)
      /\ \A i \in 1..Len(s) : s[i] \notin R /\ m.item[s[i]].prev = Nth(s, i - 1)
      /\ \A h : Nth(s, h) \in 0..ItemCount
  BY ListOf DEF ListIsLinked
<1>2. r \in 1..ItemCount /\ r \in 0..ItemCount
  BY <1>1, MemoryFacts
<1>3. w \in Nat /\ 1 <= w /\ w <= Len(s) + 1
  BY <1>1
<1>4. GetArrayItem(m, p, w) = Nth(s, w)
  BY <1>1 DEF GetArrayItem
<1>5. CASE w = Len(s) + 1
  <2>1. Nth(s, w) = NULL
    BY <1>1, <1>5 DEF Nth
  <2>2. Insert(m, p, w, r) = AddItemToArray(m, p, r)
    BY <1>4, <2>1 DEF Insert
  <2> QED BY <1>5, <2>2, AddSound
<1>6. CASE w # Len(s) + 1
  <2>1. w \in 1..Len(s) /\ w - 1 \in Int
    BY <1>1, <1>3, <1>6
  <2>2. /\ Nth(s, w) = x /\ x \in 1..ItemCount /\ x \in 0..ItemCount /\ x # NULL /\ x # r
        /\ m.item[x].prev = u /\ u \in 0..ItemCount
    <3>1. Nth(s, w) = s[w] /\ s[w] \in 1..ItemCount
      BY <2>1, NthOf
    <3>2. s[w] \notin R /\ m.item[s[w]].prev = Nth(s, w - 1)
      BY <1>1, <2>1
    <3>3. m \in Memory /\ Nth(s, w - 1) \in 0..ItemCount
      BY <1>1
    <3>4. NULL \notin 1..ItemCount /\ 1..ItemCount \subseteq 0..ItemCount
      BY <3>3, MemoryFacts
    <3> HIDE DEF s
    <3> QED BY <3>1, <3>2, <3>3, <3>4
  <2>3. x = m.item[p].child <=> w = 1
    <3>1. x = Nth(s, 1) => w = 1
      BY <2>1, NthOf
    <3> QED BY <1>1, <2>2, <3>1
  <2>4. u # NULL <=> w # 1
    <3>1. u # NULL <=> w - 1 \in 1..Len(s)
      BY <2>1, NthOf
    <3> QED BY <1>3, <2>1, <3>1
  <2>5. w # 1 => u \in 1..ItemCount /\ u = s[w - 1]
    <3>1. w # 1 => w - 1 \in 1..Len(s)
      BY <1>3, <2>1
    <3>2. \A i \in 1..Len(s) : Nth(s, i) = s[i] /\ s[i] \in 1..ItemCount
      BY NthOf
    <3> QED BY <3>1, <3>2
  <2> HIDE DEF x, u
  <2>6. /\ Relinked(m, o1)
        /\ \A y \in 1..ItemCount :
              /\ o1.item[y].child = m.item[y].child
              /\ o1.item[y].next = IF y = r THEN x ELSE m.item[y].next
              /\ o1.item[y].prev = IF y = r THEN u ELSE m.item[y].prev
    <3> DEFINE l == [m EXCEPT !.item[r].next = x]
               h == [l EXCEPT !.item[r].prev = u]
    <3>1. m \in Memory /\ r \in 1..ItemCount /\ x \in 0..ItemCount /\ u \in 0..ItemCount
      BY <1>1, <1>2, <2>2
    <3>2. o1 = h
      OBVIOUS
    <3> HIDE DEF o1
    <3>3. /\ Relinked(m, l)
          /\ \A y \in 1..ItemCount :
                /\ l.item[y].child = m.item[y].child
                /\ l.item[y].next = IF y = r THEN x ELSE m.item[y].next
                /\ l.item[y].prev = m.item[y].prev
      BY <3>1, NextSet
    <3> HIDE DEF l
    <3>4. l \in Memory
      BY <3>3 DEF Relinked
    <3>5. /\ Relinked(l, h)
          /\ \A y \in 1..ItemCount :
                /\ h.item[y].child = l.item[y].child
                /\ h.item[y].next = l.item[y].next
                /\ h.item[y].prev = IF y = r THEN u ELSE l.item[y].prev
      BY <3>1, <3>4, PrevSet
    <3> HIDE DEF h
    <3>6. Relinked(m, h)
      BY <3>3, <3>5, RelinkedOn
    <3> QED BY <3>2, <3>3, <3>5, <3>6
  <2>7. [m EXCEPT !.item[r].next = x, !.item[r].prev = u, !.item[x].prev = r] = o2
    OBVIOUS
  <2>8. n = IF w = 1 THEN [o2 EXCEPT !.item[p].child = r]
            ELSE [o2 EXCEPT !.item[o2.item[r].prev].next = r]
    <3>1. /\ GetArrayItem(m, p, w) = x /\ x # NULL /\ m.item[x].prev = u
      BY <1>4, <2>2
    <3> DEFINE l == [m EXCEPT !.item[r].next = x, !.item[r].prev = m.item[x].prev,
                              !.item[x].prev = r]
    <3>2. l = o2
      BY <2>7, <3>1
    <3> HIDE DEF o1, o2, s
    <3>3. n = IF x = m.item[p].child THEN [l EXCEPT !.item[p].child = r]
              ELSE [l EXCEPT !.item[l.item[r].prev].next = r]
      BY <3>1 DEF Insert
    <3> QED BY <2>3, <3>2, <3>3
  <2> HIDE DEF o1, n
  <2>9. o1 \in Memory
    BY <2>6 DEF Relinked
  <2>10. /\ Relinked(o1, o2)
         /\ \A y \in 1..ItemCount :
               /\ o2.item[y].child = o1.item[y].child
               /\ o2.item[y].next = o1.item[y].next
               /\ o2.item[y].prev = IF y = x THEN r ELSE o1.item[y].prev
    <3>1. o1 \in Memory /\ x \in 1..ItemCount /\ r \in 0..ItemCount
      BY <1>2, <2>2, <2>9
    <3> QED BY <3>1, PrevSet
  <2> HIDE DEF o2
  <2>11. o2 \in Memory /\ o2.item[r].prev = u
    BY <1>2, <2>2, <2>6, <2>10 DEF Relinked
  <2>12. /\ Relinked(o2, n)
         /\ \A y \in 1..ItemCount :
               /\ n.item[y].child = IF y = p /\ w = 1 THEN r ELSE o2.item[y].child
               /\ n.item[y].next = IF w # 1 /\ y = u THEN r ELSE o2.item[y].next
               /\ n.item[y].prev = o2.item[y].prev
    <3>1. CASE w = 1
      <4>1. n = [o2 EXCEPT !.item[p].child = r]
        BY <2>8, <3>1
      <4>2. p \in 1..ItemCount /\ o2 \in Memory /\ r \in 0..ItemCount
        BY <1>1, <1>2, <2>11
      <4> QED BY <3>1, <4>1, <4>2, ChildSet
    <3>2. CASE w # 1
      <4>1. n = [o2 EXCEPT !.item[u].next = r]
        BY <2>8, <2>11, <3>2
      <4>2. u \in 1..ItemCount /\ o2 \in Memory /\ r \in 0..ItemCount
        BY <1>2, <2>5, <2>11, <3>2
      <4> QED BY <3>2, <4>1, <4>2, NextSet
    <3> QED BY <3>1, <3>2
  <2>13. Relinked(m, n)
    BY <2>6, <2>10, <2>12, RelinkedOn
  <2>14. u # r
    <3>1. u \notin R
      BY <2>1, NthOf DEF u
    <3> QED BY <3>1
  <2>15. \A y \in 1..ItemCount :
              /\ n.item[y].child = IF y = p /\ w = 1 THEN r ELSE m.item[y].child
              /\ n.item[y].next = IF y = r THEN Nth(s, w)
                                  ELSE IF w # 1 /\ y = s[w - 1] THEN r
                                  ELSE m.item[y].next
              /\ n.item[y].prev = IF y = r THEN Nth(s, w - 1)
                                  ELSE IF w <= Len(s) /\ y = s[w] THEN r
                                  ELSE m.item[y].prev
    <3>1. w <= Len(s) /\ s[w] = x /\ Nth(s, w - 1) = u /\ (w # 1 => s[w - 1] = u)
      BY <1>3, <2>1, <2>5 DEF x, u
    <3> HIDE DEF s
    <3> QED BY <2>2, <2>6, <2>10, <2>12, <2>14, <3>1
  <2> QED BY <2>13, <2>15, LinkInSound DEF n
<1> QED BY <1>5, <1>6

(* cJSON_DetachItemViaPointer makes the child at a place loose.            *)
LEMMA DetachSound ==
    ASSUME NEW m, NEW f, NEW R, NEW L, Sound(m, f, R, L),
           NEW p \in DOMAIN f, ~m.item[p].isReference, NEW w \in DOMAIN f[p]
    PROVE  Sound(Detach(m, p, f[p][w]),
                 [f EXCEPT ![p] = RemoveAt(f[p], w)], R \cup {f[p][w]}, L)
<1>0. ListIsLinked(m, f, R, p)
  BY ListOf
<1> DEFINE s == f[p]
           t == RemoveAt(f[p], w)
           x == s[w]
           u == Nth(s, w - 1)
           v == Nth(s, w + 1)
<1>1. /\ m \in Memory /\ p \in 1..ItemCount /\ DOMAIN f \subseteq 1..ItemCount
      /\ R \subseteq DOMAIN f /\ Len(s) \in Nat /\ s \in Seq(DOMAIN f)
      /\ DOMAIN s = 1..Len(s)
      /\ m.item[p].child = Nth(s, 1)
      /\ \A i \in 1..Len(s) : /\ s[i] \in DOMAIN f /\ s[i] \notin R
                              /\ m.item[s[i]].next = Nth(s, i + 1)
                              /\ m.item[s[i]].prev = Nth(s, i - 1)
      /\ \A h : Nth(s, h) \in 0..ItemCount
      /\ \A y \in R : m.item[y].next = NULL /\ m.item[y].prev = NULL
  BY <1>0 DEF ListIsLinked
<1> DEFINE n == Detach(m, p, x)
           o1 == SetNext(m, u, v)
           o2 == SetPrev(o1, v, u)
           c == x = m.item[p].child
           o3 == IF c THEN [o2 EXCEPT !.item[p].child = v] ELSE o2
           o4 == [o3 EXCEPT !.item[x].prev = NULL, !.item[x].next = NULL]
<1>2. /\ \A i \in 1..Len(s) : /\ Nth(s, i) = s[i] /\ s[i] \in 1..ItemCount
                              /\ \A h \in Int : s[i] = Nth(s, h) => i = h
      /\ \A h \in Int : Nth(s, h) # NULL <=> h \in 1..Len(s)
      /\ \A h \in Int : Nth(s, h) \notin R
      /\ \A y \in 1..ItemCount : y \notin Kids(f, p) => \A h \in Int : y # Nth(s, h)
  BY NthOf
<1>3. /\ w \in 1..Len(s) /\ w \in Int /\ w - 1 \in Int /\ w + 1 \in Int /\ 1 <= w /\ w <= Len(s)
      /\ Len(s) \in Nat
  BY <1>1
<1>4. /\ x \in 1..ItemCount /\ x \in DOMAIN f /\ x # NULL
      /\ u \in 0..ItemCount /\ v \in 0..ItemCount
      /\ m.item[x].prev = u /\ m.item[x].next = v /\ c \in BOOLEAN /\ NULL \in 0..ItemCount
  BY <1>1, <1>2, <1>3, MemoryFacts
<1>5. c <=> w = 1
  <2>1. m.item[p].child = Nth(s, 1) /\ Nth(s, w) = s[w] /\ (s[w] = Nth(s, 1) => w = 1)
    BY <1>1, <1>2, <1>3
  <2> QED BY <2>1
<1>6. n = o4
  BY <1>4 DEF Detach
<1> HIDE DEF n, o4, o3, o2, o1, x, u, v, c, s
<1>7. /\ Relinked(m, o1)
      /\ \A y \in 1..ItemCount :
            /\ o1.item[y].child = m.item[y].child
            /\ o1.item[y].next = IF y = u THEN v ELSE m.item[y].next
            /\ o1.item[y].prev = m.item[y].prev
  <2>1. m \in Memory
    BY <1>1
  <2> QED BY <1>4, <2>1, NextSetAt DEF o1
<1>8. /\ Relinked(o1, o2)
      /\ \A y \in 1..ItemCount :
            /\ o2.item[y].child = o1.item[y].child
            /\ o2.item[y].next = o1.item[y].next
            /\ o2.item[y].prev = IF y = v THEN u ELSE o1.item[y].prev
  <2>1. o1 \in Memory
    BY <1>7 DEF Relinked
  <2> QED BY <1>4, <2>1, PrevSetAt DEF o2
<1>9. /\ Relinked(o2, o3)
      /\ \A y \in 1..ItemCount :
            /\ o3.item[y].child = IF y = p /\ c THEN v ELSE o2.item[y].child
            /\ o3.item[y].next = o2.item[y].next
            /\ o3.item[y].prev = o2.item[y].prev
  <2>1. o2 \in Memory /\ p \in 1..ItemCount
    BY <1>1, <1>8 DEF Relinked
  <2> QED BY <1>4, <2>1, ChildSetIf DEF o3
<1>10. /\ Relinked(o3, o4)
       /\ \A y \in 1..ItemCount :
             /\ o4.item[y].child = o3.item[y].child
             /\ o4.item[y].next = IF y = x THEN NULL ELSE o3.item[y].next
             /\ o4.item[y].prev = IF y = x THEN NULL ELSE o3.item[y].prev
  <2> DEFINE l == [o3 EXCEPT !.item[x].prev = NULL]
             h == [l EXCEPT !.item[x].next = NULL]
  <2>1. o3 \in Memory /\ x \in 1..ItemCount /\ NULL \in 0..ItemCount
    BY <1>4, <1>9 DEF Relinked
  <2>2. o4 = h
    BY DEF o4
  <2>3. /\ Relinked(o3, l)
        /\ \A y \in 1..ItemCount :
              /\ l.item[y].child = o3.item[y].child
              /\ l.item[y].next = o3.item[y].next
              /\ l.item[y].prev = IF y = x THEN NULL ELSE o3.item[y].prev
    BY <2>1, PrevSet
  <2> HIDE DEF l
  <2>4. l \in Memory
    BY <2>3 DEF Relinked
  <2>5. /\ Relinked(l, h)
        /\ \A y \in 1..ItemCount :
              /\ h.item[y].child = l.item[y].child
              /\ h.item[y].next = IF y = x THEN NULL ELSE l.item[y].next
              /\ h.item[y].prev = l.item[y].prev
    BY <2>1, <2>4, NextSet
  <2> HIDE DEF h
  <2>6. Relinked(o3, h)
    BY <2>3, <2>5, RelinkedOn
  <2> QED BY <2>2, <2>3, <2>5, <2>6
<1>11. Relinked(m, n)
  BY <1>6, <1>7, <1>8, <1>9, <1>10, RelinkedOn
<1>12. \A y \in 1..ItemCount :
             /\ n.item[y].child = IF y = p /\ w = 1 THEN v ELSE m.item[y].child
             /\ n.item[y].next = IF y = x THEN NULL ELSE IF y = u THEN v ELSE m.item[y].next
             /\ n.item[y].prev = IF y = x THEN NULL ELSE IF y = v THEN u ELSE m.item[y].prev
  BY <1>5, <1>6, <1>7, <1>8, <1>9, <1>10
<1>13. \A h \in Int : Nth(t, h) = IF h < w THEN Nth(s, h) ELSE Nth(s, h + 1)
  BY <1>1, <1>3, NthRemoved DEF s
<1>14. DOMAIN t = 1..Len(s) - 1 /\ \A j \in DOMAIN t : t[j] = Nth(t, j)
  <2>1. DOMAIN t = 1..Len(s) - 1
    BY <1>1, <1>3, RemovedAt DEF s
  <2> QED BY <2>1 DEF Nth
<1> HIDE DEF t
<1>15. ASSUME NEW j \in DOMAIN t
       PROVE  /\ n.item[t[j]].next = Nth(t, j + 1)
              /\ n.item[t[j]].prev = Nth(t, j - 1)
  <2>0. j \in 1..Len(s) - 1 /\ j \in Int /\ j + 1 \in Int /\ j - 1 \in Int /\ j + 2 \in Int
    BY <1>1, <1>14
  <2>1. CASE j < w
    <3>1. j \in 1..Len(s) /\ t[j] = s[j] /\ j # w /\ j # w + 1
      <4>1. j \in 1..Len(s) /\ j # w /\ j # w + 1
        BY <1>3, <2>0, <2>1
      <4>2. t[j] = Nth(t, j) /\ Nth(t, j) = Nth(s, j)
        BY <1>13, <1>14, <2>0, <2>1
      <4> QED BY <1>2, <4>1, <4>2
    <3>2. s[j] # x /\ s[j] # v /\ s[j] \in 1..ItemCount
      BY <1>2, <1>3, <3>1 DEF x, v
    <3>3. n.item[s[j]].prev = Nth(s, j - 1)
      BY <1>1, <1>12, <3>1, <3>2
    <3>4. Nth(t, j - 1) = Nth(s, j - 1)
      BY <1>3, <1>13, <2>0, <2>1
    <3>5. CASE j = w - 1
      <4>1. s[j] = u
        BY <1>2, <3>1, <3>5 DEF u
      <4>2. n.item[s[j]].next = v
        BY <1>12, <3>2, <4>1
      <4>3. Nth(t, j + 1) = v
        <5>1. j + 1 = w
          BY <1>3, <2>0, <3>5
        <5> QED BY <1>3, <1>13, <5>1 DEF v
      <4> QED BY <3>1, <3>3, <3>4, <4>2, <4>3
    <3>6. CASE j # w - 1
      <4>1. s[j] # u
        BY <1>2, <1>3, <3>1, <3>6 DEF u
      <4>2. n.item[s[j]].next = Nth(s, j + 1)
        BY <1>1, <1>12, <3>1, <3>2, <4>1
      <4>3. Nth(t, j + 1) = Nth(s, j + 1)
        <5>1. j + 1 < w
          BY <1>3, <2>0, <2>1, <3>6
        <5> QED BY <1>13, <2>0, <5>1
      <4> QED BY <3>1, <3>3, <3>4, <4>2, <4>3
    <3> QED BY <3>5, <3>6
  <2>2. CASE ~(j < w)
    <3> DEFINE i == j + 1
    <3>1. /\ i \in 1..Len(s) /\ i \in Int /\ i + 1 \in Int /\ i - 1 \in Int /\ i - 1 = j /\ i > w
      BY <1>3, <2>0, <2>2
    <3>2. t[j] = s[i]
      BY <1>2, <1>13, <1>14, <2>0, <2>2, <3>1
    <3>3. Nth(t, i) = Nth(s, i + 1)
      <4> HIDE DEF i
      <4>1. ~(i < w)
        BY <1>3, <3>1
      <4> QED BY <1>13, <3>1, <4>1
    <3> HIDE DEF i
    <3>4. i # w /\ i # w - 1
      BY <1>3, <3>1
    <3>5. s[i] # x /\ s[i] # u /\ s[i] \in 1..ItemCount
      BY <1>2, <1>3, <3>1, <3>4 DEF x, u
    <3>6. n.item[s[i]].next = Nth(s, i + 1)
      BY <1>1, <1>12, <3>1, <3>5
    <3>7. CASE i = w + 1
      <4>1. s[i] = v
        BY <1>2, <3>1, <3>7 DEF v
      <4>2. n.item[s[i]].prev = u
        BY <1>12, <3>5, <4>1
      <4>3. Nth(t, j - 1) = u
        <5>1. j - 1 = w - 1 /\ j - 1 < w
          BY <1>3, <2>0, <3>1, <3>7
        <5> QED BY <1>13, <2>0, <5>1 DEF u
      <4> QED BY <3>2, <3>3, <3>6, <4>2, <4>3 DEF i
    <3>8. CASE i # w + 1
      <4>1. s[i] # v
        BY <1>2, <1>3, <3>1, <3>8 DEF v
      <4>2. n.item[s[i]].prev = Nth(s, i - 1)
        BY <1>1, <1>12, <3>1, <3>5, <4>1
      <4>3. Nth(t, j - 1) = Nth(s, i - 1)
        <5>1. ~(j - 1 < w) /\ j - 1 + 1 = i - 1
          BY <1>3, <2>0, <3>1, <3>8
        <5> QED BY <1>13, <2>0, <5>1
      <4> QED BY <3>2, <3>3, <3>6, <4>2, <4>3 DEF i
    <3> QED BY <3>7, <3>8
  <2> QED BY <2>1, <2>2
<1>16. n.item[p].child = Nth(t, 1)
  <2>1. CASE w = 1
    <3>1. Nth(t, 1) = v
      BY <1>13, <2>1 DEF v
    <3> QED BY <1>1, <1>12, <2>1, <3>1
  <2>2. CASE w # 1
    <3>1. Nth(t, 1) = Nth(s, 1)
      BY <1>3, <1>13, <2>2
    <3> QED BY <1>1, <1>12, <2>2, <3>1
  <2> QED BY <2>1, <2>2
<1>17. x \in Kids(f, p)
  BY DEF Kids, x, s
<1>18. Woods([f EXCEPT ![p] = t], R \cup {x})
  BY WoodsTakeOut DEF Sound, Layout, t, x, s
<1>19. \A y \in 1..ItemCount : y # p => n.item[y].child = m.item[y].child
  BY <1>12
<1>20. \A y \in 1..ItemCount : y \notin R \cup Kids(f, p) =>
                /\ n.item[y].next = m.item[y].next
                /\ n.item[y].prev = m.item[y].prev
  <2> SUFFICES ASSUME NEW y \in 1..ItemCount, y \notin Kids(f, p)
               PROVE  n.item[y].next = m.item[y].next /\ n.item[y].prev = m.item[y].prev
    OBVIOUS
  <2>1. y # x /\ y # u /\ y # v
    BY <1>2, <1>3, <1>17 DEF u, v
  <2> QED BY <1>12, <2>1
<1>21. \A y \in R \cup {x} : n.item[y].next = NULL /\ n.item[y].prev = NULL
  <2> SUFFICES ASSUME NEW y \in R, y # x PROVE n.item[y].next = NULL /\ n.item[y].prev = NULL
    BY <1>4, <1>12
  <2>1. y \in 1..ItemCount /\ y # u /\ y # v
    BY <1>1, <1>2, <1>3 DEF u, v
  <2> QED BY <1>1, <1>12, <2>1
<1>22. R \cup {x} \subseteq R \cup Kids(f, p)
  BY <1>17
<1> DEFINE Q == R \cup {x}
<1> HIDE DEF Q
<1>23. Sound(n, [f EXCEPT ![p] = t], Q, L)
  <2>1. /\ Woods([f EXCEPT ![p] = t], Q) /\ Q \subseteq R \cup Kids(f, p)
        /\ \A y \in Q : n.item[y].next = NULL /\ n.item[y].prev = NULL
    BY <1>18, <1>21, <1>22 DEF Q
  <2> QED BY <1>11, <1>15, <1>16, <1>19, <1>20, <2>1, RelinkSound
<1> QED BY <1>23 DEF Q, n, t, x, s

(* The replacement is linked in the place of the item, which is loose then. *)
LEMMA ExchangeSound ==
    ASSUME NEW m, NEW f, NEW R, NEW L, Sound(m, f, R, L),
           NEW p \in DOMAIN f, ~m.item[p].isReference, NEW w \in DOMAIN f[p],
           NEW r \in R, p \notin Forest!Tree(f, r)
    PROVE  Sound(Exchanged(m, p, f[p][w], r),
                 [f EXCEPT ![p] = [f[p] EXCEPT ![w] = r]],
                 (R \ {r}) \cup {f[p][w]}, L)
<1>0. ListIsLinked(m, f, R, p)
  BY ListOf
<1> DEFINE s == f[p]
           t == [s EXCEPT ![w] = r]
           x == s[w]
           u == Nth(s, w - 1)
           v == Nth(s, w + 1)
<1>1. /\ m \in Memory /\ p \in 1..ItemCount /\ DOMAIN f \subseteq 1..ItemCount
      /\ R \subseteq DOMAIN f /\ Len(s) \in Nat /\ s \in Seq(DOMAIN f)
      /\ DOMAIN s = 1..Len(s)
      /\ m.item[p].child = Nth(s, 1)
      /\ \A i \in 1..Len(s) : /\ s[i] \in DOMAIN f /\ s[i] \notin R
                              /\ m.item[s[i]].next = Nth(s, i + 1)
                              /\ m.item[s[i]].prev = Nth(s, i - 1)
      /\ \A h : Nth(s, h) \in 0..ItemCount
      /\ \A y \in R : m.item[y].next = NULL /\ m.item[y].prev = NULL
  BY <1>0 DEF ListIsLinked
<1> DEFINE n == Exchanged(m, p, x, r)
           o1 == [m EXCEPT !.item[r].next = v]
           o2 == [o1 EXCEPT !.item[r].prev = u]
           o3 == SetPrev(o2, v, r)
           o4 == SetNext(o3, u, r)
           c == m.item[p].child = x
           o5 == IF c THEN [o4 EXCEPT !.item[p].child = r] ELSE o4
           o6 == [o5 EXCEPT !.item[x].next = NULL]
           o7 == [o6 EXCEPT !.item[x].prev = NULL]
<1>2. /\ \A i \in 1..Len(s) : /\ Nth(s, i) = s[i] /\ s[i] \in 1..ItemCount
                              /\ \A h \in Int : s[i] = Nth(s, h) => i = h
      /\ \A h \in Int : Nth(s, h) # NULL <=> h \in 1..Len(s)
      /\ \A h \in Int : Nth(s, h) \notin R
      /\ \A y \in 1..ItemCount : y \notin Kids(f, p) => \A h \in Int : y # Nth(s, h)
  BY NthOf
<1>3. /\ w \in 1..Len(s) /\ w \in Int /\ w - 1 \in Int /\ w + 1 \in Int /\ 1 <= w /\ w <= Len(s)
      /\ Len(s) \in Nat
  BY <1>1
<1>4. /\ x \in 1..ItemCount /\ x \in DOMAIN f /\ x # NULL /\ r \in 1..ItemCount
      /\ u \in 0..ItemCount /\ v \in 0..ItemCount /\ r \in 0..ItemCount
      /\ m.item[x].prev = u /\ m.item[x].next = v /\ c \in BOOLEAN /\ NULL \in 0..ItemCount
  BY <1>1, <1>2, <1>3, MemoryFacts
<1>5. /\ c <=> w = 1
      /\ r # x /\ r # u /\ r # v /\ x # u /\ x # v
  <2>1. m.item[p].child = Nth(s, 1) /\ Nth(s, w) = s[w] /\ (s[w] = Nth(s, 1) => w = 1)
    BY <1>1, <1>2, <1>3
  <2>2. s[w] \notin R /\ u \notin R /\ v \notin R
    BY <1>1, <1>2, <1>3
  <2>3. x # u /\ x # v
    BY <1>2, <1>3
  <2> HIDE DEF s, u, v
  <2> QED BY <2>1, <2>2, <2>3
<1>6. n = o7
  <2> DEFINE e2 == [m EXCEPT !.item[r].next = m.item[x].next, !.item[r].prev = m.item[x].prev]
             e3 == SetPrev(e2, m.item[x].next, r)
             e4 == SetNext(e3, m.item[x].prev, r)
             e5 == IF m.item[p].child = x THEN [e4 EXCEPT !.item[p].child = r] ELSE e4
  <2>0. m.item[x].prev = u /\ m.item[x].next = v
    BY <1>4
  <2>1. o2 = e2
    <3> HIDE DEF x, u, v
    <3> QED BY <2>0
  <2>3. n = [e5 EXCEPT !.item[x].next = NULL, !.item[x].prev = NULL]
    BY DEF Exchanged
  <2> HIDE DEF o2, e2, x, u, v, s
  <2>4. o3 = e3
    BY <2>0, <2>1
  <2> HIDE DEF o3, e3
  <2>5. o4 = e4
    BY <2>0, <2>4
  <2> HIDE DEF o4, e4
  <2>6. o5 = e5
    BY <2>5
  <2> HIDE DEF o5, e5, n
  <2>2. o7 = [o5 EXCEPT !.item[x].next = NULL, !.item[x].prev = NULL]
    OBVIOUS
  <2> HIDE DEF o7
  <2> QED BY <2>2, <2>3, <2>6
<1> HIDE DEF n, o7, o6, o5, o4, o3, o2, o1, x, u, v, c, s
<1>7. /\ Relinked(m, o1)
      /\ \A y \in 1..ItemCount :
            /\ o1.item[y].child = m.item[y].child
            /\ o1.item[y].next = IF y = r THEN v ELSE m.item[y].next
            /\ o1.item[y].prev = m.item[y].prev
  <2>1. m \in Memory
    BY <1>1
  <2> QED BY <1>4, <2>1, NextSet DEF o1
<1>8. /\ Relinked(o1, o2)
      /\ \A y \in 1..ItemCount :
            /\ o2.item[y].child = o1.item[y].child
            /\ o2.item[y].next = o1.item[y].next
            /\ o2.item[y].prev = IF y = r THEN u ELSE o1.item[y].prev
  <2>1. o1 \in Memory
    BY <1>7 DEF Relinked
  <2> QED BY <1>4, <2>1, PrevSet DEF o2
<1>9. /\ Relinked(o2, o3)
      /\ \A y \in 1..ItemCount :
            /\ o3.item[y].child = o2.item[y].child
            /\ o3.item[y].next = o2.item[y].next
            /\ o3.item[y].prev = IF y = v THEN r ELSE o2.item[y].prev
  <2>1. o2 \in Memory
    BY <1>8 DEF Relinked
  <2> QED BY <1>4, <2>1, PrevSetAt DEF o3
<1>10. /\ Relinked(o3, o4)
       /\ \A y \in 1..ItemCount :
             /\ o4.item[y].child = o3.item[y].child
             /\ o4.item[y].next = IF y = u THEN r ELSE o3.item[y].next
             /\ o4.item[y].prev = o3.item[y].prev
  <2>1. o3 \in Memory
    BY <1>9 DEF Relinked
  <2> QED BY <1>4, <2>1, NextSetAt DEF o4
<1>11. /\ Relinked(o4, o5)
       /\ \A y \in 1..ItemCount :
             /\ o5.item[y].child = IF y = p /\ c THEN r ELSE o4.item[y].child
             /\ o5.item[y].next = o4.item[y].next
             /\ o5.item[y].prev = o4.item[y].prev
  <2>1. o4 \in Memory
    BY <1>10 DEF Relinked
  <2>2. p \in 1..ItemCount
    BY <1>1
  <2> QED BY <1>4, <2>1, <2>2, ChildSetIf DEF o5
<1>12. /\ Relinked(o5, o6)
       /\ \A y \in 1..ItemCount :
             /\ o6.item[y].child = o5.item[y].child
             /\ o6.item[y].next = IF y = x THEN NULL ELSE o5.item[y].next
             /\ o6.item[y].prev = o5.item[y].prev
  <2>1. o5 \in Memory
    BY <1>11 DEF Relinked
  <2> QED BY <1>4, <2>1, NextSet DEF o6
<1>13. /\ Relinked(o6, o7)
       /\ \A y \in 1..ItemCount :
             /\ o7.item[y].child = o6.item[y].child
             /\ o7.item[y].next = o6.item[y].next
             /\ o7.item[y].prev = IF y = x THEN NULL ELSE o6.item[y].prev
  <2>1. o6 \in Memory
    BY <1>12 DEF Relinked
  <2> QED BY <1>4, <2>1, PrevSet DEF o7
<1>14. Relinked(m, n)
  BY <1>6, <1>7, <1>8, <1>9, <1>10, <1>11, <1>12, <1>13, RelinkedOn
<1>15. \A y \in 1..ItemCount :
             /\ n.item[y].child = IF y = p /\ w = 1 THEN r ELSE m.item[y].child
             /\ n.item[y].next = IF y = x THEN NULL ELSE IF y = u THEN r
                                 ELSE IF y = r THEN v ELSE m.item[y].next
             /\ n.item[y].prev = IF y = x THEN NULL ELSE IF y = v THEN r
                                 ELSE IF y = r THEN u ELSE m.item[y].prev
  <2> SUFFICES ASSUME NEW y \in 1..ItemCount
               PROVE  /\ n.item[y].child = IF y = p /\ w = 1 THEN r ELSE m.item[y].child
                      /\ n.item[y].next = IF y = x THEN NULL ELSE IF y = u THEN r
                                          ELSE IF y = r THEN v ELSE m.item[y].next
                      /\ n.item[y].prev = IF y = x THEN NULL ELSE IF y = v THEN r
                                          ELSE IF y = r THEN u ELSE m.item[y].prev
    OBVIOUS
  <2>1. n.item[y].child = IF y = p /\ w = 1 THEN r ELSE m.item[y].child
    BY <1>5, <1>6, <1>7, <1>8, <1>9, <1>10, <1>11, <1>12, <1>13
  <2>2. n.item[y].next = IF y = x THEN NULL ELSE IF y = u THEN r
                         ELSE IF y = r THEN v ELSE m.item[y].next
    BY <1>6, <1>7, <1>8, <1>9, <1>10, <1>11, <1>12, <1>13
  <2>3. n.item[y].prev = IF y = x THEN NULL ELSE IF y = v THEN r
                         ELSE IF y = r THEN u ELSE m.item[y].prev
    BY <1>6, <1>7, <1>8, <1>9, <1>10, <1>11, <1>12, <1>13
  <2> QED BY <2>1, <2>2, <2>3
<1>16. \A h \in Int : Nth(t, h) = IF h = w THEN r ELSE Nth(s, h)
  <2>1. DOMAIN s = 1..Len(s) /\ w \in 1..Len(s) /\ DOMAIN t = 1..Len(s)
    BY <1>1, <1>3
  <2> HIDE DEF s
  <2> QED BY <2>1 DEF Nth
<1>17. DOMAIN t = 1..Len(s) /\ \A j \in DOMAIN t : t[j] = Nth(t, j)
  <2>1. DOMAIN t = 1..Len(s)
    BY <1>1
  <2> QED BY <2>1 DEF Nth
<1> HIDE DEF t
<1>18. ASSUME NEW j \in DOMAIN t
       PROVE  /\ n.item[t[j]].next = Nth(t, j + 1)
              /\ n.item[t[j]].prev = Nth(t, j - 1)
  <2>0. j \in 1..Len(s) /\ j \in Int /\ j + 1 \in Int /\ j - 1 \in Int /\ j + 1 # j /\ j - 1 # j
    BY <1>3, <1>17
  <2>1. CASE j = w
    <3>1. t[j] = r
      BY <1>16, <1>17, <2>0, <2>1
    <3>2. n.item[r].next = v /\ n.item[r].prev = u
      BY <1>4, <1>5, <1>15
    <3>3. Nth(t, j + 1) = v /\ Nth(t, j - 1) = u
      BY <1>16, <2>0, <2>1 DEF u, v
    <3> QED BY <3>1, <3>2, <3>3
  <2>2. CASE j # w
    <3>1. t[j] = s[j]
      BY <1>2, <1>16, <1>17, <2>0, <2>2
    <3>2. s[j] \in 1..ItemCount /\ s[j] # x /\ s[j] # r
      BY <1>1, <1>2, <1>3, <2>0, <2>2 DEF x
    <3>3. m.item[s[j]].next = Nth(s, j + 1) /\ m.item[s[j]].prev = Nth(s, j - 1)
      BY <1>1, <2>0
    <3>4. n.item[s[j]].next = Nth(t, j + 1)
      <4>1. CASE j + 1 = w
        <5>1. s[j] = u
          <6>1. w - 1 = j
            BY <2>0, <1>3, <4>1
          <6> QED BY <1>2, <2>0, <6>1 DEF u
        <5> QED BY <1>15, <1>16, <2>0, <3>2, <4>1, <5>1
      <4>2. CASE j + 1 # w
        <5>1. s[j] # u
          <6>1. w - 1 # j
            BY <2>0, <1>3, <4>2
          <6> QED BY <1>2, <1>3, <2>0, <6>1 DEF u
        <5>2. Nth(t, j + 1) = Nth(s, j + 1)
          BY <1>16, <2>0, <4>2
        <5> QED BY <1>15, <3>2, <3>3, <5>1, <5>2
      <4> QED BY <4>1, <4>2
    <3>5. n.item[s[j]].prev = Nth(t, j - 1)
      <4>1. CASE j - 1 = w
        <5>1. s[j] = v
          <6>1. w + 1 = j
            BY <2>0, <1>3, <4>1
          <6> QED BY <1>2, <2>0, <6>1 DEF v
        <5> QED BY <1>15, <1>16, <2>0, <3>2, <4>1, <5>1
      <4>2. CASE j - 1 # w
        <5>1. s[j] # v
          <6>1. w + 1 # j
            BY <2>0, <1>3, <4>2
          <6> QED BY <1>2, <1>3, <2>0, <6>1 DEF v
        <5>2. Nth(t, j - 1) = Nth(s, j - 1)
          BY <1>16, <2>0, <4>2
        <5> QED BY <1>15, <3>2, <3>3, <5>1, <5>2
      <4> QED BY <4>1, <4>2
    <3> QED BY <3>1, <3>4, <3>5
  <2> QED BY <2>1, <2>2
<1>19. n.item[p].child = Nth(t, 1)
  <2>1. n.item[p].child = IF w = 1 THEN r ELSE Nth(s, 1)
    BY <1>1, <1>15
  <2>2. Nth(t, 1) = IF w = 1 THEN r ELSE Nth(s, 1)
    BY <1>16
  <2> QED BY <2>1, <2>2
<1>20. x \in Kids(f, p)
  BY DEF Kids, x, s
<1>21. \A y \in 1..ItemCount : y # p => n.item[y].child = m.item[y].child
  BY <1>15
<1>22. \A y \in 1..ItemCount : y \notin R \cup Kids(f, p) =>
                /\ n.item[y].next = m.item[y].next
                /\ n.item[y].prev = m.item[y].prev
  <2> SUFFICES ASSUME NEW y \in 1..ItemCount, y \notin Kids(f, p), y \notin R
               PROVE  n.item[y].next = m.item[y].next /\ n.item[y].prev = m.item[y].prev
    OBVIOUS
  <2>1. y # x /\ y # u /\ y # v /\ y # r
    BY <1>2, <1>3, <1>20 DEF u, v
  <2> QED BY <1>15, <2>1
<1> DEFINE Q == (R \ {r}) \cup {x}
<1>23. Woods([f EXCEPT ![p] = t], Q)
  BY WoodsSwap DEF Sound, Layout, t, x, s
<1>24. \A y \in Q : n.item[y].next = NULL /\ n.item[y].prev = NULL
  <2> SUFFICES ASSUME NEW y \in R, y # x, y # r PROVE n.item[y].next = NULL /\ n.item[y].prev = NULL
    BY <1>4, <1>15
  <2>1. y \in 1..ItemCount
    BY <1>1
  <2>2. u \notin R /\ v \notin R
    BY <1>2, <1>3 DEF u, v
  <2>3. y # u /\ y # v
    BY <2>2
  <2>4. m.item[y].next = NULL /\ m.item[y].prev = NULL
    BY <1>1
  <2> QED BY <1>15, <2>1, <2>3, <2>4
<1>25. Q \subseteq R \cup Kids(f, p)
  BY <1>20
<1> HIDE DEF Q
<1>26. Sound(n, [f EXCEPT ![p] = t], Q, L)
  BY <1>14, <1>18, <1>19, <1>21, <1>22, <1>23, <1>24, <1>25, RelinkSound
<1> QED BY <1>26 DEF Q, n, t, x, s

(* The child at a place is taken out and deleted.                          *)
LEMMA DropSound ==
    ASSUME NEW m, NEW f, NEW R, NEW L, Sound(m, f, R, L),
           NEW p \in DOMAIN f, ~m.item[p].isReference, NEW w \in DOMAIN f[p]
    PROVE  Sound(Delete(Detach(m, p, f[p][w]), f[p][w]),
                 [Forest!Without(f, f[p][w]) EXCEPT ![p] = RemoveAt(f[p], w)], R, L)
<1> DEFINE x == f[p][w]
           t == RemoveAt(f[p], w)
           g == [f EXCEPT ![p] = t]
           n == Detach(m, p, x)
           Q == R \cup {x}
<1>1. Sound(n, g, Q, L)
  BY DetachSound
<1>2. x \notin R
  <2>1. Forest!IsForest(f, R)
    BY DEF Sound, Layout, Woods
  <2> QED BY <2>1, ForestPlaces
<1>3. Q \ {x} = R /\ x \in Q
  BY <1>2
<1> HIDE DEF n, Q
<1>4. Sound(Delete(n, x), Forest!Without(g, x), R, L)
  BY <1>1, <1>3, DeleteSound
<1>5. Forest!Without(g, x) = [Forest!Without(f, x) EXCEPT ![p] = t]
  <2>1. IsListing(g)
    BY <1>1 DEF Sound, Layout, Woods
  <2>2. Woods(f, R)
    BY DEF Sound, Layout
  <2> HIDE DEF t
  <2> QED BY <2>1, <2>2, WoodsDrop
<1> QED BY <1>4, <1>5 DEF n

(* cJSON_ReplaceItemViaPointer deletes the item that it replaces.          *)
LEMMA ReplaceSound ==
    ASSUME NEW m, NEW f, NEW R, NEW L, Sound(m, f, R, L),
           NEW p \in DOMAIN f, ~m.item[p].isReference, NEW w \in DOMAIN f[p],
           NEW r \in R, p \notin Forest!Tree(f, r)
    PROVE  Sound(Replace(m, p, f[p][w], r),
                 [Forest!Without(f, f[p][w]) EXCEPT ![p] = [f[p] EXCEPT ![w] = r]],
                 R \ {r}, L)
<1> DEFINE x == f[p][w]
           t == [f[p] EXCEPT ![w] = r]
           g == [f EXCEPT ![p] = t]
           n == Exchanged(m, p, x, r)
           Q == (R \ {r}) \cup {x}
<1>1. Sound(n, g, Q, L)
  BY ExchangeSound
<1>2. x \notin R /\ x \in DOMAIN f
  <2>1. Forest!IsForest(f, R)
    BY DEF Sound, Layout, Woods
  <2> QED BY <2>1, ForestPlaces
<1>3. Q \ {x} = R \ {r} /\ x \in Q
  BY <1>2
<1>4. x # NULL
  BY <1>2, ListOf, MemoryFacts DEF ListIsLinked
<1>5. Replace(m, p, x, r) = Delete(n, x)
  BY <1>4 DEF Replace
<1> HIDE DEF n, Q
<1>6. Sound(Delete(n, x), Forest!Without(g, x), R \ {r}, L)
  BY <1>1, <1>3, DeleteSound
<1>7. Forest!Without(g, x) = [Forest!Without(f, x) EXCEPT ![p] = t]
  <2>1. IsListing(g)
    BY <1>1 DEF Sound, Layout, Woods
  <2>2. Woods(f, R)
    BY DEF Sound, Layout
  <2> HIDE DEF t
  <2> QED BY <2>1, <2>2, WoodsDrop
<1> QED BY <1>5, <1>6, <1>7

-----------------------------------------------------------------------------
(* Strings.                                                                *)

(* The first free place of the pool is one of the free places.             *)
LEMMA FirstFree ==
    ASSUME NEW S \in SUBSET Nat, S # {}
    PROVE  Min(S) \in S
<1>1. \E x \in S : \A y \in S : x =< y
  BY LeastNatural
<1> QED BY <1>1 DEF Min

(* What OwnedOnce says of two slots.                                       *)
LEMMA OwnedOnceIs ==
    ASSUME NEW m, NEW D
    PROVE  OwnedOnce(m, D) <=>
              \A s, t \in Slots(D) :
                 Own(m, s) # NoString /\ Own(m, t) # NoString =>
                    /\ Own(m, s).id # 0
                    /\ Own(m, s).id = Own(m, t).id => s = t
<1> DEFINE S == {s \in Slots(D) : Own(m, s) # NoString}
<1>1. OwnedOnce(m, D) <=> \A s, t \in S : /\ Own(m, s).id # 0
                                          /\ Own(m, s).id = Own(m, t).id => s = t
  BY DEF OwnedOnce
<1> QED BY <1>1

(* One string that an item owns is exchanged for a block no other owns.    *)
LEMMA SlotSound ==
    ASSUME NEW m, NEW n, NEW D, Strings(m, D), NEW q \in Slots(D),
           \A s \in Slots(D) : s # q => Own(n, s) = Own(m, s),
           Own(n, q) = NoString \/ Own(n, q).id # 0,
           Own(n, q).id # 0 => \A s \in Slots(D) : s # q => Own(m, s).id # Own(n, q).id,
           Blocks(n) = (Blocks(m) \ {Own(m, q).id}) \cup ({Own(n, q).id} \ {0})
    PROVE  Strings(n, D)
<1>1. /\ \A s \in Slots(D) : Own(m, s) # NoString => Own(m, s).id # 0
      /\ \A s, t \in Slots(D) :
            Own(m, s) # NoString /\ Own(m, t) # NoString /\ Own(m, s).id = Own(m, t).id => s = t
      /\ Blocks(m) = {Own(m, s).id : s \in Slots(D)} \ {0}
  <2>1. OwnedOnce(m, D) /\ Blocks(m) = OwnedBlocks(m, D)
    BY DEF Strings
  <2>2. Blocks(m) = {Own(m, s).id : s \in Slots(D)} \ {0}
    BY <2>1 DEF OwnedBlocks
  <2> QED BY <2>1, <2>2, OwnedOnceIs
<1>2. NoString.id = 0
  BY BlankIs
<1>3. ASSUME NEW s \in Slots(D), Own(n, s) # NoString PROVE Own(n, s).id # 0
  BY <1>1, <1>3
<1>4. ASSUME NEW s \in Slots(D), NEW t \in Slots(D), Own(n, s) # NoString,
             Own(n, t) # NoString, Own(n, s).id = Own(n, t).id
      PROVE  s = t
  <2>1. Own(n, s).id # 0 /\ Own(n, t).id # 0
    BY <1>3, <1>4
  <2>2. CASE s = q \/ t = q
    BY <1>4, <2>1, <2>2
  <2>3. CASE s # q /\ t # q
    BY <1>1, <1>4, <2>3
  <2> QED BY <2>2, <2>3
<1>5. OwnedOnce(n, D)
  BY <1>3, <1>4, OwnedOnceIs
<1>6. \A b : b \in Blocks(n) <=> b \in OwnedBlocks(n, D)
  <2> SUFFICES ASSUME NEW b
               PROVE  b \in Blocks(n) <=> b \in OwnedBlocks(n, D)
    OBVIOUS
  <2>1. b \in OwnedBlocks(n, D) <=> b # 0 /\ \E s \in Slots(D) : b = Own(n, s).id
    BY DEF OwnedBlocks
  <2>2. b \in Blocks(n) <=> \/ b # Own(m, q).id /\ b # 0 /\ \E s \in Slots(D) : b = Own(m, s).id
                            \/ b = Own(n, q).id /\ b # 0
    BY <1>1
  <2>3. ASSUME b \in Blocks(n) PROVE b \in OwnedBlocks(n, D)
    BY <2>1, <2>2, <2>3
  <2>4. ASSUME b \in OwnedBlocks(n, D) PROVE b \in Blocks(n)
    <3>1. PICK s \in Slots(D) : b = Own(n, s).id /\ b # 0
      BY <2>1, <2>4
    <3>2. CASE s = q
      BY <2>2, <3>1, <3>2
    <3>3. CASE s # q
      <4>1. b = Own(m, s).id /\ Own(m, s) # NoString
        BY <1>2, <3>1, <3>3
      <4>2. b # Own(m, q).id
        <5> SUFFICES ASSUME b = Own(m, q).id PROVE FALSE
          OBVIOUS
        <5>1. Own(m, q) # NoString
          BY <1>2, <3>1
        <5> QED BY <1>1, <3>3, <4>1, <5>1
      <4> QED BY <2>2, <3>1, <4>1, <4>2
    <3> QED BY <3>2, <3>3
  <2> QED BY <2>3, <2>4
<1>7. Blocks(n) \subseteq OwnedBlocks(n, D) /\ OwnedBlocks(n, D) \subseteq Blocks(n)
  BY <1>6
<1> QED BY <1>5, <1>7 DEF Strings

(* cJSON_strdup of a constant takes a free block, if there is one.         *)
LEMMA StrDupIs ==
    ASSUME NEW m \in Memory, NEW text \in Texts \cup Literals, NEW c,
           c = StrDup(m, Constant(text))
    PROVE  \/ c.m = m /\ c.p = NoString
           \/ /\ c.p \in Text /\ c.p.id # 0 /\ c.p.id \notin Blocks(m)
              /\ c.m \in Memory /\ c.m.item = m.item /\ c.m.bad = m.bad
              /\ Blocks(c.m) = Blocks(m) \cup {c.p.id}
<1> DEFINE free == {s \in DOMAIN m.str : ~m.str[s]}
           b == Min(free)
<1>1. DOMAIN m.str = 1..StringCount /\ m.str \in [1..StringCount -> BOOLEAN]
  BY DEF Memory
<1>2. text # <<>> /\ text \in Seq(STRING)
  BY TextsAssumption
<1>3. Constant(text) # NoString /\ Constant(text).id = 0 /\ Constant(text).text = text
  BY <1>2 DEF Constant, NoString
<1>4. CASE free = {}
  BY <1>4 DEF StrDup
<1>5. CASE free # {}
  <2>1. free \in SUBSET Nat
    BY <1>1, CountsAssumption
  <2>2. b \in free
    <3> HIDE DEF free
    <3> QED BY <1>5, <2>1, FirstFree
  <2> HIDE DEF b
  <2>3. b \in 1..StringCount /\ ~m.str[b] /\ b # 0
    BY <1>1, <2>2
  <2> DEFINE n == [m EXCEPT !.str[b] = TRUE]
             q == [Constant(text) EXCEPT !.id = b]
  <2>4. ~Dangles(m, Constant(text))
    BY <1>3 DEF Dangles
  <2>5. c = [m |-> n, p |-> q]
    BY <1>3, <1>5, <2>4 DEF StrDup, BadIf, b
  <2>6. q \in Text /\ q.id = b
    <3>1. q = [id |-> b, text |-> text]
      BY DEF Constant
    <3>2. b \in 0..StringCount
      BY <2>3
    <3> QED BY <1>2, <3>1, <3>2 DEF Text
  <2>7. n \in Memory /\ n.item = m.item /\ n.bad = m.bad /\ n.str = [m.str EXCEPT ![b] = TRUE]
    BY DEF Memory
  <2>8. b \notin Blocks(m) /\ Blocks(n) = Blocks(m) \cup {b}
    <3> HIDE DEF n, free, q
    <3>1. \A s \in 1..StringCount : n.str[s] <=> s = b \/ m.str[s]
      BY <1>1, <2>7
    <3>2. DOMAIN n.str = 1..StringCount
      BY <1>1, <2>7
    <3> QED BY <1>1, <2>3, <3>1, <3>2 DEF Blocks
  <2> HIDE DEF n, q
  <2> QED BY <2>3, <2>5, <2>6, <2>7, <2>8
<1> QED BY <1>4, <1>5

(* The name that an item owns is freed, once.                              *)
LEMMA FreeNameIs ==
    ASSUME NEW m \in Memory, NEW D, NEW a \in D, OwnedOnce(m, D),
           OwnedBlocks(m, D) \subseteq Blocks(m), NEW n, n = FreeName(m, a)
    PROVE  /\ n \in Memory /\ n.item = m.item /\ n.bad = m.bad
           /\ Blocks(n) = Blocks(m) \ {OwnName(m, a).id}
<1> DEFINE q == <<a, "name">>
           b == OwnName(m, a).id
<1>1. q \in Slots(D) /\ Own(m, q) = OwnName(m, a)
  BY DEF Slots, Own
<1>2. DOMAIN m.str = 1..StringCount /\ m.str \in [1..StringCount -> BOOLEAN]
  BY DEF Memory
<1>3. CASE OwnName(m, a) = NoString
  <2>1. n = m
    BY <1>3 DEF FreeName, FreeString
  <2>2. b \notin Blocks(m)
    BY <1>2, <1>3, BlankIs DEF Blocks
  <2> QED BY <2>1, <2>2
<1>4. CASE OwnName(m, a) # NoString
  <2>1. b # 0 /\ b \in Blocks(m)
    <3>1. Own(m, q).id # 0
      BY <1>1, <1>4, OwnedOnceIs
    <3>2. Own(m, q).id \in OwnedBlocks(m, D)
      BY <1>1, <3>1 DEF OwnedBlocks
    <3> QED BY <1>1, <3>1, <3>2
  <2>2. b \in 1..StringCount /\ m.str[b]
    BY <1>2, <2>1 DEF Blocks
  <2>3. n = [m EXCEPT !.str[b] = FALSE]
    BY <1>4, <2>1, <2>2 DEF FreeName, FreeString, Dangles, BadIf
  <2> HIDE DEF b
  <2>4. n \in Memory /\ n.item = m.item /\ n.bad = m.bad /\ n.str = [m.str EXCEPT ![b] = FALSE]
    BY <2>3 DEF Memory
  <2>5. Blocks(n) = Blocks(m) \ {b}
    <3>1. \A s \in 1..StringCount : n.str[s] = IF s = b THEN FALSE ELSE m.str[s]
      BY <1>2, <2>2, <2>4
    <3>2. DOMAIN n.str = 1..StringCount
      BY <1>2, <2>4
    <3> QED BY <1>2, <2>2, <3>1, <3>2 DEF Blocks
  <2> QED BY <2>4, <2>5 DEF b
<1> QED BY <1>3, <1>4

(* A loose item, or one in a list, gets another string, or loses one.      *)
LEMMA LabelSound ==
    ASSUME NEW m, NEW f, NEW R, NEW L, Sound(m, f, R, L), NEW a \in DOMAIN f,
           NEW n \in Memory, n.bad = m.bad,
           \A x \in 1..ItemCount :
              /\ x # a => n.item[x] = m.item[x]
              /\ n.item[x].live = m.item[x].live
              /\ n.item[x].isReference = m.item[x].isReference
              /\ n.item[x].child = m.item[x].child
              /\ n.item[x].next = m.item[x].next
              /\ n.item[x].prev = m.item[x].prev,
           Strings(n, DOMAIN f)
    PROVE  Sound(n, f, R, L)
<1>1. /\ m \in Memory /\ Woods(f, R) /\ LinkedAs(m, f, R)
      /\ LiveItems(m) = DOMAIN f \cup L /\ DOMAIN f \cap L = {} /\ ~m.bad
  BY DEF Sound, Layout
<1>2. /\ DOMAIN m.item = 1..ItemCount /\ DOMAIN n.item = 1..ItemCount
      /\ DOMAIN f \subseteq 1..ItemCount /\ R \subseteq DOMAIN f
      /\ \A x \in DOMAIN f : \A i \in DOMAIN f[x] : f[x][i] \in DOMAIN f
  BY <1>1, MemoryFacts, ForestIs, ForestPlaces DEF Sound, Woods
<1>3. LiveItems(n) = LiveItems(m)
  BY <1>2 DEF LiveItems
<1>4. LinkedAs(n, f, R)
  <2>1. ASSUME NEW x \in DOMAIN f
        PROVE  IF n.item[x].isReference THEN f[x] = <<>>
               ELSE /\ n.item[x].child = Nth(f[x], 1)
                    /\ \A i \in DOMAIN f[x] :
                         /\ n.item[f[x][i]].next = Nth(f[x], i + 1)
                         /\ n.item[f[x][i]].prev = Nth(f[x], i - 1)
    <3>1. IF m.item[x].isReference THEN f[x] = <<>>
          ELSE /\ m.item[x].child = Nth(f[x], 1)
               /\ \A i \in DOMAIN f[x] :
                    /\ m.item[f[x][i]].next = Nth(f[x], i + 1)
                    /\ m.item[f[x][i]].prev = Nth(f[x], i - 1)
      BY <1>1 DEF LinkedAs
    <3>2. /\ n.item[x].isReference = m.item[x].isReference /\ n.item[x].child = m.item[x].child
          /\ \A i \in DOMAIN f[x] : /\ n.item[f[x][i]].next = m.item[f[x][i]].next
                                    /\ n.item[f[x][i]].prev = m.item[f[x][i]].prev
      BY <1>2
    <3> QED BY <3>1, <3>2
  <2>2. \A r \in R : n.item[r].next = NULL /\ n.item[r].prev = NULL
    BY <1>1, <1>2 DEF LinkedAs
  <2> QED BY <2>1, <2>2 DEF LinkedAs
<1> QED BY <1>1, <1>3, <1>4 DEF Sound, Layout

(* A tree that is built in a memory joins the forest that is there.        *)
LEMMA BuildSound ==
    ASSUME NEW m, NEW f, NEW R, NEW L, Sound(m, f, R, L),
           NEW n, NEW p, p # NULL, NewTree(m, n, p),
           NEW u, u = ForestOf(n, LiveItems(n) \ LiveItems(m))
    PROVE  /\ Sound(n, Both(f, u), R \cup {p}, L)
           /\ Woods(u, {p})
           /\ DOMAIN f \cap DOMAIN u = {}
<1> DEFINE new == LiveItems(n) \ LiveItems(m)
           g == Both(f, u)
<1>1. /\ m \in Memory /\ Woods(f, R) /\ LinkedAs(m, f, R)
      /\ LiveItems(m) = DOMAIN f \cup L /\ DOMAIN f \cap L = {} /\ ~m.bad
      /\ OwnedOnce(m, DOMAIN f) /\ Blocks(m) = OwnedBlocks(m, DOMAIN f)
  BY DEF Sound, Layout, Strings
<1>2. /\ n \in Memory /\ n.bad = m.bad /\ LiveItems(m) \subseteq LiveItems(n)
      /\ \A a \in LiveItems(m) : n.item[a] = m.item[a]
      /\ Forest!IsForest(u, {p}) /\ LinkedAs(n, u, {p})
      /\ OwnedOnce(n, new) /\ Blocks(m) \subseteq Blocks(n)
      /\ Blocks(n) \ Blocks(m) = OwnedBlocks(n, new)
  BY DEF NewTree
<1>3. DOMAIN u = new /\ DOMAIN f \cap new = {} /\ IsFiniteSet(new)
  <2>1. DOMAIN u = new
    BY DEF ForestOf
  <2>2. IsFiniteSet(LiveItems(n)) /\ new \subseteq LiveItems(n)
    BY <1>2, MemoryFacts
  <2>3. IsFiniteSet(new)
    BY <2>2, FS_Subset
  <2> QED BY <1>1, <2>1, <2>3
<1>4. Woods(u, {p})
  <2>1. u \in [DOMAIN u -> Seq(DOMAIN u)]
    BY <1>2 DEF Forest!IsForest
  <2> QED BY <1>2, <1>3, <2>1 DEF Woods, IsListing
<1> HIDE DEF new
<1>5. Woods(g, R \cup {p})
  BY <1>1, <1>3, <1>4, WoodsGrow
<1>6. /\ DOMAIN g = DOMAIN f \cup new
      /\ \A x \in DOMAIN f : g[x] = f[x]
      /\ \A x \in new : g[x] = u[x]
  BY <1>3 DEF Both
<1>7. /\ \A x \in DOMAIN f : n.item[x] = m.item[x] /\ \A i \in DOMAIN f[x] : f[x][i] \in DOMAIN f
      /\ R \subseteq DOMAIN f
  BY <1>1, <1>2, ForestPlaces DEF Woods
<1> HIDE DEF g
<1>8. LinkedAs(n, g, R \cup {p})
  <2>1. ASSUME NEW x \in DOMAIN f
        PROVE  IF n.item[x].isReference THEN g[x] = <<>>
               ELSE /\ n.item[x].child = Nth(g[x], 1)
                    /\ \A i \in DOMAIN g[x] :
                         /\ n.item[g[x][i]].next = Nth(g[x], i + 1)
                         /\ n.item[g[x][i]].prev = Nth(g[x], i - 1)
    <3>1. IF m.item[x].isReference THEN f[x] = <<>>
          ELSE /\ m.item[x].child = Nth(f[x], 1)
               /\ \A i \in DOMAIN f[x] :
                    /\ m.item[f[x][i]].next = Nth(f[x], i + 1)
                    /\ m.item[f[x][i]].prev = Nth(f[x], i - 1)
      BY <1>1 DEF LinkedAs
    <3>2. /\ g[x] = f[x] /\ n.item[x] = m.item[x]
          /\ \A i \in DOMAIN f[x] : n.item[f[x][i]] = m.item[f[x][i]]
      BY <1>6, <1>7
    <3> QED BY <3>1, <3>2
  <2>2. ASSUME NEW x \in new
        PROVE  IF n.item[x].isReference THEN g[x] = <<>>
               ELSE /\ n.item[x].child = Nth(g[x], 1)
                    /\ \A i \in DOMAIN g[x] :
                         /\ n.item[g[x][i]].next = Nth(g[x], i + 1)
                         /\ n.item[g[x][i]].prev = Nth(g[x], i - 1)
    <3>1. IF n.item[x].isReference THEN u[x] = <<>>
          ELSE /\ n.item[x].child = Nth(u[x], 1)
               /\ \A i \in DOMAIN u[x] :
                    /\ n.item[u[x][i]].next = Nth(u[x], i + 1)
                    /\ n.item[u[x][i]].prev = Nth(u[x], i - 1)
      BY <1>2, <1>3 DEF LinkedAs
    <3>2. g[x] = u[x]
      BY <1>6
    <3> QED BY <3>1, <3>2
  <2>3. \A r \in R \cup {p} : n.item[r].next = NULL /\ n.item[r].prev = NULL
    <3>1. \A r \in R : m.item[r].next = NULL /\ m.item[r].prev = NULL /\ n.item[r] = m.item[r]
      BY <1>1, <1>7 DEF LinkedAs
    <3>2. n.item[p].next = NULL /\ n.item[p].prev = NULL
      BY <1>2 DEF LinkedAs
    <3> QED BY <3>1, <3>2
  <2> QED BY <1>6, <2>1, <2>2, <2>3 DEF LinkedAs
<1>9. LiveItems(n) = DOMAIN g \cup L /\ DOMAIN g \cap L = {}
  BY <1>1, <1>2, <1>6 DEF new
<1>10. Strings(n, DOMAIN g)
  <2> DEFINE D == DOMAIN f
  <2>1. \A x \in D : OwnName(n, x) = OwnName(m, x) /\ OwnValue(n, x) = OwnValue(m, x)
    BY <1>7 DEF OwnName, OwnValue
  <2>2. OwnedOnce(n, D) /\ OwnedBlocks(n, D) = OwnedBlocks(m, D)
    BY <1>1, <2>1, OwnedSame
  <2> HIDE DEF D
  <2>3. DOMAIN g = D \cup new
    BY <1>6 DEF D
  <2>4. OwnedBlocks(n, D) \cap OwnedBlocks(n, new) = {}
    BY <1>1, <1>2, <2>2 DEF D
  <2>5. Slots(D \cup new) = Slots(D) \cup Slots(new)
    BY DEF Slots
  <2>6. OwnedBlocks(n, D \cup new) = OwnedBlocks(n, D) \cup OwnedBlocks(n, new)
    BY <2>5 DEF OwnedBlocks
  <2>7. OwnedOnce(n, D \cup new)
    <3>1. /\ \A s, t \in Slots(D) :
                Own(n, s) # NoString /\ Own(n, t) # NoString =>
                    Own(n, s).id # 0 /\ (Own(n, s).id = Own(n, t).id => s = t)
          /\ \A s, t \in Slots(new) :
                Own(n, s) # NoString /\ Own(n, t) # NoString =>
                    Own(n, s).id # 0 /\ (Own(n, s).id = Own(n, t).id => s = t)
      BY <1>2, <2>2, OwnedOnceIs
    <3>2. \A s \in Slots(D), t \in Slots(new) :
              Own(n, s).id # 0 \/ Own(n, t).id # 0 => Own(n, s).id # Own(n, t).id
      BY <2>4 DEF OwnedBlocks
    <3>3. \A s, t \in Slots(D \cup new) :
                Own(n, s) # NoString /\ Own(n, t) # NoString =>
                    Own(n, s).id # 0 /\ (Own(n, s).id = Own(n, t).id => s = t)
      BY <2>5, <3>1, <3>2
    <3> QED BY <3>3, OwnedOnceIs
  <2>8. Blocks(n) = OwnedBlocks(n, D \cup new)
    BY <1>1, <1>2, <2>2, <2>6 DEF D
  <2> QED BY <2>3, <2>7, <2>8 DEF Strings
<1>11. Sound(n, g, R \cup {p}, L)
  BY <1>1, <1>2, <1>5, <1>8, <1>9, <1>10 DEF Sound, Layout
<1> QED BY <1>3, <1>4, <1>11 DEF g

-----------------------------------------------------------------------------
(* Items that are created.                                                 *)

(* An item e that can be put into the memory where none is.                *)
IsFresh(e) ==
    /\ e \in Item
    /\ e.live
    /\ e.next = NULL /\ e.prev = NULL
    /\ e.isReference \/ (e.child = NULL /\ e.valuestring = NoString)
    /\ e.string = NoString

(* The forest is made larger by a single item.                             *)
LEMMA MakeSingle ==
    ASSUME NEW f, NEW R, Woods(f, R), NEW a, a \notin DOMAIN f
    PROVE  Forest!Make(f, R, Both(f, Single(a)), R \cup {a})
<1>1. Woods(Single(a), {a})
  BY WoodsSingle
<1>2. DOMAIN f \cap DOMAIN Single(a) = {}
  BY DEF Single
<1> QED BY <1>1, <1>2, WoodsGrow

(* A new item is a tree by itself; else it is lost.                        *)
LEMMA FreshSound ==
    ASSUME NEW m, NEW f, NEW R, NEW L, Sound(m, f, R, L),
           NEW a \in 1..ItemCount, a \notin LiveItems(m), NEW e, IsFresh(e),
           NEW n \in Memory, n.str = m.str, n.bad = m.bad,
           \A x \in 1..ItemCount : n.item[x] = IF x = a THEN e ELSE m.item[x]
    PROVE  /\ a \notin DOMAIN f
           /\ Sound(n, Both(f, Single(a)), R \cup {a}, L)
           /\ Sound(n, f, R, L \cup {a})
<1>1. /\ m \in Memory /\ Woods(f, R) /\ LinkedAs(m, f, R)
      /\ LiveItems(m) = DOMAIN f \cup L /\ DOMAIN f \cap L = {} /\ ~m.bad
      /\ OwnedOnce(m, DOMAIN f) /\ Blocks(m) = OwnedBlocks(m, DOMAIN f)
  BY DEF Sound, Layout, Strings
<1>2. /\ e \in Item /\ e.live /\ e.next = NULL /\ e.prev = NULL
      /\ e.isReference \/ (e.child = NULL /\ e.valuestring = NoString)
      /\ e.string = NoString
  BY DEF IsFresh
<1>3. /\ n \in Memory /\ n.str = m.str /\ n.bad = m.bad
      /\ \A x \in 1..ItemCount : n.item[x] = IF x = a THEN e ELSE m.item[x]
  OBVIOUS
<1>4. /\ DOMAIN m.item = 1..ItemCount /\ DOMAIN n.item = 1..ItemCount /\ a # NULL
      /\ LiveItems(m) \subseteq 1..ItemCount
  BY <1>1, <1>3, MemoryFacts
<1>5. LiveItems(n) = LiveItems(m) \cup {a}
  BY <1>2, <1>3, <1>4 DEF LiveItems
<1>6. \A x \in LiveItems(m) : n.item[x] = m.item[x]
  BY <1>3, <1>4
<1>7. LiveItems(n) \ LiveItems(m) = {a} /\ a \notin DOMAIN f /\ n.item[a] = e
  BY <1>1, <1>3, <1>5
<1>8. ForestOf(n, {a}) = Single(a)
  <2>1. ~e.isReference => Children(n, a) = <<>>
    BY <1>2, <1>7 DEF Children
  <2> QED BY <1>7, <2>1 DEF ForestOf, Single
<1>9. OwnName(n, a) = NoString /\ OwnValue(n, a) = NoString
  BY <1>2, <1>7 DEF OwnName, OwnValue
<1>10. OwnedOnce(n, {a}) /\ OwnedBlocks(n, {a}) = {}
  <2>1. \A s \in Slots({a}) : Own(n, s) = NoString
    BY <1>9 DEF Slots, Own
  <2>2. OwnedBlocks(n, {a}) = {}
    BY <2>1, BlankIs DEF OwnedBlocks
  <2> QED BY <2>1, <2>2, OwnedOnceIs
<1>11. Blocks(n) = Blocks(m)
  BY <1>3 DEF Blocks
<1>12. LinkedAs(n, Single(a), {a})
  <2>1. DOMAIN Single(a) = {a} /\ Single(a)[a] = <<>> /\ Nth(<<>>, 1) = NULL /\ DOMAIN <<>> = {}
    BY DEF Single, Nth
  <2>2. n.item[a].isReference \/ n.item[a].child = NULL
    BY <1>2, <1>7
  <2>3. n.item[a].next = NULL /\ n.item[a].prev = NULL
    BY <1>2, <1>7
  <2> QED BY <2>1, <2>2, <2>3 DEF LinkedAs
<1>13. NewTree(m, n, a)
  <2>1. Forest!IsForest(Single(a), {a})
    BY WoodsSingle DEF Woods
  <2> QED BY <1>3, <1>4, <1>5, <1>6, <1>7, <1>8, <1>10, <1>11, <1>12, <2>1 DEF NewTree
<1>14. Sound(n, Both(f, Single(a)), R \cup {a}, L)
  <2>1. Single(a) = ForestOf(n, LiveItems(n) \ LiveItems(m))
    BY <1>7, <1>8
  <2> QED BY <1>4, <1>13, <2>1, BuildSound
<1>15. Sound(n, f, R, L \cup {a})
  <2>1. /\ R \subseteq DOMAIN f /\ DOMAIN f \subseteq LiveItems(m)
        /\ \A x \in DOMAIN f : \A i \in DOMAIN f[x] : f[x][i] \in DOMAIN f
    BY <1>1, ForestPlaces DEF Woods
  <2>2. LinkedAs(n, f, R)
    <3>1. ASSUME NEW x \in DOMAIN f
          PROVE  IF n.item[x].isReference THEN f[x] = <<>>
                 ELSE /\ n.item[x].child = Nth(f[x], 1)
                      /\ \A i \in DOMAIN f[x] :
                           /\ n.item[f[x][i]].next = Nth(f[x], i + 1)
                           /\ n.item[f[x][i]].prev = Nth(f[x], i - 1)
      <4>1. IF m.item[x].isReference THEN f[x] = <<>>
            ELSE /\ m.item[x].child = Nth(f[x], 1)
                 /\ \A i \in DOMAIN f[x] :
                      /\ m.item[f[x][i]].next = Nth(f[x], i + 1)
                      /\ m.item[f[x][i]].prev = Nth(f[x], i - 1)
        BY <1>1 DEF LinkedAs
      <4>2. n.item[x] = m.item[x] /\ \A i \in DOMAIN f[x] : n.item[f[x][i]] = m.item[f[x][i]]
        BY <1>6, <2>1
      <4> QED BY <4>1, <4>2
    <3>2. \A r \in R : n.item[r].next = NULL /\ n.item[r].prev = NULL
      <4>1. \A r \in R : n.item[r] = m.item[r]
        BY <1>6, <2>1
      <4> QED BY <1>1, <4>1 DEF LinkedAs
    <3> QED BY <3>1, <3>2 DEF LinkedAs
  <2>3. Strings(n, DOMAIN f)
    <3>1. \A x \in DOMAIN f : OwnName(n, x) = OwnName(m, x) /\ OwnValue(n, x) = OwnValue(m, x)
      BY <1>6, <2>1 DEF OwnName, OwnValue
    <3>2. OwnedOnce(n, DOMAIN f) /\ OwnedBlocks(n, DOMAIN f) = OwnedBlocks(m, DOMAIN f)
      BY <1>1, <3>1, OwnedSame
    <3> QED BY <1>1, <1>11, <3>2 DEF Strings
  <2>4. LiveItems(n) = DOMAIN f \cup (L \cup {a}) /\ DOMAIN f \cap (L \cup {a}) = {}
    BY <1>1, <1>5, <1>7
  <2> QED BY <1>1, <1>3, <2>2, <2>3, <2>4 DEF Sound, Layout
<1> QED BY <1>7, <1>14, <1>15

(* cJSON_New_Item finds a free place, if there is one.                     *)
LEMMA NewItemIs ==
    ASSUME NEW m \in Memory, NEW c, c = NewItem(m)
    PROVE  \/ c = [m |-> m, p |-> NULL]
           \/ /\ c.p \in 1..ItemCount /\ c.p \notin LiveItems(m) /\ c.p # NULL
              /\ c = [m |-> [m EXCEPT !.item[c.p] = Blank], p |-> c.p]
<1> DEFINE free == {a \in DOMAIN m.item : ~m.item[a].live}
           a == Min(free)
<1>1. DOMAIN m.item = 1..ItemCount /\ 1..ItemCount \subseteq Nat /\ NULL \notin 1..ItemCount
  BY MemoryFacts
<1>2. CASE free = {}
  BY <1>2 DEF NewItem
<1>3. CASE free # {}
  <2>1. a \in free
    <3>1. free \in SUBSET Nat
      BY <1>1
    <3> HIDE DEF free
    <3> QED BY <1>3, <3>1, FirstFree
  <2>2. c = [m |-> [m EXCEPT !.item[a] = Blank], p |-> a]
    BY <1>3 DEF NewItem
  <2> HIDE DEF a
  <2>3. a \in 1..ItemCount /\ a \notin LiveItems(m) /\ c.p = a
    BY <1>1, <2>1, <2>2 DEF LiveItems
  <2> QED BY <1>1, <2>2, <2>3
<1> QED BY <1>2, <1>3

(* What a call gives that creates one item, or nothing.                    *)
Gave(m, f, R, L, c) ==
    IF c.p = NULL THEN Sound(c.m, f, R, L)
    ELSE /\ c.p \notin DOMAIN f
         /\ \A x \in DOMAIN f : c.m.item[x] = m.item[x]
         /\ Sound(c.m, Both(f, Single(c.p)), R \cup {c.p}, L)
         /\ Forest!Make(f, R, Both(f, Single(c.p)), R \cup {c.p})

(* A call puts item e where none was, and gives it.                        *)
Puts(m, c, e) ==
    /\ c.p \in 1..ItemCount
    /\ c.p \notin LiveItems(m)
    /\ c.p # NULL
    /\ c.m = [m EXCEPT !.item[c.p] = e]

(* An item that was put where none was is a tree, or lost.                 *)
LEMMA FreshGave ==
    ASSUME NEW m, NEW f, NEW R, NEW L, Sound(m, f, R, L), NEW c,
           NEW e, IsFresh(e), Puts(m, c, e)
    PROVE  /\ Gave(m, f, R, L, c)
           /\ Sound(c.m, f, R, L \cup {c.p})
<1> DEFINE a == c.p
           n == c.m
<1>1. m \in Memory /\ DOMAIN f \subseteq 1..ItemCount
  BY ForestIs DEF Sound, Layout
<1>2. a \in 1..ItemCount /\ a \notin LiveItems(m) /\ a # NULL
  BY DEF Puts
<1>3. n = [m EXCEPT !.item[a] = e]
  BY DEF Puts
<1>4. c.p = a /\ c.m = n
  OBVIOUS
<1> HIDE DEF a, n
<1>5. /\ n \in Memory /\ n.str = m.str /\ n.bad = m.bad
      /\ \A x \in 1..ItemCount : n.item[x] = IF x = a THEN e ELSE m.item[x]
  <2>1. e \in Item
    BY DEF IsFresh
  <2> QED BY <1>1, <1>2, <1>3, <2>1, ItemSet
<1>6. a \notin DOMAIN f /\ Woods(f, R)
  BY <1>2 DEF Sound, Layout
<1>7. Sound(n, Both(f, Single(a)), R \cup {a}, L)
  BY <1>2, <1>5, FreshSound
<1>8. Sound(n, f, R, L \cup {a})
  BY <1>2, <1>5, FreshSound
<1>9. Forest!Make(f, R, Both(f, Single(a)), R \cup {a})
  BY <1>6, MakeSingle
<1>10. \A x \in DOMAIN f : n.item[x] = m.item[x]
  BY <1>1, <1>5, <1>6
<1> QED BY <1>2, <1>4, <1>6, <1>7, <1>8, <1>9, <1>10 DEF Gave

(* Create puts an item of its type, or has no memory.                      *)
LEMMA CreateIs ==
    ASSUME NEW m \in Memory,
           NEW type \in Kinds \cup {"Invalid", "Number", "String", "Array", "Object"},
           NEW c, c = Create(m, type)
    PROVE  \/ c = [m |-> m, p |-> NULL]
           \/ Puts(m, c, [Blank EXCEPT !.type = type])
<1> DEFINE w == NewItem(m)
<1>1. \/ w = [m |-> m, p |-> NULL]
      \/ /\ w.p \in 1..ItemCount /\ w.p \notin LiveItems(m) /\ w.p # NULL
         /\ w = [m |-> [m EXCEPT !.item[w.p] = Blank], p |-> w.p]
  BY NewItemIs
<1>2. CASE w.p = NULL
  BY <1>1, <1>2 DEF Create
<1>3. CASE w.p # NULL
  <2> DEFINE a == w.p
             o == [m EXCEPT !.item[a] = Blank]
  <2>1. a \in 1..ItemCount /\ a \notin LiveItems(m) /\ w = [m |-> o, p |-> a]
    BY <1>1, <1>3
  <2>2. c = [w EXCEPT !.m.item[a].type = type]
    BY <1>3 DEF Create
  <2> HIDE DEF w, a
  <2>3. c = [m |-> [o EXCEPT !.item[a].type = type], p |-> a]
    <3> HIDE DEF o
    <3> QED BY <2>1, <2>2
  <2>4. [o EXCEPT !.item[a].type = type] = [m EXCEPT !.item[a] = [Blank EXCEPT !.type = type]]
    BY <2>1 DEF Memory
  <2>5. /\ c.p = a /\ a # NULL
        /\ c.m = [m EXCEPT !.item[a] = [Blank EXCEPT !.type = type]]
    BY <1>3, <2>3, <2>4 DEF a
  <2> QED BY <2>1, <2>5 DEF Puts
<1> QED BY <1>2, <1>3

(* A new item of any kind.                                                 *)
LEMMA KindIsFresh ==
    ASSUME NEW type \in Kinds \cup {"Invalid", "Number", "String", "Array", "Object"}
    PROVE  IsFresh([Blank EXCEPT !.type = type])
  BY BlankIs DEF IsFresh, Item, Blank

(* The calls that create one item of a kind keep the memory sound.         *)
LEMMA CreateSound ==
    ASSUME NEW m, NEW f, NEW R, NEW L, Sound(m, f, R, L),
           NEW type \in Kinds \cup {"Invalid", "Number", "String", "Array", "Object"}
    PROVE  Gave(m, f, R, L, Create(m, type))
<1> DEFINE c == Create(m, type)
           e == [Blank EXCEPT !.type = type]
<1>1. m \in Memory /\ DOMAIN f \subseteq 1..ItemCount
  BY ForestIs DEF Sound, Layout
<1>2. IsFresh(e)
  BY KindIsFresh
<1> HIDE DEF e
<1>3. c = [m |-> m, p |-> NULL] \/ Puts(m, c, e)
  BY <1>1, CreateIs DEF e
<1> HIDE DEF c
<1>4. ASSUME c = [m |-> m, p |-> NULL] PROVE Gave(m, f, R, L, c)
  <2>1. c.p = NULL /\ c.m = m
    BY <1>4
  <2> QED BY <2>1 DEF Gave
<1>5. ASSUME c # [m |-> m, p |-> NULL] PROVE Gave(m, f, R, L, c)
  BY <1>2, <1>3, <1>5, FreshGave
<1> QED BY <1>4, <1>5 DEF c

(* A forest that was made larger by a single item, without that item.      *)
LEMMA WithoutSingle ==
    ASSUME NEW f, NEW R, Woods(f, R), NEW a, a \notin DOMAIN f
    PROVE  Forest!Without(Both(f, Single(a)), a) = f
<1> DEFINE g == Both(f, Single(a))
<1>1. Woods(Single(a), {a})
  BY WoodsSingle
<1>2. DOMAIN f \cap DOMAIN Single(a) = {} /\ DOMAIN Single(a) = {a}
  BY DEF Single
<1>3. Forest!Tree(g, a) = {a}
  <2>1. Forest!Tree(g, a) = DOMAIN Single(a)
    BY <1>1, <1>2, WoodsGrow
  <2> QED BY <1>2, <2>1
<1>4. DOMAIN g \ {a} = DOMAIN f /\ \A x \in DOMAIN f : g[x] = f[x]
  BY <1>2 DEF Both
<1>5. f = [x \in DOMAIN f |-> f[x]]
  BY DEF Woods, IsListing
<1> HIDE DEF g
<1>6. Forest!Without(g, a) = [x \in DOMAIN f |-> g[x]]
  BY <1>3, <1>4 DEF Forest!Without, Forest!Keep
<1> QED BY <1>4, <1>5, <1>6 DEF g

(* The value of an item is set.                                            *)
LEMMA ValueSet ==
    ASSUME NEW m \in Memory, NEW a \in 1..ItemCount, NEW v \in Text
    PROVE  LET n == [m EXCEPT !.item[a].valuestring = v]
           IN /\ n \in Memory /\ n.str = m.str /\ n.bad = m.bad
              /\ \A x \in 1..ItemCount :
                    /\ x # a => n.item[x] = m.item[x]
                    /\ n.item[x].live = m.item[x].live
                    /\ n.item[x].isReference = m.item[x].isReference
                    /\ n.item[x].stringIsConst = m.item[x].stringIsConst
                    /\ n.item[x].child = m.item[x].child
                    /\ n.item[x].next = m.item[x].next
                    /\ n.item[x].prev = m.item[x].prev
                    /\ n.item[x].string = m.item[x].string
              /\ n.item[a].valuestring = v
<1> DEFINE e == [m.item[a] EXCEPT !.valuestring = v]
           n == [m EXCEPT !.item[a] = e]
<1>1. m.item[a] \in Item
  BY DEF Memory
<1>2. e \in Item /\ e.valuestring = v
        /\ e.child = m.item[a].child /\ e.next = m.item[a].next /\ e.live = m.item[a].live
        /\ e.isReference = m.item[a].isReference /\ e.stringIsConst = m.item[a].stringIsConst
        /\ e.string = m.item[a].string /\ e.prev = m.item[a].prev
  BY <1>1 DEF Item
<1>3. [m EXCEPT !.item[a].valuestring = v] = n
  OBVIOUS
<1> HIDE DEF e
<1>4. /\ n \in Memory /\ n.str = m.str /\ n.bad = m.bad
      /\ \A x \in 1..ItemCount : n.item[x] = IF x = a THEN e ELSE m.item[x]
  BY <1>2, ItemSet
<1> HIDE DEF n
<1> QED BY <1>2, <1>3, <1>4

(* The name of an item is set.                                             *)
Renamed(m, a, v, b) == [m EXCEPT !.item[a].string = v, !.item[a].stringIsConst = b]

(* What changes when an item is renamed.                                   *)
LEMMA NameSet ==
    ASSUME NEW m \in Memory, NEW a \in 1..ItemCount, NEW v \in Text, NEW b \in BOOLEAN,
           NEW n, n = Renamed(m, a, v, b)
    PROVE  /\ n \in Memory /\ n.str = m.str /\ n.bad = m.bad
           /\ \A x \in 1..ItemCount :
                 /\ x # a => n.item[x] = m.item[x]
                 /\ n.item[x].live = m.item[x].live
                 /\ n.item[x].isReference = m.item[x].isReference
                 /\ n.item[x].child = m.item[x].child
                 /\ n.item[x].next = m.item[x].next
                 /\ n.item[x].prev = m.item[x].prev
                 /\ n.item[x].valuestring = m.item[x].valuestring
           /\ n.item[a].string = v
           /\ n.item[a].stringIsConst = b
<1> DEFINE e == [m.item[a] EXCEPT !.string = v, !.stringIsConst = b]
           o == [m EXCEPT !.item[a] = e]
<1>1. m.item[a] \in Item /\ m.item \in [1..ItemCount -> Item]
  BY DEF Memory
<1>2. e \in Item /\ e.string = v /\ e.stringIsConst = b
        /\ e.child = m.item[a].child /\ e.next = m.item[a].next /\ e.live = m.item[a].live
        /\ e.isReference = m.item[a].isReference
        /\ e.valuestring = m.item[a].valuestring /\ e.prev = m.item[a].prev
  BY <1>1 DEF Item
<1>3. n = o
  BY <1>1 DEF Memory, Renamed
<1> HIDE DEF e
<1>4. /\ o \in Memory /\ o.str = m.str /\ o.bad = m.bad
      /\ \A x \in 1..ItemCount : o.item[x] = IF x = a THEN e ELSE m.item[x]
  BY <1>2, ItemSet
<1> HIDE DEF o
<1> QED BY <1>2, <1>3, <1>4

(* A block that no item owns has an owner then: slot q, which had none.    *)
LEMMA NewBlock ==
    ASSUME NEW m, NEW n, NEW D, Strings(m, D), NEW q \in Slots(D), NEW v,
           Own(m, q) = NoString, Own(n, q) = v, v.id # 0, v.id \notin Blocks(m),
           \A s \in Slots(D) : s # q => Own(n, s) = Own(m, s),
           Blocks(n) = Blocks(m) \cup {v.id}, 0 \notin Blocks(m)
    PROVE  Strings(n, D)
<1>1. NoString.id = 0
  BY BlankIs
<1>2. Own(n, q).id # 0 => \A s \in Slots(D) : s # q => Own(m, s).id # Own(n, q).id
  <2>1. Blocks(m) = {Own(m, s).id : s \in Slots(D)} \ {0}
    BY DEF Strings, OwnedBlocks
  <2> QED BY <2>1
<1>3. Blocks(n) = (Blocks(m) \ {Own(m, q).id}) \cup ({Own(n, q).id} \ {0})
  BY <1>1
<1> QED BY <1>2, <1>3, SlotSound

(* cJSON_CreateString, which deletes its item again without memory for the *)
(* text.                                                                   *)
LEMMA CreateStringSound ==
    ASSUME NEW m, NEW f, NEW R, NEW L, Sound(m, f, R, L), NEW text \in Texts
    PROVE  Gave(m, f, R, L, CreateString(m, text))
<1> DEFINE w == Create(m, "String")
           u == StrDup(w.m, Constant(text))
           c == CreateString(m, text)
<1>1. Gave(m, f, R, L, w)
  BY CreateSound
<1>2. Woods(f, R) /\ R \subseteq DOMAIN f /\ m \in Memory /\ DOMAIN f \subseteq 1..ItemCount
  BY ForestIs DEF Sound, Layout
<1>3. \/ w = [m |-> m, p |-> NULL]
      \/ /\ w.p \in 1..ItemCount /\ w.p \notin LiveItems(m) /\ w.p # NULL
         /\ w.m = [m EXCEPT !.item[w.p] = [Blank EXCEPT !.type = "String"]]
  <2>1. w = [m |-> m, p |-> NULL] \/ Puts(m, w, [Blank EXCEPT !.type = "String"])
    BY <1>2, CreateIs
  <2> QED BY <2>1 DEF Puts
<1>4. c = IF w.p = NULL THEN w
          ELSE IF u.p = NoString THEN [m |-> Delete(w.m, w.p), p |-> NULL]
          ELSE [m |-> [u.m EXCEPT !.item[w.p].valuestring = u.p], p |-> w.p]
  BY DEF CreateString
<1> HIDE DEF c, w
<1>5. ASSUME w.p = NULL PROVE Gave(m, f, R, L, c)
  BY <1>1, <1>4, <1>5
<1>6. ASSUME w.p # NULL PROVE Gave(m, f, R, L, c)
  <2> DEFINE a == w.p
             o == w.m
             g == Both(f, Single(a))
             D == DOMAIN g
             e == [Blank EXCEPT !.type = "String"]
  <2>1. /\ a \notin DOMAIN f /\ Sound(o, g, R \cup {a}, L)
        /\ \A x \in DOMAIN f : o.item[x] = m.item[x]
    BY <1>1, <1>6 DEF Gave
  <2>2. a \in 1..ItemCount /\ o = [m EXCEPT !.item[a] = e]
    BY <1>3, <1>6
  <2>3. /\ e.isReference = FALSE /\ e.valuestring = NoString /\ e \in Item
    BY BlankIs DEF Blank, Item
  <2> HIDE DEF a, o, e
  <2>4. o \in Memory /\ o.item[a] = e
    BY <1>2, <2>2, <2>3, ItemSet
  <2>5. \/ u.m = o /\ u.p = NoString
        \/ /\ u.p \in Text /\ u.p.id # 0 /\ u.p.id \notin Blocks(o)
           /\ u.m \in Memory /\ u.m.item = o.item /\ u.m.bad = o.bad
           /\ Blocks(u.m) = Blocks(o) \cup {u.p.id}
    BY <2>4, StrDupIs DEF o
  <2>6. a \in D /\ Forest!Without(g, a) = f /\ (R \cup {a}) \ {a} = R
    <3>1. a \in D
      BY DEF Both, Single
    <3> QED BY <1>2, <2>1, <3>1, WithoutSingle
  <2> HIDE DEF g, D
  <2>7. CASE u.p = NoString
    <3>1. c.m = Delete(o, a) /\ c.p = NULL
      BY <1>4, <1>6, <2>7 DEF a, o
    <3>2. Sound(Delete(o, a), Forest!Without(g, a), (R \cup {a}) \ {a}, L)
      BY <2>1, DeleteSound
    <3> QED BY <2>6, <3>1, <3>2 DEF Gave
  <2>8. CASE u.p # NoString
    <3> DEFINE l == u.m
               v == u.p
               n == [l EXCEPT !.item[a].valuestring = v]
               q == <<a, "value">>
    <3>1. /\ v \in Text /\ v.id # 0 /\ v.id \notin Blocks(o) /\ v # NoString
          /\ l \in Memory /\ l.item = o.item /\ l.bad = o.bad
          /\ Blocks(l) = Blocks(o) \cup {v.id}
      BY <2>5, <2>8
    <3>2. c = [m |-> n, p |-> a]
      BY <1>4, <1>6, <2>8 DEF a
    <3> HIDE DEF l, v, u
    <3>3. /\ n \in Memory /\ n.str = l.str /\ n.bad = l.bad
          /\ \A x \in 1..ItemCount :
                /\ x # a => n.item[x] = l.item[x]
                /\ n.item[x].live = l.item[x].live
                /\ n.item[x].isReference = l.item[x].isReference
                /\ n.item[x].stringIsConst = l.item[x].stringIsConst
                /\ n.item[x].child = l.item[x].child
                /\ n.item[x].next = l.item[x].next
                /\ n.item[x].prev = l.item[x].prev
                /\ n.item[x].string = l.item[x].string
          /\ n.item[a].valuestring = v
      BY <2>2, <3>1, ValueSet
    <3> HIDE DEF n
    <3>4. Blocks(n) = Blocks(o) \cup {v.id} /\ 0 \notin Blocks(o)
      <4>1. Blocks(n) = Blocks(l)
        BY <3>3 DEF Blocks
      <4>2. DOMAIN o.str = 1..StringCount
        BY <2>4 DEF Memory
      <4> QED BY <3>1, <4>1, <4>2 DEF Blocks
    <3>5. DOMAIN g \subseteq 1..ItemCount /\ Strings(o, DOMAIN g)
      BY <2>1, ForestIs DEF Sound
    <3>6. Own(o, q) = NoString /\ Own(n, q) = v /\ q \in Slots(DOMAIN g)
      <4>1. n.item[a].isReference = FALSE
        BY <2>2, <2>3, <2>4, <3>1, <3>3
      <4> QED BY <2>3, <2>4, <2>6, <3>3, <4>1 DEF Own, OwnValue, Slots, D
    <3>7. \A s \in Slots(DOMAIN g) : s # q => Own(n, s) = Own(o, s)
      <4>1. ASSUME NEW x \in DOMAIN g
            PROVE  /\ OwnName(n, x) = OwnName(o, x)
                   /\ x # a => OwnValue(n, x) = OwnValue(o, x)
        BY <3>1, <3>3, <3>5 DEF OwnName, OwnValue
      <4> QED BY <4>1 DEF Own, Slots
    <3> HIDE DEF q
    <3>8. Strings(n, DOMAIN g)
      BY <3>1, <3>4, <3>5, <3>6, <3>7, NewBlock
    <3>9. Sound(n, g, R \cup {a}, L)
      <4>1. /\ n.bad = o.bad
            /\ \A x \in 1..ItemCount :
                  /\ x # a => n.item[x] = o.item[x]
                  /\ n.item[x].live = o.item[x].live
                  /\ n.item[x].isReference = o.item[x].isReference
                  /\ n.item[x].child = o.item[x].child
                  /\ n.item[x].next = o.item[x].next
                  /\ n.item[x].prev = o.item[x].prev
        BY <3>1, <3>3
      <4>2. a \in DOMAIN g /\ n \in Memory
        BY <2>6, <3>3 DEF D
      <4> QED BY <2>1, <3>8, <4>1, <4>2, LabelSound
    <3>10. \A x \in DOMAIN f : n.item[x] = m.item[x]
      BY <1>2, <2>1, <3>1, <3>3
    <3>11. Forest!Make(f, R, g, R \cup {a})
      BY <1>2, <2>1, MakeSingle DEF g
    <3>12. c.m = n /\ c.p = a /\ a # NULL
      BY <1>6, <3>2 DEF a
    <3> QED BY <2>1, <3>9, <3>10, <3>11, <3>12 DEF Gave, g
  <2> QED BY <2>7, <2>8
<1> QED BY <1>5, <1>6 DEF c

(* cJSON_CreateStringReference owns nothing.                               *)
LEMMA CreateStringReferenceSound ==
    ASSUME NEW m, NEW f, NEW R, NEW L, Sound(m, f, R, L), NEW text \in Texts
    PROVE  Gave(m, f, R, L, CreateStringReference(m, text))
<1> DEFINE w == Create(m, "String")
           c == CreateStringReference(m, text)
           e == [Blank EXCEPT !.type = "String"]
           v == Constant(text)
           d == [e EXCEPT !.isReference = TRUE, !.valuestring = v]
<1>1. /\ m \in Memory /\ DOMAIN f \subseteq 1..ItemCount /\ Woods(f, R)
      /\ DOMAIN f \subseteq LiveItems(m)
  BY ForestIs DEF Sound, Layout
<1>2. \/ w = [m |-> m, p |-> NULL]
      \/ /\ w.p \in 1..ItemCount /\ w.p \notin LiveItems(m) /\ w.p # NULL
         /\ w.m = [m EXCEPT !.item[w.p] = e]
  <2>1. w = [m |-> m, p |-> NULL] \/ Puts(m, w, e)
    BY <1>1, CreateIs
  <2> QED BY <2>1 DEF Puts
<1>3. c = IF w.p = NULL THEN w
          ELSE [w EXCEPT !.m.item[w.p].isReference = TRUE, !.m.item[w.p].valuestring = v]
  BY DEF CreateStringReference
<1>4. v \in Text
  <2>1. text \in Seq(STRING) /\ 0 \in 0..StringCount
    BY TextsAssumption, CountsAssumption
  <2> QED BY <2>1 DEF Constant, Text
<1> HIDE DEF v
<1>5. e \in Item /\ e.live /\ e.next = NULL /\ e.prev = NULL /\ e.string = NoString
  <2>1. NULL \in 0..ItemCount /\ NoString \in Text /\ Blank \in Item
    BY BlankIs DEF Item, Blank
  <2> QED BY <2>1 DEF Item, Blank
<1> HIDE DEF e
<1>6. d \in Item
  BY <1>4, <1>5 DEF Item
<1>7. IsFresh(d)
  BY <1>5, <1>6 DEF IsFresh, Item
<1>8. w = [m |-> w.m, p |-> w.p]
  BY DEF Create, NewItem
<1>11. d = [e EXCEPT !.isReference = TRUE, !.valuestring = v]
  OBVIOUS
<1> HIDE DEF c, w, d
<1>9. ASSUME w.p = NULL PROVE Gave(m, f, R, L, c)
  <2>1. c.p = NULL /\ c.m = m
    BY <1>2, <1>3, <1>9
  <2> QED BY <2>1 DEF Gave
<1>10. ASSUME w.p # NULL PROVE Gave(m, f, R, L, c)
  <2> DEFINE a == w.p
             o == [m EXCEPT !.item[a] = e]
             n == [m EXCEPT !.item[a] = d]
  <2>1. a \in 1..ItemCount /\ a \notin LiveItems(m) /\ a # NULL /\ w.m = o
    BY <1>2, <1>10
  <2>2. c = [w EXCEPT !.m.item[a].isReference = TRUE, !.m.item[a].valuestring = v]
    BY <1>3, <1>10
  <2> HIDE DEF a
  <2>3. c.p = a /\ c.m = [o EXCEPT !.item[a].isReference = TRUE, !.item[a].valuestring = v]
    <3> HIDE DEF o
    <3>1. w = [m |-> o, p |-> a]
      BY <1>8, <2>1 DEF a
    <3> QED BY <2>2, <3>1
  <2>4. c.m = n
    <3>1. o.item[a] = e
      BY <1>1, <1>5, <2>1, ItemSet
    <3>2. [o EXCEPT !.item[a].isReference = TRUE, !.item[a].valuestring = v]
             = [o EXCEPT !.item[a] = [o.item[a] EXCEPT !.isReference = TRUE, !.valuestring = v]]
      BY <1>1, <2>1 DEF Memory
    <3>3. [o EXCEPT !.item[a] = d] = n
      BY <1>1, <2>1 DEF Memory
    <3> QED BY <1>11, <2>3, <3>1, <3>2, <3>3
  <2> HIDE DEF o
  <2>5. Puts(m, c, d) /\ c.p # NULL
    BY <2>1, <2>3, <2>4 DEF Puts
  <2> HIDE DEF n
  <2> QED BY <1>7, <2>5, FreshGave
<1> QED BY <1>9, <1>10 DEF c

(* create_reference shares the list of another item, and owns nothing; the *)
(* program may also lose it.                                               *)
LEMMA CreateReferenceSound ==
    ASSUME NEW m, NEW f, NEW R, NEW L, Sound(m, f, R, L), NEW b \in DOMAIN f
    PROVE  /\ Gave(m, f, R, L, CreateReference(m, b))
           /\ CreateReference(m, b).p # NULL =>
                Sound(CreateReference(m, b).m, f, R, L \cup {CreateReference(m, b).p})
           /\ CreateReference(m, b).p = NULL => CreateReference(m, b).m = m
<1> DEFINE w == NewItem(m)
           c == CreateReference(m, b)
           d == [m.item[b] EXCEPT !.string = NoString, !.isReference = TRUE,
                                  !.next = NULL, !.prev = NULL]
<1>1. /\ m \in Memory /\ DOMAIN f \subseteq 1..ItemCount /\ Woods(f, R)
      /\ DOMAIN f \subseteq LiveItems(m)
  BY ForestIs DEF Sound, Layout
<1>2. \/ w = [m |-> m, p |-> NULL]
      \/ /\ w.p \in 1..ItemCount /\ w.p \notin LiveItems(m) /\ w.p # NULL
         /\ w = [m |-> [m EXCEPT !.item[w.p] = Blank], p |-> w.p]
  BY <1>1, NewItemIs
<1>3. c = IF w.p = NULL THEN w ELSE [w EXCEPT !.m.item[w.p] = d]
  BY DEF CreateReference
<1>4. d \in Item
  <2>1. m.item[b] \in Item /\ m.item[b].live
    BY <1>1 DEF Memory, LiveItems
  <2>2. NoString \in Text /\ NULL \in 0..ItemCount
    BY <1>1, BlankIs, MemoryFacts
  <2> QED BY <2>1, <2>2 DEF Item
<1>9. IsFresh(d)
  <2>1. m.item[b] \in Item /\ m.item[b].live
    BY <1>1 DEF Memory, LiveItems
  <2> QED BY <1>4, <2>1 DEF IsFresh, Item
<1> HIDE DEF w, c, d
<1>5. ASSUME w.p = NULL PROVE Gave(m, f, R, L, c) /\ c.p = NULL /\ c.m = m
  <2>1. c.p = NULL /\ c.m = m
    BY <1>2, <1>3, <1>5
  <2> QED BY <2>1 DEF Gave
<1>6. ASSUME w.p # NULL PROVE Gave(m, f, R, L, c) /\ c.p # NULL /\ Sound(c.m, f, R, L \cup {c.p})
  <2> DEFINE a == w.p
             o == [m EXCEPT !.item[a] = Blank]
             n == [m EXCEPT !.item[a] = d]
  <2>1. a \in 1..ItemCount /\ a \notin LiveItems(m) /\ a # NULL /\ w = [m |-> o, p |-> a]
    BY <1>2, <1>6
  <2>2. c = [w EXCEPT !.m.item[a] = d]
    BY <1>3, <1>6
  <2> HIDE DEF a
  <2>3. c.p = a /\ c.m = [o EXCEPT !.item[a] = d]
    <3> HIDE DEF o
    <3> QED BY <2>1, <2>2
  <2>4. c.m = n
    <3>1. [o EXCEPT !.item[a] = d] = n
      BY <1>1, <2>1 DEF Memory
    <3> QED BY <2>3, <3>1
  <2> HIDE DEF o
  <2>5. Puts(m, c, d) /\ c.p # NULL
    BY <2>1, <2>3, <2>4 DEF Puts
  <2> HIDE DEF n
  <2>6. Gave(m, f, R, L, c)
    BY <1>9, <2>5, FreshGave
  <2>7. Sound(c.m, f, R, L \cup {c.p})
    BY <1>9, <2>5, FreshGave
  <2> QED BY <2>5, <2>6, <2>7
<1>7. CASE w.p = NULL
  BY <1>5, <1>7 DEF c
<1>8. CASE w.p # NULL
  BY <1>6, <1>8 DEF c
<1> QED BY <1>7, <1>8

-----------------------------------------------------------------------------
(* Items that get a name.                                                  *)

(* An item is renamed, whose old name is freed: the new one is a constant, *)
(* a copy of its own, or NULL.                                             *)
LEMMA RenameSound ==
    ASSUME NEW m, NEW f, NEW R, NEW L, Sound(m, f, R, L), NEW a \in DOMAIN f,
           NEW o \in Memory, o.item = m.item, o.bad = m.bad,
           NEW v \in Text, NEW b \in BOOLEAN,
           LET rest == Blocks(m) \ {OwnName(m, a).id}
           IN \/ (b \/ v = NoString) /\ Blocks(o) = rest
              \/ ~b /\ v.id # 0 /\ v.id \notin rest /\ Blocks(o) = rest \cup {v.id}
    PROVE  Sound(Renamed(o, a, v, b), f, R, L)
<1> DEFINE n == Renamed(o, a, v, b)
           D == DOMAIN f
           q == <<a, "name">>
<1>1. /\ m \in Memory /\ D \subseteq 1..ItemCount /\ Strings(m, D) /\ a \in 1..ItemCount
  BY ForestIs DEF Sound, Layout
<1>2. /\ n \in Memory /\ n.str = o.str /\ n.bad = o.bad
      /\ \A x \in 1..ItemCount :
            /\ x # a => n.item[x] = o.item[x]
            /\ n.item[x].live = o.item[x].live
            /\ n.item[x].isReference = o.item[x].isReference
            /\ n.item[x].child = o.item[x].child
            /\ n.item[x].next = o.item[x].next
            /\ n.item[x].prev = o.item[x].prev
            /\ n.item[x].valuestring = o.item[x].valuestring
      /\ n.item[a].string = v
      /\ n.item[a].stringIsConst = b
  <2>1. n = Renamed(o, a, v, b)
    OBVIOUS
  <2> HIDE DEF n, D
  <2> QED BY <1>1, <2>1, NameSet
<1> HIDE DEF n, D
<1>3. q \in Slots(D) /\ Own(m, q) = OwnName(m, a) /\ Own(n, q) = IF b THEN NoString ELSE v
  BY <1>2 DEF Slots, Own, OwnName, D
<1>4. \A s \in Slots(D) : s # q => Own(n, s) = Own(m, s)
  <2>1. ASSUME NEW x \in D
        PROVE  /\ OwnValue(n, x) = OwnValue(m, x)
               /\ x # a => OwnName(n, x) = OwnName(m, x)
    BY <1>1, <1>2 DEF OwnName, OwnValue
  <2> QED BY <2>1 DEF Own, Slots
<1> HIDE DEF q
<1>5. Blocks(n) = Blocks(o)
  BY <1>2 DEF Blocks
<1>6. 0 \notin Blocks(m) /\ NoString.id = 0
  <2>1. DOMAIN m.str = 1..StringCount
    BY <1>1 DEF Memory
  <2> QED BY <2>1, BlankIs DEF Blocks
<1>7. Strings(n, D)
  <2> DEFINE old == OwnName(m, a).id
             rest == Blocks(m) \ {old}
  <2>1. CASE (b \/ v = NoString) /\ Blocks(o) = rest
    <3>1. Own(n, q) = NoString
      BY <1>3, <2>1
    <3>2. Own(n, q).id = 0 /\ Blocks(n) = (Blocks(m) \ {Own(m, q).id}) \cup ({Own(n, q).id} \ {0})
      BY <1>3, <1>5, <1>6, <2>1, <3>1
    <3> QED BY <1>1, <1>3, <1>4, <3>1, <3>2, SlotSound
  <2>2. CASE ~b /\ v.id # 0 /\ v.id \notin rest /\ Blocks(o) = rest \cup {v.id}
    <3>1. Own(n, q) = v /\ v.id # 0
      BY <1>3, <2>2
    <3>2. Blocks(n) = (Blocks(m) \ {Own(m, q).id}) \cup ({Own(n, q).id} \ {0})
      BY <1>3, <1>5, <2>2, <3>1
    <3>3. \A s \in Slots(D) : s # q => Own(m, s).id # v.id
      <4> SUFFICES ASSUME NEW s \in Slots(D), s # q, Own(m, s).id = v.id PROVE FALSE
        OBVIOUS
      <4>1. v.id \in Blocks(m)
        <5>1. Blocks(m) = {Own(m, t).id : t \in Slots(D)} \ {0}
          BY <1>1 DEF Strings, OwnedBlocks
        <5> QED BY <3>1, <5>1
      <4>2. Own(m, q).id = v.id
        BY <1>3, <2>2, <4>1
      <4>3. Own(m, s) # NoString /\ Own(m, q) # NoString
        BY <1>6, <3>1, <4>2
      <4>4. OwnedOnce(m, D)
        BY <1>1 DEF Strings
      <4> QED BY <1>3, <4>2, <4>3, <4>4, OwnedOnceIs
    <3> QED BY <1>1, <1>3, <1>4, <3>1, <3>2, <3>3, SlotSound
  <2> QED BY <2>1, <2>2
<1>8. /\ n.bad = m.bad
      /\ \A x \in 1..ItemCount :
            /\ x # a => n.item[x] = m.item[x]
            /\ n.item[x].live = m.item[x].live
            /\ n.item[x].isReference = m.item[x].isReference
            /\ n.item[x].child = m.item[x].child
            /\ n.item[x].next = m.item[x].next
            /\ n.item[x].prev = m.item[x].prev
  BY <1>2
<1>9. n \in Memory /\ Strings(n, DOMAIN f)
  BY <1>2, <1>7 DEF D
<1>10. Sound(n, f, R, L)
  BY <1>8, <1>9, LabelSound
<1> QED BY <1>10 DEF n

(* get_object_item gives a child, or NULL; the name of r, which is in no   *)
(* list, does not matter.                                                  *)
LEMMA GetObjectItemIs ==
    ASSUME NEW m, NEW f, NEW R, NEW L, Sound(m, f, R, L),
           NEW p \in DOMAIN f, ~m.item[p].isReference, NEW name, NEW cs
    PROVE  LET a == GetObjectItem(m, p, name, cs)
           IN a = NULL \/ \E w \in DOMAIN f[p] : a = f[p][w]
<1> DEFINE s == f[p]
           found == {i \in DOMAIN s : SameName(name, m.item[s[i]].string.text, cs)}
<1>1. Children(m, p) = s /\ DOMAIN s = 1..Len(s) /\ Len(s) \in Nat
  BY ListOf DEF ListIsLinked
<1>2. GetObjectItem(m, p, name, cs) = IF name = <<>> \/ found = {} THEN NULL ELSE s[Min(found)]
  BY <1>1 DEF GetObjectItem
<1>3. found # {} => Min(found) \in found
  <2>1. found \in SUBSET Nat
    BY <1>1
  <2> HIDE DEF found
  <2> QED BY <2>1, FirstFree
<1>4. found \subseteq DOMAIN s
  OBVIOUS
<1> HIDE DEF found
<1> QED BY <1>2, <1>3, <1>4

(* An item that is in no list may be renamed: what is found is the same.   *)
LEMMA FoundSame ==
    ASSUME NEW m, NEW n, NEW f, NEW R, NEW L, Sound(m, f, R, L), Sound(n, f, R, L),
           NEW p \in DOMAIN f, ~m.item[p].isReference, ~n.item[p].isReference,
           NEW name, NEW cs, NEW r \in R,
           \A x \in 1..ItemCount : x # r => n.item[x] = m.item[x]
    PROVE  GetObjectItem(n, p, name, cs) = GetObjectItem(m, p, name, cs)
<1> DEFINE s == f[p]
           found(u) == {i \in DOMAIN s : SameName(name, u.item[s[i]].string.text, cs)}
<1>1. Children(m, p) = s /\ DOMAIN s = 1..Len(s)
  BY ListOf DEF ListIsLinked
<1>2. Children(n, p) = s
  BY ListOf DEF ListIsLinked
<1>3. \A i \in DOMAIN s : n.item[s[i]] = m.item[s[i]]
  <2>1. \A i \in 1..Len(s) : s[i] \in DOMAIN f /\ s[i] \notin R
    BY ListOf DEF ListIsLinked
  <2>2. DOMAIN f \subseteq 1..ItemCount
    BY ListOf DEF ListIsLinked
  <2> QED BY <1>1, <2>1, <2>2
<1>4. found(n) = found(m)
  BY <1>3
<1>5. /\ GetObjectItem(m, p, name, cs)
            = IF name = <<>> \/ found(m) = {} THEN NULL ELSE s[Min(found(m))]
      /\ GetObjectItem(n, p, name, cs)
            = IF name = <<>> \/ found(n) = {} THEN NULL ELSE s[Min(found(n))]
  BY <1>1, <1>2 DEF GetObjectItem
<1> HIDE DEF found
<1> QED BY <1>4, <1>5

-----------------------------------------------------------------------------
(* Calls that rename an item and link it.                                  *)

(* The block of a name is one that is in use, or none.                     *)
LEMMA OldName ==
    ASSUME NEW m, NEW D, Strings(m, D), NEW a \in D
    PROVE  OwnName(m, a).id = 0 \/ OwnName(m, a).id \in Blocks(m)
<1>1. Blocks(m) = {Own(m, s).id : s \in Slots(D)} \ {0}
  BY DEF Strings, OwnedBlocks
<1>2. <<a, "name">> \in Slots(D) /\ Own(m, <<a, "name">>) = OwnName(m, a)
  BY DEF Slots, Own
<1> QED BY <1>1, <1>2

(* What owns which strings is read from the items only.                    *)
LEMMA SameOwner ==
    ASSUME NEW m, NEW n, n.item = m.item, NEW D, Strings(m, D)
    PROVE  /\ OwnedOnce(n, D)
           /\ OwnedBlocks(n, D) = Blocks(m)
           /\ \A x \in D : OwnName(n, x) = OwnName(m, x)
<1>1. \A x \in D : OwnName(n, x) = OwnName(m, x) /\ OwnValue(n, x) = OwnValue(m, x)
  BY DEF OwnName, OwnValue
<1>2. OwnedOnce(n, D) <=> OwnedOnce(m, D)
  BY <1>1, OwnedSame
<1>3. OwnedBlocks(n, D) = OwnedBlocks(m, D)
  BY <1>1, OwnedSame
<1> QED BY <1>1, <1>2, <1>3 DEF Strings

(* A constant of the program is a text without a block.                    *)
LEMMA ConstantIs ==
    ASSUME NEW text \in Texts \cup Literals
    PROVE  /\ Constant(text) \in Text /\ Constant(text).id = 0
           /\ Constant(text) # NoString /\ Constant(text).text = text
<1>1. text \in Seq(STRING) /\ text # <<>>
  BY TextsAssumption
<1>2. 0 \in 0..StringCount
  BY CountsAssumption
<1> QED BY <1>1, <1>2 DEF Constant, NoString, Text

(* An item is added at the end, or the call fails and changes nothing.     *)
Added(m, f, R, L, p, r, c) ==
    /\ c.ok => Sound(c.m, [f EXCEPT ![p] = InsertAt(f[p], Len(f[p]) + 1, r)], R \ {r}, L)
    /\ ~c.ok => c.m = m

(* add_item_to_object frees the old name of an item and links it, or       *)
(* changes nothing at all.                                                 *)
LEMMA AddToObjectSound ==
    ASSUME NEW m, NEW f, NEW R, NEW L, Sound(m, f, R, L),
           NEW p \in DOMAIN f, ~m.item[p].isReference,
           NEW r \in R, p \notin Forest!Tree(f, r),
           NEW name \in Texts \cup Literals, NEW constantKey \in BOOLEAN
    PROVE  Added(m, f, R, L, p, r, AddItemToObject(m, p, Constant(name), r, constantKey))
<1> DEFINE c == AddItemToObject(m, p, Constant(name), r, constantKey)
           key == IF constantKey THEN [m |-> m, p |-> Constant(name)]
                  ELSE StrDup(m, Constant(name))
           o == FreeName(key.m, r)
           n == Renamed(o, r, key.p, constantKey)
           D == DOMAIN f
           old == OwnName(m, r).id
<1>1. c = IF r = NULL \/ key.p = NoString THEN [m |-> m, ok |-> FALSE]
          ELSE [m |-> AddItemToArray(n, p, r), ok |-> TRUE]
  BY DEF AddItemToObject, Renamed
<1>2. m \in Memory /\ Strings(m, D) /\ r \in D /\ D \subseteq 1..ItemCount /\ R \subseteq D
  BY ForestIs DEF Sound, Layout
<1> HIDE DEF n, D
<1> HIDE DEF c
<1>12. CASE ~(r # NULL /\ key.p # NoString)
  BY <1>1, <1>12 DEF c, Added
<1>3. SUFFICES ASSUME r # NULL, key.p # NoString
               PROVE  Sound(AddItemToArray(n, p, r),
                            [f EXCEPT ![p] = InsertAt(f[p], Len(f[p]) + 1, r)], R \ {r}, L)
  <2>1. CASE r # NULL /\ key.p # NoString
    <3>1. c = [m |-> AddItemToArray(n, p, r), ok |-> TRUE]
      BY <1>1, <2>1
    <3> QED BY <1>3, <2>1, <3>1 DEF c, Added
  <2> QED BY <1>12, <2>1
<1>4. /\ key.m \in Memory /\ key.m.item = m.item /\ key.m.bad = m.bad /\ key.p \in Text
      /\ \/ constantKey /\ Blocks(key.m) = Blocks(m)
         \/ /\ ~constantKey /\ key.p.id # 0 /\ key.p.id \notin Blocks(m)
            /\ Blocks(key.m) = Blocks(m) \cup {key.p.id}
  <2>1. CASE constantKey
    BY <1>2, <2>1, ConstantIs
  <2>2. CASE ~constantKey
    <3>1. key = StrDup(m, Constant(name))
      BY <2>2
    <3> HIDE DEF key
    <3> QED BY <1>2, <1>3, <2>2, <3>1, StrDupIs
  <2> QED BY <2>1, <2>2
<1> HIDE DEF key
<1>5. OwnedOnce(key.m, D) /\ OwnedBlocks(key.m, D) \subseteq Blocks(key.m)
  <2>1. OwnedBlocks(key.m, D) = Blocks(m)
    BY <1>2, <1>4, SameOwner
  <2>2. OwnedOnce(key.m, D)
    BY <1>2, <1>4, SameOwner
  <2> QED BY <1>4, <2>1, <2>2
<1>6. OwnName(key.m, r) = OwnName(m, r)
  BY <1>2, <1>4, SameOwner
<1>7. /\ o \in Memory /\ o.item = key.m.item /\ o.bad = key.m.bad
      /\ Blocks(o) = Blocks(key.m) \ {OwnName(key.m, r).id}
  <2> HIDE DEF o
  <2>1. o = FreeName(key.m, r)
    BY DEF o
  <2> QED BY <1>2, <1>4, <1>5, <2>1, FreeNameIs
<1>8. old = 0 \/ old \in Blocks(m)
  BY <1>2, OldName
<1> HIDE DEF o
<1>9. LET rest == Blocks(m) \ {old}
      IN \/ (constantKey \/ key.p = NoString) /\ Blocks(o) = rest
         \/ /\ ~constantKey /\ key.p.id # 0 /\ key.p.id \notin rest
            /\ Blocks(o) = rest \cup {key.p.id}
  BY <1>4, <1>6, <1>7, <1>8
<1>10. Sound(n, f, R, L)
  <2>1. r \in DOMAIN f /\ o.item = m.item /\ o.bad = m.bad
    BY <1>2, <1>4, <1>7 DEF D
  <2> QED BY <1>4, <1>7, <1>9, <2>1, RenameSound DEF n
<1>11. ~n.item[p].isReference
  <2>1. r \in 1..ItemCount /\ p \in 1..ItemCount /\ o.item = m.item
    BY <1>2, <1>4, <1>7 DEF D
  <2>2. n = Renamed(o, r, key.p, constantKey)
    BY DEF n
  <2>3. n.item[p].isReference = o.item[p].isReference
    BY <1>4, <1>7, <2>1, <2>2, NameSet
  <2> QED BY <2>1, <2>3
<1> QED BY <1>10, <1>11, AddSound

(* What cJSON_ReplaceItemInObject does: it replaces item a by r, if there  *)
(* is an a.                                                                *)
Replaced(m, f, R, L, p, r, a, n) ==
    \/ a = NULL /\ Sound(n, f, R, L)
    \/ /\ a # NULL
       /\ \E w \in DOMAIN f[p] :
             /\ a = f[p][w]
             /\ Sound(n, [Forest!Without(f, a) EXCEPT ![p] = [f[p] EXCEPT ![w] = r]],
                      R \ {r}, L)

(* cJSON_ReplaceItemInObject replaces an item of the name, if there is     *)
(* one, and renames the replacement in any case.                           *)
LEMMA ReplaceInObjectSound ==
    ASSUME NEW m, NEW f, NEW R, NEW L, Sound(m, f, R, L),
           NEW p \in DOMAIN f, ~m.item[p].isReference,
           NEW r \in R, p \notin Forest!Tree(f, r),
           NEW name \in Texts \cup Literals, NEW caseSensitive \in BOOLEAN
    PROVE  Replaced(m, f, R, L, p, r, GetObjectItem(m, p, name, caseSensitive),
                    ReplaceInObject(m, p, Constant(name), r, caseSensitive))
<1> DEFINE n == ReplaceInObject(m, p, Constant(name), r, caseSensitive)
           a == GetObjectItem(m, p, name, caseSensitive)
           e == FreeName(m, r)
           copy == StrDup(e, Constant(name))
           o == Renamed(copy.m, r, copy.p, FALSE)
           D == DOMAIN f
           old == OwnName(m, r).id
<1>1. n = Replace(o, p, GetObjectItem(o, p, name, caseSensitive), r)
  BY ConstantIs DEF ReplaceInObject, Renamed
<1>2. m \in Memory /\ Strings(m, D) /\ r \in D /\ D \subseteq 1..ItemCount /\ R \subseteq D
  BY ForestIs DEF Sound, Layout
<1> HIDE DEF o, D
<1>3. /\ e \in Memory /\ e.item = m.item /\ e.bad = m.bad /\ Blocks(e) = Blocks(m) \ {old}
  <2> HIDE DEF e
  <2>1. e = FreeName(m, r)
    BY DEF e
  <2>2. OwnedOnce(m, D) /\ OwnedBlocks(m, D) \subseteq Blocks(m)
    BY <1>2 DEF Strings
  <2> QED BY <1>2, <2>1, <2>2, FreeNameIs
<1> HIDE DEF e
<1>4. \/ copy.m = e /\ copy.p = NoString
      \/ /\ copy.p \in Text /\ copy.p.id # 0 /\ copy.p.id \notin Blocks(e)
         /\ copy.m \in Memory /\ copy.m.item = e.item /\ copy.m.bad = e.bad
         /\ Blocks(copy.m) = Blocks(e) \cup {copy.p.id}
  <2> HIDE DEF copy
  <2>1. copy = StrDup(e, Constant(name))
    BY DEF copy
  <2> QED BY <1>3, <2>1, StrDupIs
<1> HIDE DEF copy
<1>5. copy.m \in Memory /\ copy.m.item = m.item /\ copy.m.bad = m.bad /\ copy.p \in Text
  BY <1>3, <1>4, BlankIs
<1>6. LET rest == Blocks(m) \ {old}
      IN \/ (FALSE \/ copy.p = NoString) /\ Blocks(copy.m) = rest
         \/ /\ ~FALSE /\ copy.p.id # 0 /\ copy.p.id \notin rest
            /\ Blocks(copy.m) = rest \cup {copy.p.id}
  BY <1>3, <1>4
<1>7. Sound(o, f, R, L)
  <2>1. r \in DOMAIN f /\ FALSE \in BOOLEAN
    BY <1>2 DEF D
  <2> QED BY <1>5, <1>6, <2>1, RenameSound DEF o
<1>8. \A x \in 1..ItemCount : /\ x # r => o.item[x] = m.item[x]
                              /\ o.item[x].isReference = m.item[x].isReference
  <2> DEFINE no == FALSE
  <2>1. r \in 1..ItemCount /\ no \in BOOLEAN
    BY <1>2
  <2>2. o = Renamed(copy.m, r, copy.p, no)
    BY DEF o
  <2> HIDE DEF no
  <2>3. \A x \in 1..ItemCount : /\ x # r => o.item[x] = copy.m.item[x]
                                /\ o.item[x].isReference = copy.m.item[x].isReference
    <3>1. \A x \in 1..ItemCount : x # r => o.item[x] = copy.m.item[x]
      BY <1>5, <2>1, <2>2, NameSet
    <3>2. \A x \in 1..ItemCount : o.item[x].isReference = copy.m.item[x].isReference
      BY <1>5, <2>1, <2>2, NameSet
    <3> QED BY <3>1, <3>2
  <2> QED BY <1>5, <2>3
<1>9. ~o.item[p].isReference
  BY <1>2, <1>8 DEF D
<1>10. GetObjectItem(o, p, name, caseSensitive) = a
  <2>1. \A x \in 1..ItemCount : x # r => o.item[x] = m.item[x]
    BY <1>8
  <2> QED BY <1>7, <1>9, <2>1, FoundSame
<1>13. a = NULL \/ \E w \in DOMAIN f[p] : a = f[p][w]
  BY GetObjectItemIs
<1> SUFFICES Replaced(m, f, R, L, p, r, a, n)
  OBVIOUS
<1> HIDE DEF n, a
<1>11. CASE a = NULL
  BY <1>1, <1>7, <1>10, <1>11 DEF Replace, Replaced
<1>12. CASE a # NULL
  <2>1. PICK w \in DOMAIN f[p] : a = f[p][w]
    BY <1>12, <1>13
  <2>2. Sound(Replace(o, p, f[p][w], r),
              [Forest!Without(f, f[p][w]) EXCEPT ![p] = [f[p] EXCEPT ![w] = r]], R \ {r}, L)
    BY <1>7, <1>9, ReplaceSound
  <2> QED BY <1>1, <1>10, <1>12, <2>1, <2>2 DEF Replaced
<1> QED BY <1>11, <1>12

-----------------------------------------------------------------------------
(* Steps of the forest.                                                    *)

Kept(f, R, g, Q) == (f = g /\ R = Q) \/ Forest!Step(f, R, g, Q)

(* A tree of new items is a step of the forest.                            *)
LEMMA MakeStep ==
    ASSUME NEW f, NEW R, NEW g, NEW Q, Forest!Make(f, R, g, Q)
    PROVE  Kept(f, R, g, Q)
BY DEF Kept, Forest!Step

(* A loose item that is discarded is a step of the forest.                 *)
LEMMA DiscardStep ==
    ASSUME NEW f, NEW R, NEW r \in R
    PROVE  Kept(f, R, Forest!Without(f, r), R \ {r})
<1> DEFINE g == Forest!Without(f, r)
           Q == R \ {r}
<1>1. r \in R \ Q /\ Forest!Discard(f, R, g, Q, r)
  BY DEF Forest!Discard
<1> HIDE DEF g, Q
<1>2. Kept(f, R, g, Q)
  BY <1>1 DEF Kept, Forest!Step
<1> QED BY <1>2 DEF g, Q

(* A loose item that gets a place is a step of the forest.                 *)
LEMMA PlaceStep ==
    ASSUME NEW f, NEW R, Woods(f, R), NEW p \in DOMAIN f, NEW r \in R,
           p \notin Forest!Tree(f, r), NEW w \in 1..Len(f[p]) + 1
    PROVE  Kept(f, R, [f EXCEPT ![p] = InsertAt(f[p], w, r)], R \ {r})
<1> DEFINE t == InsertAt(f[p], w, r)
           g == [f EXCEPT ![p] = t]
           Q == R \ {r}
<1>1. f[p] \in Seq(DOMAIN f) /\ r \in DOMAIN f
  BY ForestPlaces DEF Woods, IsListing
<1>2. Len(t) = Len(f[p]) + 1 /\ Len(f[p]) \in Nat
  BY <1>1, InsertedAt
<1>3. Forest!Place(f, R, g, Q, p, w, r)
  BY ForestNames DEF Forest!Place
<1> HIDE DEF t
<1>4. DOMAIN g = DOMAIN f /\ g[p] = t /\ t # f[p]
  BY <1>2
<1>5. r \in R \ Q
  OBVIOUS
<1> HIDE DEF g, Q
<1>6. p \in {i \in DOMAIN f \cap DOMAIN g : f[i] # g[i]}
  BY <1>4
<1>7. Kept(f, R, g, Q)
  BY <1>3, <1>5, <1>6 DEF Kept, Forest!Step
<1> QED BY <1>7 DEF g, Q, t

(* A child that is taken out is a step of the forest.                      *)
LEMMA TakeOutStep ==
    ASSUME NEW f, NEW R, Woods(f, R), NEW p \in DOMAIN f, NEW w \in DOMAIN f[p]
    PROVE  Kept(f, R, [f EXCEPT ![p] = RemoveAt(f[p], w)], R \cup {f[p][w]})
<1> DEFINE t == RemoveAt(f[p], w)
           g == [f EXCEPT ![p] = t]
           Q == R \cup {f[p][w]}
<1>1. f[p] \in Seq(DOMAIN f)
  BY DEF Woods, IsListing
<1>2. w \in 1..Len(f[p]) /\ Len(f[p]) \in Nat
  BY <1>1
<1>3. Len(t) = Len(f[p]) - 1
  BY <1>1, <1>2, RemovedAt
<1>4. Forest!TakeOut(f, R, g, Q, p, w)
  BY ForestNames DEF Forest!TakeOut
<1> HIDE DEF t
<1>5. DOMAIN g = DOMAIN f /\ g[p] = t /\ t # f[p]
  BY <1>2, <1>3
<1> HIDE DEF g, Q
<1>6. p \in {i \in DOMAIN f \cap DOMAIN g : f[i] # g[i]}
  BY <1>5
<1>7. Kept(f, R, g, Q)
  BY <1>4, <1>6 DEF Kept, Forest!Step
<1> QED BY <1>7 DEF g, Q, t

(* What is left of a forest without a child's tree has its parent.         *)
LEMMA ParentStays ==
    ASSUME NEW f, NEW R, Woods(f, R), NEW p \in DOMAIN f, NEW w \in DOMAIN f[p], NEW t
    PROVE  LET g == [Forest!Without(f, f[p][w]) EXCEPT ![p] = t]
           IN p \in DOMAIN g /\ g[p] = t
<1> DEFINE h == Forest!Without(f, f[p][w])
<1>1. p \notin Forest!Tree(f, f[p][w])
  BY WoodsDrop
<1>2. p \in DOMAIN h
  BY <1>1 DEF Forest!Without, Forest!Keep
<1> HIDE DEF h
<1>3. p \in DOMAIN [h EXCEPT ![p] = t] /\ [h EXCEPT ![p] = t][p] = t
  BY <1>2
<1> QED BY <1>3 DEF h

(* A child that is taken out and discarded is a step of the forest.        *)
LEMMA DropStep ==
    ASSUME NEW f, NEW R, Woods(f, R), NEW p \in DOMAIN f, NEW w \in DOMAIN f[p]
    PROVE  Kept(f, R, [Forest!Without(f, f[p][w]) EXCEPT ![p] = RemoveAt(f[p], w)], R)
<1> DEFINE t == RemoveAt(f[p], w)
           g == [Forest!Without(f, f[p][w]) EXCEPT ![p] = t]
<1>1. f[p] \in Seq(DOMAIN f)
  BY DEF Woods, IsListing
<1>2. w \in 1..Len(f[p]) /\ Len(f[p]) \in Nat
  BY <1>1
<1>3. Len(t) = Len(f[p]) - 1
  BY <1>1, <1>2, RemovedAt
<1>4. Forest!Drop(f, R, g, R, p, w)
  BY ForestNames DEF Forest!Drop
<1> HIDE DEF t
<1>5. p \in DOMAIN g /\ g[p] = t
  BY ParentStays
<1>8. t # f[p]
  BY <1>2, <1>3
<1> HIDE DEF g
<1>6. p \in {i \in DOMAIN f \cap DOMAIN g : f[i] # g[i]}
  BY <1>5, <1>8
<1>7. Kept(f, R, g, R)
  BY <1>4, <1>6 DEF Kept, Forest!Step
<1> QED BY <1>7 DEF g, t

(* A child that is exchanged for a loose item is a step of the forest.     *)
LEMMA ExchangeStep ==
    ASSUME NEW f, NEW R, Woods(f, R), NEW p \in DOMAIN f, NEW w \in DOMAIN f[p],
           NEW r \in R, p \notin Forest!Tree(f, r)
    PROVE  Kept(f, R, [Forest!Without(f, f[p][w]) EXCEPT ![p] = [f[p] EXCEPT ![w] = r]],
                R \ {r})
<1> DEFINE t == [f[p] EXCEPT ![w] = r]
           g == [Forest!Without(f, f[p][w]) EXCEPT ![p] = t]
           Q == R \ {r}
<1>1. f[p][w] \notin R
  BY ForestPlaces DEF Woods
<1>2. t[w] = r
  OBVIOUS
<1>3. Forest!Exchange(f, R, g, Q, p, w, r) /\ r \in R \ Q
  BY DEF Forest!Exchange
<1> HIDE DEF t
<1>4. p \in DOMAIN g /\ g[p] = t
  BY ParentStays
<1> HIDE DEF g, Q
<1>5. p \in {i \in DOMAIN f \cap DOMAIN g : f[i] # g[i]}
  BY <1>1, <1>2, <1>4
<1>6. Kept(f, R, g, Q)
  BY <1>3, <1>5 DEF Kept, Forest!Step
<1> QED BY <1>6 DEF g, Q, t

(* What is inserted past the end is appended.                              *)
LEMMA AppendedAt ==
    ASSUME NEW S, NEW s \in Seq(S), NEW e \in S, NEW w \in 1..Len(s) + 1, w = Len(s) + 1
    PROVE  InsertAt(s, w, e) = Append(s, e)
<1> DEFINE t == InsertAt(s, w, e)
<1>1. t \in Seq(S) /\ Len(t) = Len(s) + 1
  BY InsertedAt
<1>2. \A j \in 1..Len(s) + 1 : t[j] = IF j < w THEN s[j] ELSE IF j = w THEN e ELSE s[j - 1]
  BY InsertedAt, SMTT(60)
<1> HIDE DEF t
<1>3. \A j \in 1..Len(s) + 1 : t[j] = Append(s, e)[j]
  BY <1>2
<1>4. Append(s, e) \in Seq(S) /\ Len(Append(s, e)) = Len(s) + 1
  OBVIOUS
<1>5. t = Append(s, e)
  BY <1>1, <1>3, <1>4
<1> QED BY <1>5 DEF t

(* A new item that is put behind the children is a step of the forest.     *)
LEMMA PlaceNewStep ==
    ASSUME NEW f, NEW R, Woods(f, R), NEW p \in DOMAIN f, NEW a, a \notin DOMAIN f,
           NEW u, u = Both(f, Single(a))
    PROVE  Kept(f, R, [u EXCEPT ![p] = InsertAt(u[p], Len(u[p]) + 1, a)], R)
<1> DEFINE s == f[p]
           t == InsertAt(s, Len(s) + 1, a)
           g == [u EXCEPT ![p] = t]
           S == DOMAIN f \cup {a}
<1>1. s \in Seq(DOMAIN f) /\ u[p] = s
  BY DEF Woods, IsListing, Both
<1>2. s \in Seq(S) /\ a \in S /\ Len(s) \in Nat /\ Len(s) + 1 \in 1..Len(s) + 1
  BY <1>1
<1>3. t = Append(s, a)
  <2> DEFINE w == Len(s) + 1
  <2>1. w \in 1..Len(s) + 1 /\ w = Len(s) + 1 /\ t = InsertAt(s, w, a)
    BY <1>2
  <2> HIDE DEF w, s, t, S
  <2> QED BY <1>2, <2>1, AppendedAt
<1> HIDE DEF s
<1>4. t # s
  <2>1. Len(t) = Len(s) + 1
    BY <1>2, <1>3
  <2> QED BY <1>2, <2>1
<1> HIDE DEF t
<1>5. /\ DOMAIN g = DOMAIN f \cup {a} /\ g[a] = <<>> /\ g[p] = t
      /\ \A i \in DOMAIN f \ {p} : g[i] = f[i]
  BY DEF Both, Single
<1> HIDE DEF g
<1>7. Forest!PlaceNew(f, R, g, R, p, a)
  BY <1>3, <1>5 DEF Forest!PlaceNew, s
<1>8. p \in {i \in DOMAIN f \cap DOMAIN g : f[i] # g[i]} /\ a \in DOMAIN g \ DOMAIN f
  BY <1>4, <1>5 DEF s
<1>9. Kept(f, R, g, R)
  BY <1>7, <1>8 DEF Kept, Forest!Step
<1> QED BY <1>1, <1>9 DEF g, t, s

(* The tree of a new item is the item alone.                               *)
LEMMA SingleTree ==
    ASSUME NEW f, NEW R, Woods(f, R), NEW a, a \notin DOMAIN f
    PROVE  Forest!Tree(Both(f, Single(a)), a) = {a}
<1>1. Woods(Single(a), {a}) /\ DOMAIN Single(a) = {a}
  BY WoodsSingle DEF Single
<1>2. DOMAIN f \cap DOMAIN Single(a) = {}
  BY <1>1
<1>3. Forest!Tree(Both(f, Single(a)), a) = DOMAIN Single(a)
  BY <1>1, <1>2, WoodsGrow
<1> QED BY <1>1, <1>3

(* A new item that is added, or deleted again: cJSON_Add*ToObject.         *)
LEMMA AddNewSound ==
    ASSUME NEW m, NEW f, NEW R, NEW L, Sound(m, f, R, L),
           NEW p \in DOMAIN f, ~m.item[p].isReference, NEW c, Gave(m, f, R, L, c),
           NEW name \in Texts \cup Literals,
           NEW constantKey \in BOOLEAN,
           NEW added, added = AddItemToObject(c.m, p, Constant(name), c.p, constantKey)
    PROVE  /\ c.p = NULL => added = [m |-> c.m, ok |-> FALSE]
           /\ added.ok => \E g : Sound(added.m, g, R, L) /\ Kept(f, R, g, R)
           /\ ~added.ok => added.m = c.m
           /\ Sound(Delete(c.m, c.p), f, R, L)
<1>1. CASE c.p = NULL
  <2>1. added = [m |-> c.m, ok |-> FALSE]
    BY <1>1 DEF AddItemToObject
  <2>2. Delete(c.m, c.p) = c.m
    BY <1>1 DEF Delete
  <2>3. Sound(c.m, f, R, L)
    BY <1>1 DEF Gave
  <2>4. added.ok = FALSE
    BY <2>1
  <2>5. added.m = c.m
    BY <2>1
  <2> QED BY <2>1, <2>2, <2>3, <2>4, <2>5
<1>2. CASE c.p # NULL
  <2> DEFINE a == c.p
             u == Both(f, Single(a))
             n == c.m
             Q == R \cup {a}
  <2>1. /\ a \notin DOMAIN f
        /\ \A x \in DOMAIN f : c.m.item[x] = m.item[x]
        /\ Sound(c.m, u, R \cup {a}, L)
    BY <1>2 DEF Gave
  <2>2. Woods(f, R) /\ R \subseteq DOMAIN f
    BY ForestIs DEF Sound, Layout
  <2>3. (R \cup {a}) \ {a} = R
    BY <2>1, <2>2
  <2>4. Forest!Tree(u, a) = {a}
    BY <2>1, <2>2, SingleTree
  <2>5. p \in DOMAIN u /\ p \notin Forest!Tree(u, a)
    BY <2>1, <2>4 DEF Both
  <2>6. ~c.m.item[p].isReference
    BY <2>1
  <2>7. a \in Q /\ added = AddItemToObject(n, p, Constant(name), a, constantKey)
    OBVIOUS
  <2>8. Forest!Without(u, a) = f
    BY <2>1, <2>2, WithoutSingle
  <2>9. Kept(f, R, [u EXCEPT ![p] = InsertAt(u[p], Len(u[p]) + 1, a)], R)
    BY <2>1, <2>2, PlaceNewStep
  <2>16. Sound(n, u, Q, L) /\ ~n.item[p].isReference
    BY <2>1, <2>6
  <2> HIDE DEF u, a, n, Q
  <2>10. Added(n, u, Q, L, p, a, AddItemToObject(n, p, Constant(name), a, constantKey))
    BY <2>5, <2>7, <2>16, AddToObjectSound
  <2>11. ~added.ok => added.m = n
    BY <2>7, <2>10 DEF Added
  <2>12. added.ok => Sound(added.m, [u EXCEPT ![p] = InsertAt(u[p], Len(u[p]) + 1, a)],
                           Q \ {a}, L)
    BY <2>7, <2>10 DEF Added
  <2>13. Sound(Delete(c.m, a), Forest!Without(u, a), (R \cup {a}) \ {a}, L)
    BY <2>1, <2>7, DeleteSound
  <2>14. Sound(Delete(c.m, c.p), f, R, L)
    BY <2>3, <2>8, <2>13 DEF a
  <2>15. added.ok => \E g : Sound(added.m, g, R, L) /\ Kept(f, R, g, R)
    BY <2>3, <2>9, <2>12 DEF Q
  <2> QED BY <1>2, <2>11, <2>14, <2>15 DEF n
<1> QED BY <1>1, <1>2

(* A new item that is added to an array.                                   *)
LEMMA AppendNewSound ==
    ASSUME NEW m, NEW f, NEW R, NEW L, Sound(m, f, R, L),
           NEW p \in DOMAIN f, ~m.item[p].isReference, NEW c, Gave(m, f, R, L, c),
           c.p # NULL
    PROVE  \E g : Sound(AddItemToArray(c.m, p, c.p), g, R, L) /\ Kept(f, R, g, R)
<1> DEFINE a == c.p
           u == Both(f, Single(a))
<1>1. /\ a \notin DOMAIN f
      /\ \A x \in DOMAIN f : c.m.item[x] = m.item[x]
      /\ Sound(c.m, u, R \cup {a}, L)
  BY DEF Gave
<1>2. Woods(f, R) /\ R \subseteq DOMAIN f
  BY ForestIs DEF Sound, Layout
<1>3. (R \cup {a}) \ {a} = R
  BY <1>1, <1>2
<1>4. Forest!Tree(u, a) = {a}
  BY <1>1, <1>2, SingleTree
<1>5. p \in DOMAIN u /\ p \notin Forest!Tree(u, a)
  BY <1>1, <1>4 DEF Both
<1>6. ~c.m.item[p].isReference
  BY <1>1
<1>7. Kept(f, R, [u EXCEPT ![p] = InsertAt(u[p], Len(u[p]) + 1, a)], R)
  BY <1>1, <1>2, PlaceNewStep
<1>8. a \in R \cup {a}
  OBVIOUS
<1> HIDE DEF u, a
<1>9. Sound(AddItemToArray(c.m, p, a), [u EXCEPT ![p] = InsertAt(u[p], Len(u[p]) + 1, a)],
            (R \cup {a}) \ {a}, L)
  BY <1>1, <1>5, <1>6, <1>8, AddSound
<1> QED BY <1>3, <1>7, <1>9 DEF a

-----------------------------------------------------------------------------
(* The inductive invariant.                                                *)

IInv == Sound(heap, ForestOf(heap, Held), roots, lost)

(* A step leads to a sound memory, and keeps the forest.                   *)
SoundStep == \E g : /\ Sound(heap', g, roots', lost')
                    /\ Kept(ForestOf(heap, Held), roots, g, roots')

(* What a sound memory has where its forest has children and trees.        *)
LEMMA ForestFacts ==
    ASSUME NEW m, NEW f, NEW R, NEW L, Sound(m, f, R, L)
    PROVE  /\ Woods(f, R)
           /\ DOMAIN f \subseteq 1..ItemCount
           /\ R \subseteq DOMAIN f
           /\ \A a \in DOMAIN f : /\ ~m.item[a].isReference => Children(m, a) = f[a]
                                  /\ Owned(m, a) = Forest!Tree(f, a)
BY ForestIs DEF Sound, Layout

(* What the invariant says of the items that the program can reach.        *)
LEMMA Now ==
    ASSUME IInv, NEW f, f = ForestOf(heap, Held)
    PROVE  /\ Sound(heap, f, roots, lost) /\ Woods(f, roots)
           /\ DOMAIN f = Held
           /\ Held \subseteq 1..ItemCount
           /\ roots \subseteq Held
           /\ \A a \in Held : /\ ~heap.item[a].isReference => Children(heap, a) = f[a]
                              /\ Owned(heap, a) = Forest!Tree(f, a)
<1>1. Sound(heap, f, roots, lost)
  BY DEF IInv
<1>2. DOMAIN f = Held
  BY DEF ForestOf
<1>3. Woods(f, roots)
  BY <1>1, ForestFacts
<1>4. DOMAIN f \subseteq 1..ItemCount
  BY <1>1, ForestFacts
<1>5. roots \subseteq DOMAIN f
  BY <1>1, ForestFacts
<1>6. \A a \in DOMAIN f : ~heap.item[a].isReference => Children(heap, a) = f[a]
  BY <1>1, ForestFacts
<1>7. \A a \in DOMAIN f : Owned(heap, a) = Forest!Tree(f, a)
  BY <1>1, ForestFacts
<1> QED BY <1>1, <1>2, <1>3, <1>4, <1>5, <1>6, <1>7

(* The invariant holds in a state whose memory is sound: the forest of a   *)
(* sound memory is read from it.                                           *)
LEMMA Became ==
    ASSUME NEW g, Sound(heap', g, roots', lost')
    PROVE  IInv' /\ ForestOf(heap', Held') = g
<1>1. Layout(heap', g, roots', lost')
  BY DEF Sound
<1>2. DOMAIN g = LiveItems(heap') \ lost'
  BY <1>1, ForestIs
<1>3. g = ForestOf(heap', DOMAIN g)
  BY <1>1, ForestIs
<1>4. Held' = LiveItems(heap') \ lost'
  BY DEF Held, Live
<1>5. ForestOf(heap', Held') = g
  BY <1>2, <1>3, <1>4
<1> QED BY <1>5 DEF IInv

(* A call that gives an item, or NULL, which is a root then.               *)
LEMMA GivesSound ==
    ASSUME IInv, NEW c, Gave(heap, ForestOf(heap, Held), roots, lost, c), Gives(c)
    PROVE  SoundStep
<1> DEFINE f == ForestOf(heap, Held)
<1>1. heap' = c.m /\ roots' = roots \cup ({c.p} \ {NULL}) /\ lost' = lost
  BY DEF Gives
<1> HIDE DEF f
<1>2. CASE c.p = NULL
  <2>1. roots' = roots
    BY <1>1, <1>2
  <2>2. Sound(heap', f, roots', lost')
    BY <1>1, <1>2, <2>1 DEF Gave, f
  <2>3. Kept(f, roots, f, roots')
    BY <2>1 DEF Kept
  <2> QED BY <2>2, <2>3 DEF SoundStep, f
<1>3. CASE c.p # NULL
  <2> DEFINE g == Both(f, Single(c.p))
  <2>1. roots' = roots \cup {c.p}
    BY <1>1, <1>3
  <2>2. Sound(c.m, g, roots \cup {c.p}, lost) /\ Forest!Make(f, roots, g, roots \cup {c.p})
    BY <1>3 DEF Gave, f
  <2> HIDE DEF g
  <2>3. Sound(heap', g, roots', lost')
    BY <1>1, <2>1, <2>2
  <2>4. Kept(f, roots, g, roots')
    BY <2>1, <2>2, MakeStep
  <2> QED BY <2>3, <2>4 DEF SoundStep, f
<1> QED BY <1>2, <1>3

(* cJSON_CreateArray, CreateObject, ... keep the memory sound.             *)
LEMMA CreateItemMoves ==
    ASSUME IInv, NEW kind \in Kinds, CreateItem(kind)
    PROVE  SoundStep
<1> DEFINE f == ForestOf(heap, Held)
           c == Create(heap, kind)
<1>1. Sound(heap, f, roots, lost)
  BY DEF IInv
<1>2. kind \in Kinds \cup {"Invalid", "Number", "String", "Array", "Object"}
  OBVIOUS
<1>3. Gives(c)
  BY DEF CreateItem
<1> HIDE DEF f
<1>4. Gave(heap, f, roots, lost, c)
  BY <1>1, <1>2, CreateSound
<1> HIDE DEF c
<1> QED BY <1>3, <1>4, GivesSound DEF f

(* cJSON_CreateString and CreateStringReference keep it sound.             *)
LEMMA CreateTextMoves ==
    ASSUME IInv, NEW text \in Texts, CreateText(text)
    PROVE  SoundStep
<1> DEFINE f == ForestOf(heap, Held)
           c == CreateString(heap, text)
           d == CreateStringReference(heap, text)
<1>1. Sound(heap, f, roots, lost)
  BY DEF IInv
<1>2. Gives(c) \/ Gives(d)
  BY DEF CreateText
<1> HIDE DEF f
<1>3. Gave(heap, f, roots, lost, c)
  BY <1>1, CreateStringSound
<1>4. Gave(heap, f, roots, lost, d)
  BY <1>1, CreateStringReferenceSound
<1> HIDE DEF c, d
<1>5. CASE Gives(c)
  BY <1>3, <1>5, GivesSound DEF f
<1>6. CASE Gives(d)
  BY <1>4, <1>6, GivesSound DEF f
<1> QED BY <1>2, <1>5, <1>6

(* A tree that is built as NewTree says makes the forest larger.           *)
LEMMA BuildGrows ==
    ASSUME NEW m, NEW f, NEW R, NEW L, Sound(m, f, R, L),
           NEW n, NEW p, p # NULL, NewTree(m, n, p)
    PROVE  \E g : Sound(n, g, R \cup {p}, L) /\ Kept(f, R, g, R \cup {p})
<1> DEFINE u == ForestOf(n, LiveItems(n) \ LiveItems(m))
           g == Both(f, u)
<1>1. u = ForestOf(n, LiveItems(n) \ LiveItems(m))
  OBVIOUS
<1>5. Woods(u, {p})
  BY <1>1, BuildSound
<1>6. DOMAIN f \cap DOMAIN u = {}
  <2>1. Layout(m, f, R, L)
    BY DEF Sound
  <2> QED BY <2>1 DEF Layout, ForestOf
<1> HIDE DEF u
<1>2. Sound(n, Both(f, u), R \cup {p}, L)
  BY <1>1, BuildSound
<1>3. Forest!Make(f, R, Both(f, u), R \cup {p})
  <2>1. Woods(f, R)
    BY DEF Sound, Layout
  <2> QED BY <1>5, <1>6, <2>1, WoodsGrow
<1> HIDE DEF g
<1>4. Kept(f, R, g, R \cup {p})
  BY <1>3, MakeStep DEF g
<1> QED BY <1>2, <1>4 DEF g

(* A call that builds a tree as NewTree says keeps the memory sound.       *)
LEMMA BuildTreeMoves ==
    ASSUME IInv, BuildTree
    PROVE  SoundStep
<1> DEFINE f == ForestOf(heap, Held)
<1>1. Sound(heap, f, roots, lost)
  BY DEF IInv
<1>2. PICK p \in 0..ItemCount : NewTree(heap, heap', p) /\ Gives([m |-> heap', p |-> p])
  BY DEF BuildTree
<1>3. roots' = roots \cup ({p} \ {NULL}) /\ lost' = lost
  BY <1>2 DEF Gives
<1> HIDE DEF f
<1>4. CASE p = NULL
  <2>1. heap' = heap /\ roots' = roots
    BY <1>2, <1>3, <1>4 DEF NewTree
  <2>2. Sound(heap', f, roots', lost') /\ Kept(f, roots, f, roots')
    BY <1>1, <1>3, <2>1 DEF Kept
  <2> QED BY <2>2 DEF SoundStep, f
<1>5. CASE p # NULL
  <2>1. roots' = roots \cup {p}
    BY <1>3, <1>5
  <2>2. PICK g : Sound(heap', g, roots \cup {p}, lost) /\ Kept(f, roots, g, roots \cup {p})
    BY <1>1, <1>2, <1>5, BuildGrows
  <2> QED BY <1>3, <2>1, <2>2 DEF SoundStep, f
<1> QED BY <1>4, <1>5

(* cJSON_Delete of a root keeps the memory sound.                          *)
LEMMA DeleteTreeMoves ==
    ASSUME IInv, NEW r \in roots, DeleteTree(r)
    PROVE  SoundStep
<1> DEFINE f == ForestOf(heap, Held)
           g == Forest!Without(f, r)
<1>1. Sound(heap, f, roots, lost)
  BY DEF IInv
<1>2. heap' = Delete(heap, r) /\ roots' = roots \ {r} /\ lost' = lost
  BY DEF DeleteTree
<1> HIDE DEF f
<1>3. Sound(Delete(heap, r), g, roots \ {r}, lost)
  BY <1>1, DeleteSound
<1>4. Kept(f, roots, g, roots \ {r})
  BY DiscardStep
<1> HIDE DEF g
<1> QED BY <1>2, <1>3, <1>4 DEF SoundStep, f

(* p can get items.                                                        *)
Open(p) == p \in Held /\ ~heap.item[p].isReference

(* r can be added to p in the forest.                                      *)
LEMMA AddableIs ==
    ASSUME IInv, NEW p, Open(p), NEW r \in Addable(p), NEW f, f = ForestOf(heap, Held)
    PROVE  /\ Sound(heap, f, roots, lost) /\ Woods(f, roots)
           /\ p \in DOMAIN f /\ ~heap.item[p].isReference
           /\ r \in roots /\ p \notin Forest!Tree(f, r)
           /\ Children(heap, p) = f[p]
           /\ DOMAIN f[p] = 1..Len(f[p]) /\ Len(f[p]) \in Nat
<1>1. Sound(heap, f, roots, lost) /\ Woods(f, roots)
  BY Now
<1>2. p \in DOMAIN f /\ ~heap.item[p].isReference
  BY Now DEF Open
<1>3. r \in roots /\ p \notin Owned(heap, r)
  BY DEF Addable
<1>4. r \in Held
  BY <1>3, Now
<1>5. Owned(heap, r) = Forest!Tree(f, r)
  BY <1>4, Now
<1>6. Children(heap, p) = f[p] /\ DOMAIN f[p] = 1..Len(f[p]) /\ Len(f[p]) \in Nat
  BY <1>1, <1>2, ListOf DEF ListIsLinked
<1> QED BY <1>1, <1>2, <1>3, <1>5, <1>6

(* cJSON_AddItemToArray keeps the memory sound.                            *)
LEMMA AddToArrayMoves ==
    ASSUME IInv, NEW p, Open(p), NEW r \in Addable(p), AddToArray(p, r)
    PROVE  SoundStep
<1> DEFINE f == ForestOf(heap, Held)
           w == Len(f[p]) + 1
           g == [f EXCEPT ![p] = InsertAt(f[p], w, r)]
<1>1. heap' = AddItemToArray(heap, p, r) /\ roots' = roots \ {r} /\ lost' = lost
  BY DEF AddToArray
<1>2. f = ForestOf(heap, Held)
  OBVIOUS
<1> HIDE DEF f
<1>3. /\ Sound(heap, f, roots, lost) /\ Woods(f, roots)
      /\ p \in DOMAIN f /\ ~heap.item[p].isReference
      /\ r \in roots /\ p \notin Forest!Tree(f, r)
  BY <1>2, AddableIs
<1>6. w \in 1..Len(f[p]) + 1
  <2>1. Len(f[p]) \in Nat
    BY <1>2, AddableIs
  <2> QED BY <2>1
<1>7. Sound(AddItemToArray(heap, p, r), g, roots \ {r}, lost)
  BY <1>3, AddSound
<1> HIDE DEF w
<1>8. Kept(f, roots, g, roots \ {r})
  BY <1>3, <1>6, PlaceStep
<1> HIDE DEF g
<1> QED BY <1>1, <1>7, <1>8 DEF SoundStep, f

(* cJSON_InsertItemInArray keeps the memory sound.                         *)
LEMMA InsertMoves ==
    ASSUME IInv, NEW p, Open(p), NEW r \in Addable(p),
           NEW which \in 1..(Len(Children(heap, p)) + 1), InsertInArray(p, which, r)
    PROVE  SoundStep
<1> DEFINE f == ForestOf(heap, Held)
           g == [f EXCEPT ![p] = InsertAt(f[p], which, r)]
<1>1. heap' = Insert(heap, p, which, r) /\ roots' = roots \ {r} /\ lost' = lost
  BY DEF InsertInArray
<1>2. f = ForestOf(heap, Held)
  OBVIOUS
<1> HIDE DEF f
<1>3. /\ Sound(heap, f, roots, lost) /\ Woods(f, roots)
      /\ p \in DOMAIN f /\ ~heap.item[p].isReference
      /\ r \in roots /\ p \notin Forest!Tree(f, r)
  BY <1>2, AddableIs
<1>4. which \in 1..Len(f[p]) + 1
  <2>1. Children(heap, p) = f[p]
    BY <1>2, AddableIs
  <2> QED BY <2>1
<1>5. Sound(Insert(heap, p, which, r), g, roots \ {r}, lost)
  BY <1>3, <1>4, InsertSound
<1>6. Kept(f, roots, g, roots \ {r})
  BY <1>3, <1>4, PlaceStep
<1> HIDE DEF g
<1> QED BY <1>1, <1>5, <1>6 DEF SoundStep, f

(* cJSON_ReplaceItemInArray keeps the memory sound; past the end it does   *)
(* nothing.                                                                *)
LEMMA ReplaceMoves ==
    ASSUME IInv, NEW p, Open(p), NEW r \in Addable(p),
           NEW which \in 1..(Len(Children(heap, p)) + 1), ReplaceItemInArray(p, which, r)
    PROVE  SoundStep
<1> DEFINE f == ForestOf(heap, Held)
           a == GetArrayItem(heap, p, which)
<1>1. /\ heap' = Replace(heap, p, a, r) /\ lost' = lost
      /\ roots' = IF a = NULL THEN roots ELSE roots \ {r}
  BY DEF ReplaceItemInArray
<1>2. f = ForestOf(heap, Held)
  OBVIOUS
<1> HIDE DEF f
<1>3. /\ Sound(heap, f, roots, lost) /\ Woods(f, roots)
      /\ p \in DOMAIN f /\ ~heap.item[p].isReference
      /\ r \in roots /\ p \notin Forest!Tree(f, r)
  BY <1>2, AddableIs
<1>4. Children(heap, p) = f[p]
  BY <1>2, AddableIs
<1>5. a = NULL \/ (which \in DOMAIN f[p] /\ a = f[p][which])
  BY <1>4 DEF GetArrayItem, Nth
<1> HIDE DEF a
<1>6. CASE a = NULL
  <2>1. heap' = heap /\ roots' = roots
    BY <1>1, <1>6 DEF Replace
  <2>2. Sound(heap', f, roots', lost') /\ Kept(f, roots, f, roots')
    BY <1>1, <1>3, <2>1 DEF Kept
  <2> QED BY <2>2 DEF SoundStep, f
<1>7. CASE a # NULL
  <2> DEFINE g == [Forest!Without(f, f[p][which]) EXCEPT ![p] = [f[p] EXCEPT ![which] = r]]
  <2>1. which \in DOMAIN f[p] /\ a = f[p][which]
    BY <1>5, <1>7
  <2>2. Sound(Replace(heap, p, f[p][which], r), g, roots \ {r}, lost)
    BY <1>3, <2>1, ReplaceSound
  <2>3. Kept(f, roots, g, roots \ {r})
    BY <1>3, <2>1, ExchangeStep
  <2> HIDE DEF g
  <2> QED BY <1>1, <1>7, <2>1, <2>2, <2>3 DEF SoundStep, f
<1> QED BY <1>6, <1>7

(* An item that was found in p is taken out.                               *)
LEMMA DetachMoves ==
    ASSUME IInv, NEW p, Open(p), NEW a,
           a = NULL \/ \E w \in DOMAIN Children(heap, p) : a = Children(heap, p)[w],
           DetachItem(p, a)
    PROVE  SoundStep
<1> DEFINE f == ForestOf(heap, Held)
<1>1. a # NULL /\ heap' = Detach(heap, p, a) /\ roots' = roots \cup {a} /\ lost' = lost
  BY DEF DetachItem
<1>2. f = ForestOf(heap, Held)
  OBVIOUS
<1> HIDE DEF f
<1>3. Sound(heap, f, roots, lost) /\ Woods(f, roots)
  BY <1>2, Now
<1>4. p \in DOMAIN f /\ ~heap.item[p].isReference
  BY <1>2, Now DEF Open
<1>5. Children(heap, p) = f[p]
  BY <1>3, <1>4, ListOf DEF ListIsLinked
<1>6. PICK w \in DOMAIN f[p] : a = f[p][w]
  BY <1>1, <1>5
<1> DEFINE g == [f EXCEPT ![p] = RemoveAt(f[p], w)]
<1>7. Sound(Detach(heap, p, f[p][w]), g, roots \cup {f[p][w]}, lost)
  BY <1>3, <1>4, DetachSound
<1>8. Kept(f, roots, g, roots \cup {f[p][w]})
  BY <1>3, <1>4, TakeOutStep
<1> HIDE DEF g
<1> QED BY <1>1, <1>6, <1>7, <1>8 DEF SoundStep, f

(* An item that was found in p is deleted.                                 *)
LEMMA DeleteMoves ==
    ASSUME IInv, NEW p, Open(p), NEW a,
           a = NULL \/ \E w \in DOMAIN Children(heap, p) : a = Children(heap, p)[w],
           DeleteItem(p, a)
    PROVE  SoundStep
<1> DEFINE f == ForestOf(heap, Held)
<1>1. a # NULL /\ heap' = Delete(Detach(heap, p, a), a) /\ roots' = roots /\ lost' = lost
  BY DEF DeleteItem
<1>2. f = ForestOf(heap, Held)
  OBVIOUS
<1> HIDE DEF f
<1>3. Sound(heap, f, roots, lost) /\ Woods(f, roots)
  BY <1>2, Now
<1>4. p \in DOMAIN f /\ ~heap.item[p].isReference
  BY <1>2, Now DEF Open
<1>5. Children(heap, p) = f[p]
  BY <1>3, <1>4, ListOf DEF ListIsLinked
<1>6. PICK w \in DOMAIN f[p] : a = f[p][w]
  BY <1>1, <1>5
<1> DEFINE g == [Forest!Without(f, f[p][w]) EXCEPT ![p] = RemoveAt(f[p], w)]
<1>7. Sound(Delete(Detach(heap, p, f[p][w]), f[p][w]), g, roots, lost)
  BY <1>3, <1>4, DropSound
<1>8. Kept(f, roots, g, roots)
  BY <1>3, <1>4, DropStep
<1> HIDE DEF g
<1> QED BY <1>1, <1>6, <1>7, <1>8 DEF SoundStep, f

(* cJSON_AddItemToObject and its variant for constant names keep the       *)
(* memory sound.                                                           *)
LEMMA AddToObjectMoves ==
    ASSUME IInv, NEW p, Open(p), NEW r \in Addable(p), NEW name \in Texts \cup Literals,
           NEW constantKey \in BOOLEAN, AddToObject(p, name, r, constantKey)
    PROVE  SoundStep
<1> DEFINE f == ForestOf(heap, Held)
           c == AddItemToObject(heap, p, Constant(name), r, constantKey)
           w == Len(f[p]) + 1
           g == [f EXCEPT ![p] = InsertAt(f[p], w, r)]
<1>1. heap' = c.m /\ roots' = (IF c.ok THEN roots \ {r} ELSE roots) /\ lost' = lost
  BY DEF AddToObject
<1>2. f = ForestOf(heap, Held)
  OBVIOUS
<1> HIDE DEF f
<1>3. /\ Sound(heap, f, roots, lost) /\ Woods(f, roots)
      /\ p \in DOMAIN f /\ ~heap.item[p].isReference
      /\ r \in roots /\ p \notin Forest!Tree(f, r)
  BY <1>2, AddableIs
<1>4. w \in 1..Len(f[p]) + 1
  <2>1. Len(f[p]) \in Nat
    BY <1>2, AddableIs
  <2> QED BY <2>1
<1>5. Added(heap, f, roots, lost, p, r, c)
  BY <1>3, AddToObjectSound
<1> HIDE DEF c
<1>6. CASE c.ok
  <2>1. Sound(c.m, g, roots \ {r}, lost)
    BY <1>5, <1>6 DEF Added
  <2> HIDE DEF w
  <2>2. Kept(f, roots, g, roots \ {r})
    BY <1>3, <1>4, PlaceStep
  <2> HIDE DEF g
  <2> QED BY <1>1, <1>6, <2>1, <2>2 DEF SoundStep, f
<1>7. CASE ~c.ok
  <2>1. heap' = heap /\ roots' = roots
    BY <1>1, <1>5, <1>7 DEF Added
  <2>2. Sound(heap', f, roots', lost') /\ Kept(f, roots, f, roots')
    BY <1>1, <1>3, <2>1 DEF Kept
  <2> QED BY <2>2 DEF SoundStep, f
<1> QED BY <1>6, <1>7

(* cJSON_ReplaceItemInObject keeps the memory sound, whether or not it     *)
(* finds the name and has memory for it.                                   *)
LEMMA ReplaceInObjectMoves ==
    ASSUME IInv, NEW p, Open(p), NEW r \in Addable(p), NEW name \in Texts \cup Literals,
           NEW caseSensitive \in BOOLEAN, ReplaceItemInObject(p, name, r, caseSensitive)
    PROVE  SoundStep
<1> DEFINE f == ForestOf(heap, Held)
           a == GetObjectItem(heap, p, name, caseSensitive)
           n == ReplaceInObject(heap, p, Constant(name), r, caseSensitive)
<1>1. heap' = n /\ roots' = (IF a = NULL THEN roots ELSE roots \ {r}) /\ lost' = lost
  BY DEF ReplaceItemInObject
<1>2. f = ForestOf(heap, Held)
  OBVIOUS
<1> HIDE DEF f
<1>3. /\ Sound(heap, f, roots, lost) /\ Woods(f, roots)
      /\ p \in DOMAIN f /\ ~heap.item[p].isReference
      /\ r \in roots /\ p \notin Forest!Tree(f, r)
  BY <1>2, AddableIs
<1>4. Replaced(heap, f, roots, lost, p, r, a, n)
  BY <1>3, ReplaceInObjectSound
<1> HIDE DEF a, n
<1>5. CASE a = NULL
  <2>1. Sound(heap', f, roots', lost') /\ Kept(f, roots, f, roots')
    BY <1>1, <1>4, <1>5 DEF Kept, Replaced
  <2> QED BY <2>1 DEF SoundStep, f
<1>6. CASE a # NULL
  <2>1. PICK w \in DOMAIN f[p] :
           /\ a = f[p][w]
           /\ Sound(n, [Forest!Without(f, a) EXCEPT ![p] = [f[p] EXCEPT ![w] = r]],
                    roots \ {r}, lost)
    BY <1>4, <1>6 DEF Replaced
  <2> DEFINE g == [Forest!Without(f, f[p][w]) EXCEPT ![p] = [f[p] EXCEPT ![w] = r]]
  <2>2. Sound(n, g, roots \ {r}, lost)
    BY <2>1
  <2>3. Kept(f, roots, g, roots \ {r})
    BY <1>3, ExchangeStep
  <2> HIDE DEF g
  <2> QED BY <1>1, <1>6, <2>2, <2>3 DEF SoundStep, f
<1> QED BY <1>5, <1>6

(* cJSON_Add*ToObject: what could not be added is deleted again.           *)
LEMMA AddNewMoves ==
    ASSUME IInv, NEW p, Open(p), NEW name \in Texts, NEW c,
           Gave(heap, ForestOf(heap, Held), roots, lost, c),
           AddNew(p, name, c), UNCHANGED <<roots, lost>>
    PROVE  SoundStep
<1> DEFINE f == ForestOf(heap, Held)
           no == FALSE
           added == AddItemToObject(c.m, p, Constant(name), c.p, no)
<1>1. heap' = IF added.ok THEN added.m ELSE Delete(c.m, c.p)
  BY DEF AddNew
<1>2. f = ForestOf(heap, Held) /\ added = AddItemToObject(c.m, p, Constant(name), c.p, no)
  OBVIOUS
<1>3. no \in BOOLEAN
  OBVIOUS
<1> HIDE DEF f, no, added
<1>4. Sound(heap, f, roots, lost)
  BY <1>2, Now
<1>5. p \in DOMAIN f /\ ~heap.item[p].isReference
  BY <1>2, Now DEF Open
<1>6. Gave(heap, f, roots, lost, c) /\ name \in Texts \cup Literals
  BY <1>2
<1>7. added.ok => \E g : Sound(added.m, g, roots, lost) /\ Kept(f, roots, g, roots)
  BY <1>2, <1>3, <1>4, <1>5, <1>6, AddNewSound
<1>8. Sound(Delete(c.m, c.p), f, roots, lost)
  BY <1>2, <1>3, <1>4, <1>5, <1>6, AddNewSound
<1>9. Kept(f, roots, f, roots)
  BY DEF Kept
<1>10. \E g : Sound(heap', g, roots, lost) /\ Kept(f, roots, g, roots)
  <2>1. CASE added.ok
    BY <1>1, <1>7, <2>1
  <2>2. CASE ~added.ok
    BY <1>1, <1>8, <1>9, <2>2
  <2> QED BY <2>1, <2>2
<1> QED BY <1>10 DEF SoundStep, f

(* cJSON_AddNullToObject, AddObjectToObject, ... keep the memory sound.    *)
LEMMA AddKindMoves ==
    ASSUME IInv, NEW p, Open(p), NEW name \in Texts, NEW kind \in Kinds,
           AddKindToObject(p, name, kind)
    PROVE  SoundStep
<1> DEFINE f == ForestOf(heap, Held)
           c == Create(heap, kind)
<1>1. Sound(heap, f, roots, lost)
  BY DEF IInv
<1>2. AddNew(p, name, c) /\ UNCHANGED <<roots, lost>>
  BY DEF AddKindToObject
<1>3. kind \in Kinds \cup {"Invalid", "Number", "String", "Array", "Object"}
  OBVIOUS
<1> HIDE DEF f
<1>4. Gave(heap, f, roots, lost, c)
  BY <1>1, <1>3, CreateSound
<1> HIDE DEF c
<1> QED BY <1>2, <1>4, AddNewMoves DEF f

(* cJSON_AddStringToObject keeps the memory sound.                         *)
LEMMA AddStringMoves ==
    ASSUME IInv, NEW p, Open(p), NEW name \in Texts, NEW text \in Texts,
           AddStringToObject(p, name, text)
    PROVE  SoundStep
<1> DEFINE f == ForestOf(heap, Held)
           c == CreateString(heap, text)
<1>1. Sound(heap, f, roots, lost)
  BY DEF IInv
<1>2. AddNew(p, name, c) /\ UNCHANGED <<roots, lost>>
  BY DEF AddStringToObject
<1> HIDE DEF f
<1>4. Gave(heap, f, roots, lost, c)
  BY <1>1, CreateStringSound
<1> HIDE DEF c
<1> QED BY <1>2, <1>4, AddNewMoves DEF f

(* cJSON_AddItemReferenceToArray keeps the memory sound.                   *)
LEMMA AddReferenceToArrayMoves ==
    ASSUME IInv, NEW p, Open(p), NEW a \in Held, AddReferenceToArray(p, a)
    PROVE  SoundStep
<1> DEFINE f == ForestOf(heap, Held)
           c == CreateReference(heap, a)
<1>1. heap' = (IF c.p = NULL THEN heap ELSE AddItemToArray(c.m, p, c.p))
      /\ roots' = roots /\ lost' = lost
  BY DEF AddReferenceToArray
<1>2. f = ForestOf(heap, Held)
  OBVIOUS
<1> HIDE DEF f
<1>3. Sound(heap, f, roots, lost)
  BY <1>2, Now
<1>4. p \in DOMAIN f /\ ~heap.item[p].isReference /\ a \in DOMAIN f
  BY <1>2, Now DEF Open
<1>5. Gave(heap, f, roots, lost, c)
  BY <1>3, <1>4, CreateReferenceSound
<1> HIDE DEF c
<1>6. Kept(f, roots, f, roots)
  BY DEF Kept
<1>7. \E g : Sound(heap', g, roots, lost) /\ Kept(f, roots, g, roots)
  <2>1. CASE c.p = NULL
    BY <1>1, <1>3, <1>6, <2>1
  <2>2. CASE c.p # NULL
    <3>1. \E g : Sound(AddItemToArray(c.m, p, c.p), g, roots, lost) /\ Kept(f, roots, g, roots)
      BY <1>3, <1>4, <1>5, <2>2, AppendNewSound
    <3> QED BY <1>1, <2>2, <3>1
  <2> QED BY <2>1, <2>2
<1> QED BY <1>1, <1>7 DEF SoundStep, f

(* cJSON_AddItemReferenceToObject keeps the memory sound: a reference that *)
(* could not be named is lost, and nothing else is.                        *)
LEMMA AddReferenceToObjectMoves ==
    ASSUME IInv, NEW p, Open(p), NEW name \in Texts, NEW a \in Held,
           AddReferenceToObject(p, name, a)
    PROVE  SoundStep
<1> DEFINE f == ForestOf(heap, Held)
           c == CreateReference(heap, a)
           no == FALSE
           added == AddItemToObject(c.m, p, Constant(name), c.p, no)
<1>1. /\ heap' = added.m /\ roots' = roots
      /\ lost' = lost \cup (IF added.ok THEN {} ELSE {c.p} \ {NULL})
  BY DEF AddReferenceToObject
<1>2. f = ForestOf(heap, Held) /\ added = AddItemToObject(c.m, p, Constant(name), c.p, no)
  OBVIOUS
<1>3. no \in BOOLEAN
  OBVIOUS
<1> HIDE DEF f, no, added
<1>4. Sound(heap, f, roots, lost)
  BY <1>2, Now
<1>5. p \in DOMAIN f /\ ~heap.item[p].isReference /\ a \in DOMAIN f
  BY <1>2, Now DEF Open
<1>6. Gave(heap, f, roots, lost, c)
  BY <1>4, <1>5, CreateReferenceSound
<1>7. c.p # NULL => Sound(c.m, f, roots, lost \cup {c.p})
  BY <1>4, <1>5, CreateReferenceSound
<1>8. c.p = NULL => c.m = heap
  BY <1>4, <1>5, CreateReferenceSound
<1> HIDE DEF c
<1>9. name \in Texts \cup Literals
  OBVIOUS
<1>10. added.ok => \E g : Sound(added.m, g, roots, lost) /\ Kept(f, roots, g, roots)
  BY <1>2, <1>3, <1>4, <1>5, <1>6, <1>9, AddNewSound
<1>11. ~added.ok => added.m = c.m
  BY <1>2, <1>3, <1>4, <1>5, <1>6, <1>9, AddNewSound
<1>12. Kept(f, roots, f, roots)
  BY DEF Kept
<1>13. \E g : Sound(heap', g, roots, lost') /\ Kept(f, roots, g, roots)
  <2>1. CASE added.ok
    <3>1. lost' = lost
      BY <1>1, <2>1
    <3> QED BY <1>1, <1>10, <2>1, <3>1
  <2>2. CASE ~added.ok /\ c.p = NULL
    <3>1. lost' = lost /\ heap' = heap
      BY <1>1, <1>8, <1>11, <2>2
    <3> QED BY <1>4, <1>12, <3>1
  <2>3. CASE ~added.ok /\ c.p # NULL
    <3>1. lost' = lost \cup {c.p} /\ heap' = c.m
      BY <1>1, <1>11, <2>3
    <3> QED BY <1>7, <1>12, <2>3, <3>1
  <2> QED BY <2>1, <2>2, <2>3
<1> QED BY <1>1, <1>13 DEF SoundStep, f

(* The empty memory is sound, and its forest is empty.                     *)
LEMMA InitIsSound ==
    ASSUME Init
    PROVE  IInv /\ Forest!ForestInit
<1> DEFINE f == ForestOf(heap, Held)
<1>1. /\ roots = {} /\ lost = {}
      /\ heap = [item |-> [a \in 1..ItemCount |-> Unused],
                 str |-> [s \in 1..StringCount |-> FALSE], bad |-> FALSE]
  BY DEF Init, EmptyMemory
<1>2. heap \in Memory /\ ~heap.bad
  BY <1>1, BlankIs DEF Memory
<1>3. LiveItems(heap) = {} /\ Blocks(heap) = {}
  BY <1>1, BlankIs DEF LiveItems, Blocks
<1>4. Held = {}
  BY <1>3 DEF Held, Live
<1>5. DOMAIN f = {}
  BY <1>4 DEF ForestOf
<1>6. f \in [{} -> Seq({})]
  BY <1>4 DEF ForestOf
<1>7. Forest!ForestInit
  <2>1. f = [i \in {} |-> <<>>[i]]
    BY <1>4 DEF ForestOf
  <2> HIDE DEF f
  <2>2. Forest!Keep(<<>>, {}) = [i \in {} |-> <<>>[i]]
    BY DEF Forest!Keep
  <2> QED BY <1>1, <2>1, <2>2 DEF Forest!ForestInit, f
<1> HIDE DEF f
<1>8. Woods(f, roots)
  <2>1. IsFiniteSet({})
    BY FS_EmptySet
  <2>2. IsListing(f)
    BY <1>5, <1>6, <2>1 DEF IsListing
  <2>3. Forest!IsForest(f, roots)
    BY <1>1, <1>5, <1>6 DEF Forest!IsForest
  <2> QED BY <2>2, <2>3 DEF Woods
<1>9. Layout(heap, f, roots, lost)
  BY <1>1, <1>2, <1>3, <1>5, <1>8 DEF Layout, LinkedAs
<1>10. Strings(heap, DOMAIN f)
  BY <1>3, <1>5 DEF Strings, OwnedOnce, OwnedBlocks, Slots
<1> QED BY <1>2, <1>7, <1>9, <1>10 DEF IInv, Sound, f

(* Every call keeps the memory sound.                                      *)
LEMMA NextMoves ==
    ASSUME IInv, ItemsNext
    PROVE  SoundStep
<1>1. ASSUME NEW type, NEW p \in Containers(type)
      PROVE  Open(p)
  BY DEF Containers, Open
<1>2. ASSUME NEW p, NEW a \in Referable(p)
      PROVE  a \in Held
  BY DEF Referable
<1>3. CASE \E kind \in Kinds : CreateItem(kind)
  BY <1>3, CreateItemMoves
<1>4. CASE \E text \in Texts : CreateText(text)
  BY <1>4, CreateTextMoves
<1>5. CASE BuildTree
  BY <1>5, BuildTreeMoves
<1>6. CASE OnArrays
  <2>1. PICK p \in Containers("Array") :
           \/ \E r \in Addable(p) :
                 \/ AddToArray(p, r)
                 \/ \E which \in 1..(Len(Children(heap, p)) + 1) :
                       InsertInArray(p, which, r) \/ ReplaceItemInArray(p, which, r)
           \/ \E a \in Referable(p) : AddReferenceToArray(p, a)
           \/ \E which \in DOMAIN Children(heap, p) :
                 LET a == GetArrayItem(heap, p, which)
                 IN DetachItem(p, a) \/ DeleteItem(p, a)
    BY <1>6 DEF OnArrays
  <2>2. Open(p)
    BY <1>1
  <2>3. ASSUME NEW r \in Addable(p), AddToArray(p, r)
        PROVE  SoundStep
    BY <2>2, <2>3, AddToArrayMoves
  <2>4. ASSUME NEW r \in Addable(p), NEW which \in 1..(Len(Children(heap, p)) + 1),
               InsertInArray(p, which, r) \/ ReplaceItemInArray(p, which, r)
        PROVE  SoundStep
    BY <2>2, <2>4, InsertMoves, ReplaceMoves
  <2>5. ASSUME NEW a \in Referable(p), AddReferenceToArray(p, a)
        PROVE  SoundStep
    BY <1>2, <2>2, <2>5, AddReferenceToArrayMoves
  <2>6. ASSUME NEW which \in DOMAIN Children(heap, p), NEW a,
               a = GetArrayItem(heap, p, which), DetachItem(p, a) \/ DeleteItem(p, a)
        PROVE  SoundStep
    <3>1. a = Children(heap, p)[which]
      BY <2>6 DEF GetArrayItem, Nth
    <3>2. \E w \in DOMAIN Children(heap, p) : a = Children(heap, p)[w]
      BY <3>1
    <3> QED BY <2>2, <2>6, <3>2, DetachMoves, DeleteMoves
  <2> QED BY <2>1, <2>3, <2>4, <2>5, <2>6
<1>7. CASE OnObjects
  <2>1. PICK p \in Containers("Object") :
           \/ \E r \in Addable(p) :
                 \/ \E name \in Texts : AddToObject(p, name, r, FALSE)
                 \/ \E name \in Literals : AddToObject(p, name, r, TRUE)
                 \/ \E name \in Texts \cup Literals, caseSensitive \in SearchModes(p) :
                       ReplaceItemInObject(p, name, r, caseSensitive)
           \/ \E name \in Texts, kind \in Kinds : AddKindToObject(p, name, kind)
           \/ \E name, text \in Texts : AddStringToObject(p, name, text)
           \/ \E name \in Texts, a \in Referable(p) : AddReferenceToObject(p, name, a)
           \/ \E a \in Named(p) : DetachItem(p, a) \/ DeleteItem(p, a)
    BY <1>7 DEF OnObjects
  <2>2. Open(p)
    BY <1>1
  <2>4. ASSUME NEW r \in Addable(p), NEW name \in Texts \cup Literals,
               NEW b \in BOOLEAN, AddToObject(p, name, r, b)
        PROVE  SoundStep
    BY <2>2, <2>4, AddToObjectMoves
  <2>5. ASSUME NEW r \in Addable(p), NEW name \in Texts \cup Literals,
               NEW caseSensitive \in SearchModes(p),
               ReplaceItemInObject(p, name, r, caseSensitive)
        PROVE  SoundStep
    <3>1. caseSensitive \in BOOLEAN
      BY DEF SearchModes
    <3> QED BY <2>2, <2>5, <3>1, ReplaceInObjectMoves
  <2>6. ASSUME NEW name \in Texts, NEW kind \in Kinds, AddKindToObject(p, name, kind)
        PROVE  SoundStep
    BY <2>2, <2>6, AddKindMoves
  <2>7. ASSUME NEW name \in Texts, NEW text \in Texts, AddStringToObject(p, name, text)
        PROVE  SoundStep
    BY <2>2, <2>7, AddStringMoves
  <2>8. ASSUME NEW name \in Texts, NEW a \in Referable(p), AddReferenceToObject(p, name, a)
        PROVE  SoundStep
    BY <1>2, <2>2, <2>8, AddReferenceToObjectMoves
  <2>9. ASSUME NEW name, NEW caseSensitive, NEW a,
               a = GetObjectItem(heap, p, name, caseSensitive),
               DetachItem(p, a) \/ DeleteItem(p, a)
        PROVE  SoundStep
    <3> DEFINE f == ForestOf(heap, Held)
    <3>1. f = ForestOf(heap, Held)
      OBVIOUS
    <3> HIDE DEF f
    <3>2. Sound(heap, f, roots, lost)
      BY <3>1, Now
    <3>3. p \in DOMAIN f /\ ~heap.item[p].isReference
      BY <2>2, <3>1, Now DEF Open
    <3>4. Children(heap, p) = f[p]
      BY <3>2, <3>3, ListOf DEF ListIsLinked
    <3>5. a = NULL \/ \E w \in DOMAIN Children(heap, p) : a = Children(heap, p)[w]
      BY <2>9, <3>2, <3>3, <3>4, GetObjectItemIs
    <3> QED BY <2>2, <2>9, <3>5, DetachMoves, DeleteMoves
  <2>10. CASE \E r \in Addable(p) :
                \/ \E name \in Texts : AddToObject(p, name, r, FALSE)
                \/ \E name \in Literals : AddToObject(p, name, r, TRUE)
                \/ \E name \in Texts \cup Literals, caseSensitive \in SearchModes(p) :
                      ReplaceItemInObject(p, name, r, caseSensitive)
    <3>1. PICK r \in Addable(p) :
                \/ \E name \in Texts : AddToObject(p, name, r, FALSE)
                \/ \E name \in Literals : AddToObject(p, name, r, TRUE)
                \/ \E name \in Texts \cup Literals, caseSensitive \in SearchModes(p) :
                      ReplaceItemInObject(p, name, r, caseSensitive)
      BY <2>10
    <3>2. CASE \E name \in Texts : AddToObject(p, name, r, FALSE)
      <4>1. PICK name \in Texts : AddToObject(p, name, r, FALSE)
        BY <3>2
      <4> QED BY <2>4, <4>1
    <3>3. CASE \E name \in Literals : AddToObject(p, name, r, TRUE)
      <4>1. PICK name \in Literals : AddToObject(p, name, r, TRUE)
        BY <3>3
      <4> QED BY <2>4, <4>1
    <3>4. CASE \E name \in Texts \cup Literals, caseSensitive \in SearchModes(p) :
                  ReplaceItemInObject(p, name, r, caseSensitive)
      BY <2>5, <3>4
    <3> QED BY <3>1, <3>2, <3>3, <3>4
  <2>11. CASE \E a \in Named(p) : DetachItem(p, a) \/ DeleteItem(p, a)
    BY <2>9, <2>11 DEF Named
  <2>12. CASE \E name \in Texts, kind \in Kinds : AddKindToObject(p, name, kind)
    BY <2>6, <2>12
  <2>13. CASE \E name, text \in Texts : AddStringToObject(p, name, text)
    BY <2>7, <2>13
  <2>14. CASE \E name \in Texts, a \in Referable(p) : AddReferenceToObject(p, name, a)
    BY <2>8, <2>14
  <2> QED BY <2>1, <2>10, <2>11, <2>12, <2>13, <2>14
<1>8. CASE \E r \in roots : DeleteTree(r)
  BY <1>8, DeleteTreeMoves
<1> QED BY <1>3, <1>4, <1>5, <1>6, <1>7, <1>8 DEF ItemsNext, OnTrees

-----------------------------------------------------------------------------
(* The forest's steps, each of which is one of a sound memory.             *)
ForestStep ==
    LET f == ForestOf(heap, Held)
        g == ForestOf(heap', Held')
    IN \/ f = g /\ roots = roots'
       \/ Forest!Step(f, roots, g, roots')

(* Every step keeps the invariant and is a step of the forest.             *)
LEMMA StepIsSound ==
    ASSUME IInv, [ItemsNext]_vars
    PROVE  IInv' /\ [ForestStep]_vars
<1>1. CASE ItemsNext
  <2>1. PICK g : /\ Sound(heap', g, roots', lost')
                 /\ Kept(ForestOf(heap, Held), roots, g, roots')
    BY <1>1, NextMoves DEF SoundStep
  <2>2. IInv' /\ ForestOf(heap', Held') = g
    BY <2>1, Became
  <2>3. ForestStep
    BY <2>1, <2>2 DEF ForestStep, Kept
  <2> QED BY <2>2, <2>3
<1>2. CASE UNCHANGED vars
  <2>1. heap' = heap /\ roots' = roots /\ lost' = lost
    BY <1>2 DEF vars
  <2>2. Held' = Held
    BY <2>1 DEF Held, Live
  <2>3. IInv'
    BY <2>1, <2>2 DEF IInv
  <2> QED BY <1>2, <2>3
<1> QED BY <1>1, <1>2

(* At all times the memory is a forest whose links, loose items, lost      *)
(* items and strings are as Sound says, for any number of items and        *)
(* strings and wherever malloc fails.                                      *)
THEOREM HeapIsSound == ItemsSpec => []IInv
<1>1. Init => IInv
  BY InitIsSound
<1>2. IInv /\ [ItemsNext]_vars => IInv'
  BY StepIsSound
<1> QED BY <1>1, <1>2, PTL DEF ItemsSpec

(* No item function of cJSON.c reads or frees an item or a string that was *)
(* freed, and no call leads to a value outside of its type.                *)
THEOREM ItemsAreSafe == ItemsSpec => []MemoryIsSafe
<1>1. IInv => MemoryIsSafe
  <2> SUFFICES ASSUME IInv PROVE MemoryIsSafe
    OBVIOUS
  <2> DEFINE f == ForestOf(heap, Held)
  <2>1. f = ForestOf(heap, Held)
    OBVIOUS
  <2> HIDE DEF f
  <2>2. Sound(heap, f, roots, lost) /\ roots \subseteq Held
    BY <2>1, Now
  <2>3. heap \in Memory /\ LiveItems(heap) = DOMAIN f \cup lost /\ ~heap.bad
    BY <2>2 DEF Sound, Layout
  <2> QED BY <2>2, <2>3 DEF MemoryIsSafe, TypeOK, Held, Live
<1> QED BY <1>1, HeapIsSound, PTL

(* The trees of the program are disjoint, and every list is linked back as *)
(* it is linked forward (lines 1816, 2071, 2141, 2170, 2550).              *)
THEOREM ListsStayLinked == ItemsSpec => []ListsAreLinked
<1>1. IInv => ListsAreLinked
  <2> SUFFICES ASSUME IInv PROVE ListsAreLinked
    OBVIOUS
  <2> DEFINE f == ForestOf(heap, Held)
  <2>1. f = ForestOf(heap, Held)
    OBVIOUS
  <2> HIDE DEF f
  <2>2. Sound(heap, f, roots, lost) /\ Woods(f, roots) /\ DOMAIN f = Held /\ roots \subseteq Held
    BY <2>1, Now
  <2>3. \A a \in Held : Owned(heap, a) = Forest!Tree(f, a)
    BY <2>1, Now
  <2>4. \A r, s \in roots : r # s => Owned(heap, r) \cap Owned(heap, s) = {}
    <3> SUFFICES ASSUME NEW r \in roots, NEW s \in roots, r # s
                 PROVE  Owned(heap, r) \cap Owned(heap, s) = {}
      OBVIOUS
    <3>1. Forest!Tree(f, r) \cap Forest!Tree(f, s) = {}
      BY <2>2, TreesApart DEF Woods
    <3> QED BY <2>2, <2>3, <3>1
  <2>5. \A r \in roots : heap.item[r].prev = NULL /\ heap.item[r].next = NULL
    BY <2>2 DEF Sound, Layout, LinkedAs
  <2>6. ASSUME NEW a \in Held, ~heap.item[a].isReference,
               NEW items, items = Children(heap, a), NEW i \in DOMAIN items
        PROVE  heap.item[items[i]].prev = IF i = 1 THEN NULL ELSE items[i - 1]
    <3>1. /\ items = f[a] /\ DOMAIN items = 1..Len(items) /\ Len(items) \in Nat
          /\ heap.item[items[i]].prev = Nth(items, i - 1)
      <4>1. items = f[a] /\ DOMAIN f[a] = 1..Len(f[a]) /\ Len(f[a]) \in Nat
        BY <2>2, <2>6, ListOf DEF ListIsLinked
      <4>2. \A j \in 1..Len(f[a]) : heap.item[f[a][j]].prev = Nth(f[a], j - 1)
        BY <2>2, <2>6, ListOf DEF ListIsLinked
      <4> QED BY <2>6, <4>1, <4>2
    <3>2. CASE i = 1
      BY <3>1, <3>2 DEF Nth
    <3>3. CASE i # 1
      <4>1. i - 1 \in DOMAIN items
        BY <3>1, <3>3
      <4> QED BY <3>1, <3>3, <4>1 DEF Nth
    <3> QED BY <3>2, <3>3
  <2> QED BY <2>4, <2>5, <2>6 DEF ListsAreLinked
<1> QED BY <1>1, HeapIsSound, PTL

(* All memory in use belongs to a tree of the program, except for the      *)
(* references that AddItemReferenceToObject loses: deleting the trees      *)
(* gives back all the rest, also after calls that failed half-way.         *)
THEOREM NoItemLeaks == ItemsSpec => []NothingElseLeaks
<1>1. IInv => NothingElseLeaks
  <2> SUFFICES ASSUME IInv PROVE NothingElseLeaks
    OBVIOUS
  <2> DEFINE f == ForestOf(heap, Held)
  <2>1. f = ForestOf(heap, Held)
    OBVIOUS
  <2> HIDE DEF f
  <2>2. Sound(heap, f, roots, lost) /\ Woods(f, roots) /\ DOMAIN f = Held /\ roots \subseteq Held
    BY <2>1, Now
  <2>3. \A a \in Held : Owned(heap, a) = Forest!Tree(f, a)
    BY <2>1, Now
  <2>4. Held = UNION {Forest!Tree(f, r) : r \in roots}
    BY <2>2 DEF Woods, Forest!IsForest
  <2>5. {Owned(heap, r) : r \in roots} = {Forest!Tree(f, r) : r \in roots}
    BY <2>2, <2>3
  <2>6. Blocks(heap) = OwnedBlocks(heap, Held)
    BY <2>2 DEF Sound, Strings
  <2> QED BY <2>4, <2>5, <2>6 DEF NothingElseLeaks
<1> QED BY <1>1, HeapIsSound, PTL

(* Each call places, takes out, exchanges or deletes exactly the item it   *)
(* is asked to, at its place, and keeps the order of all others.           *)
THEOREM ItemsKeepForest == ItemsSpec => ForestKept
<1>1. Init => Forest!ForestInit
  BY InitIsSound
<1>2. IInv /\ [ItemsNext]_vars => [ForestStep]_vars
  BY StepIsSound
<1>3. ItemsSpec => Forest!ForestInit /\ [][ForestStep]_vars
  BY <1>1, <1>2, HeapIsSound, PTL DEF ItemsSpec
<1> QED BY <1>3 DEF ForestKept, ForestStep

(* The items implement the forest of JsonForest.                           *)
THEOREM ItemsImplementForest == ItemsSpec => Forest!ForestSpec
<1>1. Init => Forest!ForestInit
  BY InitIsSound
<1>2. IInv /\ [ItemsNext]_vars
        => [Forest!Step(ForestOf(heap, Held), roots, ForestOf(heap, Held)', roots')]_(Forest!forest)
  <2> SUFFICES ASSUME IInv, [ItemsNext]_vars
               PROVE  \/ Forest!Step(ForestOf(heap, Held), roots, ForestOf(heap, Held)', roots')
                      \/ UNCHANGED Forest!forest
    OBVIOUS
  <2>1. [ForestStep]_vars
    BY StepIsSound
  <2>2. CASE UNCHANGED vars
    BY <2>2 DEF vars, Forest!forest, Held, Live
  <2>3. CASE ForestStep
    BY <2>3 DEF ForestStep, Forest!forest
  <2> QED BY <2>1, <2>2, <2>3
<1> QED BY <1>1, <1>2, HeapIsSound, PTL DEF ItemsSpec, Forest!ForestSpec

-----------------------------------------------------------------------------
(* The printer.                                                            *)

Excused == job.call = "Buffered" /\ job.size = 0 /\ ~job.realloc

Owner == job.call # "Preallocated"

(* While a piece is asked for or written, the offset is inside the buffer, *)
(* unless that has no byte at all, which only a caller's size of 0 makes;   *)
(* a piece that is written has its room and one byte more. There is one    *)
(* block as long as there is a buffer that is not the caller's.            *)
PrintInv ==
    /\ bad \in BOOLEAN
    /\ bad => Excused
    /\ at \in {"idle", "ensure", "write", "failed", "done"}
    /\ k \in Nat \ {0}
    /\ at # "idle" => job \in Jobs
    /\ at = "idle" => blocks = 0 /\ ~bad /\ k = 1 /\ buf = NULL_Buffer
    /\ at \in {"ensure", "write"} =>
          /\ buf.null = FALSE
          /\ buf.length \in 0..IntMax
          /\ buf.offset \in Nat
          /\ IF buf.length = 0 THEN /\ buf.offset = 0
                                    /\ job.size = 0
                                    /\ job.call # "Print"
                               ELSE buf.offset < buf.length
    /\ at = "write" => /\ k <= Len(Pieces[job.document])
                       /\ piece.need + buf.offset + 1 <= buf.length
    /\ at \in {"ensure", "write", "failed"} =>
          blocks = IF ~buf.null /\ Owner THEN 1 ELSE 0
    /\ at = "done" =>
          blocks = IF result = "text" /\ Owner THEN 1 ELSE 0

(* size_t holds every sum that ensure() makes.                             *)
LEMMA NoWrap == ASSUME NEW x \in Nat, x < SizeMod PROVE x % SizeMod = x
  BY SizesAssumption, SMT

LEMMA JobTypes ==
    ASSUME NEW j \in Jobs
    PROVE  /\ j.call \in {"Print", "Buffered", "Preallocated"}
           /\ j.size \in 0..IntMax
           /\ j.realloc \in BOOLEAN
           /\ j.document \in DOMAIN Pieces
  BY JobsAssumption

LEMMA PieceTypes ==
    ASSUME NEW d \in DOMAIN Pieces, NEW i \in Nat \ {0}, i <= Len(Pieces[d])
    PROVE  /\ Pieces[d][i] \in Piece
           /\ WellFormed(Pieces[d][i])
<1>1. Pieces[d] \in Seq(Piece) /\ \A n \in DOMAIN Pieces[d] : WellFormed(Pieces[d][n])
  BY PiecesAssumption
<1>2. i \in DOMAIN Pieces[d]
  BY <1>1
<1> QED
  BY <1>1, <1>2

(* What a piece writes, and where it moves the offset, is within its need. *)
LEMMA PieceIsBounded ==
    ASSUME NEW p \in Piece, WellFormed(p)
    PROVE  /\ p.need \in Nat
           /\ Bytes(p) \in Nat
           /\ Bytes(p) <= p.need
           /\ Len(p.text) \in Nat
           /\ p.adds \in Nat
           /\ p.adds <= p.need
           /\ p.update => p.nul /\ Len(p.text) < p.need
<1>1. Len(p.text) \in Nat /\ p.need \in Nat /\ p.adds \in Nat
  BY DEF Piece
<1>2. CASE p.nul
  <2>1. Bytes(p) = Len(p.text) + 1
    BY <1>2 DEF Bytes
  <2> QED
    BY <1>1, <2>1 DEF WellFormed
<1>3. CASE ~p.nul
  <2>1. Bytes(p) = Len(p.text) + 0
    BY <1>3 DEF Bytes
  <2> QED
    BY <1>1, <1>3, <2>1 DEF WellFormed
<1> QED
  BY <1>2, <1>3

LEMMA InitImpliesInv == ASSUME PrintInit PROVE PrintInv
<1>1. at = "idle" /\ k = 1 /\ blocks = 0 /\ buf = NULL_Buffer
  BY DEF PrintInit
<1>2. bad \in BOOLEAN /\ ~bad
  BY DEF PrintInit
<1> QED
  BY <1>1, <1>2 DEF PrintInv

(* In ensure() the piece is known, and the sum is what it should be.       *)
LEMMA Asked ==
    ASSUME PrintInv, Ensuring, Valid
    PROVE  /\ piece.need \in 0..IntMax
           /\ Needed = piece.need + buf.offset + 1
<1>1. job \in Jobs /\ k \in Nat \ {0} /\ k <= Len(Pieces[job.document])
  BY DEF PrintInv, Ensuring
<1>2. piece.need \in Nat
  BY <1>1, JobTypes, PieceTypes, PieceIsBounded DEF piece
<1>3. piece.need <= IntMax
  BY DEF Valid
<1>4. /\ buf.length \in 0..IntMax /\ buf.offset \in Nat
      /\ buf.offset = 0 \/ buf.offset < buf.length
  BY DEF PrintInv, Ensuring
<1>5. piece.need + buf.offset + 1 \in Nat /\ piece.need + buf.offset + 1 < SizeMod
  BY <1>2, <1>3, <1>4, SizesAssumption
<1> QED
  BY <1>2, <1>3, <1>5, NoWrap, SizesAssumption DEF Needed

LEMMA BeginPreserves ==
    ASSUME PrintInv, NEW j \in Jobs, BeginPrint(j)
    PROVE  PrintInv'
<1>1. j.call \in {"Print", "Buffered", "Preallocated"} /\ j.size \in 0..IntMax
  BY JobTypes
<1>2. job' = j /\ k' = 1
  BY DEF BeginPrint, PrintInv
<1>3. bad' \in BOOLEAN /\ ~bad'
  BY DEF BeginPrint, PrintInv
<1>4. CASE at' = "ensure"
  <2>1. /\ buf' = NewBuffer(IF j.call = "Print" THEN DefaultSize ELSE j.size)
        /\ blocks' = IF j.call = "Preallocated" THEN 0 ELSE 1
    BY <1>4 DEF BeginPrint, Goto
  <2>2. /\ buf'.null = FALSE /\ buf'.offset = 0
        /\ buf'.length = IF j.call = "Print" THEN DefaultSize ELSE j.size
    BY <2>1 DEF NewBuffer
  <2> QED
    BY <1>1, <1>2, <1>3, <1>4, <2>1, <2>2, SizesAssumption DEF PrintInv, Owner
<1>5. CASE at' = "failed"
  <2>1. buf'.null = TRUE /\ blocks' = 0
    BY <1>5 DEF BeginPrint, Goto, PrintInv, NULL_Buffer
  <2> QED
    BY <1>1, <1>2, <1>3, <1>5, <2>1 DEF PrintInv, Owner
<1> QED
  BY <1>4, <1>5 DEF BeginPrint, Goto

LEMMA EnsurePreserves ==
    ASSUME PrintInv, EnsureFits \/ EnsureRefuses \/ EnsureGrows \/ EnsureFails
    PROVE  PrintInv'
<1>1. CASE EnsureFits
  <2>1. piece.need + buf.offset + 1 <= buf.length /\ k <= Len(Pieces[job.document])
    BY <1>1, Asked DEF EnsureFits, Fits, Ensuring
  <2> QED
    BY <1>1, <2>1 DEF EnsureFits, Ensuring, Goto, PrintInv, Owner, Excused, piece
<1>2. CASE EnsureRefuses
  BY <1>2 DEF EnsureRefuses, Ensuring, Goto, PrintInv, Owner, Excused
<1>3. CASE EnsureGrows
  <2>1. /\ Ensuring /\ Valid /\ job.call # "Preallocated"
        /\ at' = "write" /\ UNCHANGED <<job, k, blocks>>
    BY <1>3 DEF EnsureGrows, MayGrow, Goto
  <2>2. /\ job \in Jobs /\ buf.null = FALSE
        /\ buf.length \in 0..IntMax /\ buf.offset \in Nat
        /\ IF buf.length = 0 THEN buf.offset = 0 /\ job.size = 0 /\ job.call # "Print"
                             ELSE buf.offset < buf.length
    BY <2>1 DEF PrintInv, Ensuring
  <2>3. piece.need \in 0..IntMax /\ Needed = piece.need + buf.offset + 1
    BY <2>1, Asked
  <2>4. NewSize \in 0..IntMax /\ Needed <= NewSize
    BY <1>3, <2>2, <2>3, SizesAssumption DEF EnsureGrows, MayGrow, NewSize
  <2>5. buf'.null = FALSE /\ buf'.length = NewSize /\ buf'.offset = buf.offset
    BY <1>3, <2>2 DEF EnsureGrows
  <2>6. buf'.length # 0 /\ buf'.offset < buf'.length
    BY <2>2, <2>3, <2>4, <2>5
  <2>7. bad' => Excused
    <3>1. CASE bad
      BY <3>1 DEF PrintInv
    <3>2. CASE ~job.realloc /\ buf.offset + 1 > buf.length
      <4>1. buf.length = 0
        BY <2>2, <3>2
      <4>2. job.call = "Buffered"
        BY <2>1, <2>2, <4>1, JobTypes
      <4> QED
        BY <2>2, <3>2, <4>1, <4>2 DEF Excused
    <3> QED
      BY <1>3, <3>1, <3>2 DEF EnsureGrows
  <2>8. bad' \in BOOLEAN
    BY <1>3, <2>2, JobTypes DEF EnsureGrows, PrintInv
  <2>9. /\ k \in Nat \ {0} /\ k <= Len(Pieces[job.document])
        /\ blocks = IF Owner THEN 1 ELSE 0
    BY <2>1, <2>2 DEF PrintInv, Ensuring
  <2> QED
    BY <2>1, <2>2, <2>3, <2>4, <2>5, <2>6, <2>7, <2>8, <2>9
       DEF PrintInv, Excused, Owner, piece
<1>4. CASE EnsureFails
  <2>1. /\ job.call # "Preallocated" /\ job \in Jobs /\ blocks = 1
    BY <1>4 DEF EnsureFails, Ensuring, MayGrow, PrintInv, Owner
  <2>2. buf'.null = TRUE /\ blocks' = 0 /\ at' = "failed"
    BY <1>4, <2>1 DEF EnsureFails, NULL_Buffer, Goto
  <2> QED
    BY <1>4, <2>1, <2>2 DEF EnsureFails, PrintInv, Owner, Excused
<1> QED
  BY <1>1, <1>2, <1>3, <1>4

LEMMA WritePreserves == ASSUME PrintInv, WritePiece PROVE PrintInv'
<1> DEFINE Moves == IF piece.update THEN Len(piece.text) ELSE piece.adds
<1>1. /\ at = "write" /\ at' = "ensure" /\ k' = k + 1 /\ UNCHANGED <<job, blocks>>
  BY DEF WritePiece, Goto
<1>2. /\ job \in Jobs /\ k \in Nat \ {0} /\ k <= Len(Pieces[job.document])
      /\ buf.null = FALSE /\ buf.length \in 0..IntMax /\ buf.offset \in Nat
      /\ piece.need + buf.offset + 1 <= buf.length
      /\ blocks = IF Owner THEN 1 ELSE 0
  BY <1>1 DEF PrintInv
<1>3. piece \in Piece /\ WellFormed(piece)
  BY <1>2, JobTypes, PieceTypes DEF piece
<1>4. /\ piece.need \in Nat
      /\ Bytes(piece) \in Nat /\ Bytes(piece) <= piece.need
      /\ Moves \in Nat /\ Moves <= piece.need
      /\ piece.update => piece.nul
  BY <1>3, PieceIsBounded
<1>5. /\ buf'.null = buf.null /\ buf'.length = buf.length
      /\ buf'.offset = buf.offset + Moves
  BY <1>2 DEF WritePiece
<1>6. buf'.offset \in Nat /\ buf'.offset < buf'.length /\ buf'.length # 0
  BY <1>2, <1>4, <1>5
<1>7. bad' = bad
  <2>1. ~(buf.offset + Bytes(piece) > buf.length)
    BY <1>2, <1>4
  <2> QED
    BY <1>4, <2>1, Zenon DEF WritePiece, PrintInv
<1> QED
  BY <1>1, <1>2, <1>5, <1>6, <1>7, SizesAssumption DEF PrintInv, Excused, Owner

LEMMA EndPreserves ==
    ASSUME PrintInv, Shrink \/ ShrinkFails \/ ReturnBuffer \/ Fail
    PROVE  PrintInv'
<1> USE DEF PrintInv, Excused, Owner, Returns, Goto, Written
<1>1. CASE Shrink
  BY <1>1 DEF Shrink
<1>2. CASE ShrinkFails
  BY <1>2 DEF ShrinkFails
<1>3. CASE ReturnBuffer
  BY <1>3 DEF ReturnBuffer
<1>4. CASE Fail
  BY <1>4 DEF Fail
<1> QED
  BY <1>1, <1>2, <1>3, <1>4

LEMMA StutterPreserves == ASSUME PrintInv, UNCHANGED printVars PROVE PrintInv'
  BY DEF PrintInv, printVars, Excused, Owner, piece

(* No call of the printer touches a byte past its buffer, or leaks it, or  *)
(* frees it twice, whatever its sizes, its document and the memory: the    *)
(* guess of 0 bytes without realloc is the one exception.                  *)
THEOREM PrintingStaysInside == PrintSpec => []PrintStaysInside
<1>1. PrintInv /\ [PrintNext]_printVars => PrintInv'
  BY BeginPreserves, EnsurePreserves, WritePreserves, EndPreserves,
     StutterPreserves DEF PrintNext
<1>2. PrintInv => PrintStaysInside
  BY DEF PrintInv, PrintStaysInside, Excused, Owner
<1> QED
  BY <1>1, <1>2, InitImpliesInv, PTL DEF PrintSpec
====
