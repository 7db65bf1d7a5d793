---- MODULE TemperatureCheckerProofs ----
(***************************************************************************)
(* Theorems about TemperatureChecker for any number of probes, faults and  *)
(* resolutions: the mutex that two tasks may both create excludes unless   *)
(* both did, the resolutions the driver has cached are those of the        *)
(* probes, what is published is as fresh as the wait allows, and a round   *)
(* keeps its pace.                                                         *)
(***************************************************************************)
EXTENDS TemperatureChecker, SequenceTheorems, TLAPS

-----------------------------------------------------------------------------
(* The mutex, for any users.                                               *)

Places == {"out", "create", "return", "take", "in", "give", "panic"}

MutexTypes ==
    /\ holder \in Seq(Users \cup {"free", "dead"})
    /\ handle \in 0..Len(holder)
    /\ user \in [Users -> [at : Places, own : Nat, h : Nat]]

(* Until there is a mutex nobody is past its creation; while there is one,  *)
(* it is the one that everybody uses, and whoever is inside holds it.      *)
SingleInv ==
    /\ handle = 0 <=> Len(holder) = 0
    /\ Len(holder) = 0 => \A t \in Users : user[t].at \in {"out", "create"}
    /\ Len(holder) = 1 =>
          \A t \in Users :
             /\ user[t].at = "return" => user[t].own = 1
             /\ user[t].at \in {"take", "in", "give"} => user[t].h = 1
             /\ user[t].at \in {"in", "give"} <=> holder[1] = t
             /\ user[t].at # "panic"

(* Each user creates at most one mutex, and only before it has seen one.   *)
FewMutexes ==
    /\ Len(holder) <= 2
    /\ Len(holder) = 1 => \A t, u \in Users :
          user[t].at = "create" /\ user[u].at = "create" => t = u
    /\ Len(holder) = 2 => \A t \in Users : user[t].at # "create"

MutexInv == MutexTypes /\ SingleInv

AnyMutexStep == \E t \in Users : MutexStep(t) \/ Leave(t)

(* What a step may do to the record of the one who takes it.               *)
OnlyMoves(t) == /\ user' \in [Users -> [at : Places, own : Nat, h : Nat]]
                /\ \A u \in Users \ {t} : user'[u] = user[u]

LEMMA SameLength ==
    ASSUME NEW S, NEW s \in Seq(S), NEW k, NEW x \in S
    PROVE  [s EXCEPT ![k] = x] \in Seq(S) /\ Len([s EXCEPT ![k] = x]) = Len(s)
<1>1. CASE k \in 1..Len(s)
  BY <1>1, ExceptSeq
<1>2. CASE k \notin 1..Len(s)
  <2>1. [s EXCEPT ![k] = x] = s
    BY <1>2
  <2> QED
    BY <2>1
<1> QED
  BY <1>1, <1>2

LEMMA Moves ==
    ASSUME MutexTypes, NEW t \in Users, NEW a \in Places, GotoM(t, a)
    PROVE  /\ OnlyMoves(t)
           /\ user'[t].at = a /\ user'[t].h = user[t].h
  BY DEF GotoM, MutexTypes, OnlyMoves

LEMMA Replaces ==
    ASSUME MutexTypes, NEW t \in Users, NEW r \in [at : Places, own : Nat, h : Nat],
           user' = [user EXCEPT ![t] = r]
    PROVE  OnlyMoves(t) /\ user'[t] = r
  BY DEF MutexTypes, OnlyMoves

LEMMA AskKeeps ==
    ASSUME MutexInv, NEW t \in Users, Ask(t)
    PROVE  MutexInv'
<1> USE DEF MutexInv
<1>1. CASE handle = 0
  <2>1. "create" \in Places
    BY DEF Places
  <2>2. OnlyMoves(t) /\ user'[t].at = "create"
    BY <1>1, <2>1, Moves DEF Ask
  <2> QED
    BY <1>1, <2>2 DEF Ask, OnlyMoves, MutexTypes, SingleInv
<1>2. CASE handle # 0
  <2> DEFINE r == [at |-> "take", own |-> 0, h |-> handle]
  <2>1. r \in [at : Places, own : Nat, h : Nat] /\ r.at = "take" /\ r.h = handle
    BY DEF Places, MutexTypes
  <2>2. /\ user' = [user EXCEPT ![t] = r]
        /\ user[t].at = "out" /\ handle' = handle /\ holder' = holder
    BY <1>2 DEF Ask
  <2> HIDE DEF r
  <2>3. OnlyMoves(t) /\ user'[t].at = "take" /\ user'[t].h = handle
    BY <2>1, <2>2, Replaces
  <2>4. MutexTypes'
    BY <2>2, <2>3 DEF OnlyMoves, MutexTypes
  <2>5. Len(holder) = 1 => handle = 1 /\ holder[1] # t
    BY <2>2 DEF MutexTypes, SingleInv
  <2> QED
    BY <1>2, <2>2, <2>3, <2>4, <2>5 DEF OnlyMoves, SingleInv
<1> QED
  BY <1>1, <1>2

LEMMA CreateEffect ==
    ASSUME MutexInv, NEW t \in Users, Create(t)
    PROVE  /\ Len(holder') = Len(holder) + 1
           /\ holder' \in Seq(Users \cup {"free", "dead"})
           /\ holder'[Len(holder')] = "free"
           /\ handle' = Len(holder')
           /\ OnlyMoves(t)
           /\ user'[t].at = "return" /\ user'[t].own = Len(holder')
<1> DEFINE n == Len(holder')
<1>1. /\ n = Len(holder) + 1
      /\ holder' \in Seq(Users \cup {"free", "dead"})
      /\ holder'[n] = "free" /\ handle' = n
  BY DEF Create, MutexInv, MutexTypes
<1>2. n \in Nat
  BY <1>1 DEF MutexInv, MutexTypes
<1>3. user' = [user EXCEPT ![t].at = "return", ![t].own = n]
  BY DEF Create
<1> HIDE DEF n
<1>4. OnlyMoves(t) /\ user'[t].at = "return" /\ user'[t].own = n
  BY <1>2, <1>3 DEF OnlyMoves, MutexInv, MutexTypes, Places
<1> QED
  BY <1>1, <1>4 DEF n

LEMMA CreateKeeps ==
    ASSUME MutexInv, NEW t \in Users, Create(t)
    PROVE  MutexInv'
<1>1. MutexTypes'
  BY CreateEffect DEF MutexInv, MutexTypes, OnlyMoves
<1>2. CASE Len(holder) = 0
  <2>1. /\ Len(holder') = 1 /\ handle' = 1 /\ holder'[1] = "free"
        /\ OnlyMoves(t) /\ user'[t].at = "return" /\ user'[t].own = 1
    BY <1>2, CreateEffect
  <2>2. \A u \in Users : /\ user'[u].at \in {"out", "create", "return"}
                         /\ user'[u].at = "return" => user'[u].own = 1
    BY <1>2, <2>1 DEF MutexInv, SingleInv, OnlyMoves
  <2> QED
    BY <1>1, <2>1, <2>2, HolderAssumption DEF MutexInv, SingleInv
<1>3. CASE Len(holder) # 0
  BY <1>1, <1>3, CreateEffect DEF MutexInv, SingleInv, MutexTypes
<1> QED
  BY <1>2, <1>3

LEMMA ReturnKeeps ==
    ASSUME MutexInv, NEW t \in Users, ReturnHandle(t)
    PROVE  MutexInv'
<1>1. PICK h \in {handle, user[t].own} :
         user' = [user EXCEPT ![t] = [at |-> "take", own |-> 0, h |-> h]]
  BY DEF ReturnHandle
<1>2. h \in Nat
  BY <1>1 DEF MutexInv, MutexTypes
<1>3. OnlyMoves(t) /\ user'[t].at = "take" /\ user'[t].h = h
  <2> DEFINE r == [at |-> "take", own |-> 0, h |-> h]
  <2>1. r \in [at : Places, own : Nat, h : Nat] /\ r.at = "take" /\ r.h = h
    BY <1>2 DEF Places
  <2>2. user' = [user EXCEPT ![t] = r]
    BY <1>1
  <2> HIDE DEF r
  <2> QED
    BY <2>1, <2>2, Replaces DEF MutexInv
<1>4. user[t].at = "return" /\ handle' = handle /\ holder' = holder
  BY DEF ReturnHandle
<1>5. MutexTypes'
  BY <1>3, <1>4 DEF MutexInv, MutexTypes, OnlyMoves
<1>6. CASE Len(holder) = 1
  <2>1. h = 1 /\ holder[1] # t
    BY <1>1, <1>4, <1>6 DEF MutexInv, MutexTypes, SingleInv
  <2> QED
    BY <1>3, <1>4, <1>5, <1>6, <2>1 DEF MutexInv, SingleInv, OnlyMoves
<1>7. CASE Len(holder) # 1
  BY <1>3, <1>4, <1>5, <1>7 DEF MutexInv, SingleInv, OnlyMoves
<1> QED
  BY <1>6, <1>7

LEMMA TakeKeeps ==
    ASSUME MutexInv, NEW t \in Users, Take(t)
    PROVE  MutexInv'
<1> USE DEF MutexInv
<1>1. /\ OnlyMoves(t) /\ user[t].at = "take"
      /\ user'[t].at = "in" /\ user'[t].h = user[t].h
  BY Moves DEF Take, Places
<1>2. /\ Len(holder') = Len(holder)
      /\ holder' \in Seq(Users \cup {"free", "dead"})
      /\ handle' = handle
  <2>1. holder' = [holder EXCEPT ![user[t].h] = t] /\ handle' = handle
    BY DEF Take
  <2>2. t \in Users \cup {"free", "dead"} /\ holder \in Seq(Users \cup {"free", "dead"})
    BY DEF MutexTypes
  <2>3. /\ [holder EXCEPT ![user[t].h] = t] \in Seq(Users \cup {"free", "dead"})
        /\ Len([holder EXCEPT ![user[t].h] = t]) = Len(holder)
    BY <2>2, SameLength
  <2> QED
    BY <2>1, <2>3
<1>3. MutexTypes'
  BY <1>1, <1>2 DEF MutexTypes, OnlyMoves
<1>4. CASE Len(holder) = 1
  <2>1. user[t].h = 1 /\ holder[1] = "free" /\ holder'[1] = t
    BY <1>4 DEF Take, SingleInv, MutexTypes
  <2>2. \A u \in Users : user[u].at \notin {"in", "give"}
    BY <1>4, <2>1, HolderAssumption DEF SingleInv
  <2> QED
    BY <1>1, <1>2, <1>3, <1>4, <2>1, <2>2 DEF SingleInv, OnlyMoves
<1>5. CASE Len(holder) # 1
  BY <1>1, <1>2, <1>3, <1>5 DEF SingleInv, OnlyMoves
<1> QED
  BY <1>4, <1>5

LEMMA LeaveKeeps ==
    ASSUME MutexInv, NEW t \in Users, Leave(t)
    PROVE  MutexInv'
<1>1. handle \in Nat
  BY DEF MutexInv, MutexTypes
<1>2. OnlyMoves(t) /\ user'[t].at = "give" /\ user'[t].h = handle
  BY <1>1 DEF Leave, OnlyMoves, MutexInv, MutexTypes, Places
<1>3. user[t].at = "in" /\ handle' = handle /\ holder' = holder
  BY DEF Leave
<1>4. MutexTypes'
  BY <1>2, <1>3 DEF MutexInv, MutexTypes, OnlyMoves
<1>5. CASE Len(holder) = 1
  <2>1. handle = 1 /\ holder[1] = t
    BY <1>3, <1>5 DEF MutexInv, MutexTypes, SingleInv
  <2> QED
    BY <1>2, <1>3, <1>4, <1>5, <2>1 DEF MutexInv, SingleInv, OnlyMoves
<1>6. CASE Len(holder) # 1
  BY <1>2, <1>3, <1>4, <1>6 DEF MutexInv, SingleInv, OnlyMoves
<1> QED
  BY <1>5, <1>6

LEMMA GiveEffect ==
    ASSUME MutexInv, NEW t \in Users, Give(t)
    PROVE  /\ OnlyMoves(t) /\ handle' = handle /\ Len(holder') = Len(holder)
           /\ holder' \in Seq(Users \cup {"free", "dead"})
           /\ user'[t].at \in {"out", "panic"}
<1>1. /\ Len(holder') = Len(holder)
      /\ holder' \in Seq(Users \cup {"free", "dead"})
      /\ handle' = handle
  <2>1. /\ holder' = [holder EXCEPT ![user[t].h] = "free"] \/ holder' = holder
        /\ handle' = handle
    BY DEF Give
  <2> QED
    BY <2>1, SameLength DEF MutexInv, MutexTypes
<1>2. CASE holder[user[t].h] \in {t, "free"}
  <2>1. user' = [user EXCEPT ![t] = Outside] /\ Outside.at = "out"
    BY <1>2 DEF Give, Outside
  <2>2. Outside \in [at : Places, own : Nat, h : Nat]
    BY DEF Outside, Places
  <2> QED
    BY <1>1, <2>1, <2>2, Replaces DEF MutexInv
<1>3. CASE holder[user[t].h] \notin {t, "free"}
  <2>1. GotoM(t, "panic") /\ "panic" \in Places
    BY <1>3 DEF Give, Places
  <2> QED
    BY <1>1, <2>1, Moves DEF MutexInv
<1> QED
  BY <1>2, <1>3

LEMMA GiveKeeps ==
    ASSUME MutexInv, NEW t \in Users, Give(t)
    PROVE  MutexInv'
<1>1. MutexTypes'
  BY GiveEffect DEF MutexInv, MutexTypes, OnlyMoves
<1>2. CASE Len(holder) = 1
  <2>1. user[t].h = 1 /\ holder[1] = t
    BY <1>2 DEF Give, MutexInv, SingleInv
  <2>2. holder'[1] = "free" /\ user' = [user EXCEPT ![t] = Outside]
    BY <1>2, <2>1 DEF Give, MutexInv, MutexTypes
  <2>3. user'[t].at = "out"
    BY <2>2 DEF Outside, MutexInv, MutexTypes
  <2>4. \A u \in Users : user'[u].at \notin {"in", "give"}
    BY <1>2, <2>1, <2>3, GiveEffect DEF MutexInv, SingleInv, OnlyMoves
  <2> QED
    BY <1>1, <1>2, <2>2, <2>3, <2>4, GiveEffect, HolderAssumption
       DEF MutexInv, SingleInv, OnlyMoves
<1>3. CASE Len(holder) # 1
  <2>1. Len(holder) # 0
    BY DEF Give, MutexInv, SingleInv
  <2> QED
    BY <1>1, <1>3, <2>1, GiveEffect DEF MutexInv, SingleInv
<1> QED
  BY <1>2, <1>3

LEMMA DeleteEffect ==
    ASSUME MutexInv, NEW t \in Users, Delete(t)
    PROVE  /\ OnlyMoves(t) /\ user'[t].at = "out"
           /\ handle' = handle /\ Len(holder') = Len(holder)
           /\ holder' \in Seq(Users \cup {"free", "dead"})
           /\ \A m \in 1..Len(holder) :
                 holder'[m] = IF holder[m] = t THEN "dead" ELSE holder[m]
<1>1. user' = [user EXCEPT ![t] = Outside] /\ handle' = handle
  BY DEF Delete
<1>2. Outside \in [at : Places, own : Nat, h : Nat] /\ Outside.at = "out"
  BY DEF Outside, Places
<1>3. OnlyMoves(t) /\ user'[t].at = "out"
  BY <1>1, <1>2, Replaces DEF MutexInv
<1>4. /\ holder \in Seq(Users \cup {"free", "dead"})
      /\ holder' = [m \in 1..Len(holder) |-> IF holder[m] = t THEN "dead"
                                             ELSE holder[m]]
  BY DEF Delete, MutexInv, MutexTypes
<1> QED
  BY <1>1, <1>3, <1>4

LEMMA DeleteKeeps ==
    ASSUME MutexInv, NEW t \in Users, Delete(t)
    PROVE  MutexInv'
<1>1. MutexTypes'
  BY DeleteEffect DEF MutexInv, MutexTypes, OnlyMoves
<1>2. CASE Len(holder) = 1
  <2>1. holder'[1] = IF holder[1] = t THEN "dead" ELSE holder[1]
    BY <1>2, DeleteEffect
  <2>2. \A u \in Users \ {t} : holder'[1] = u <=> holder[1] = u
    BY <2>1, HolderAssumption
  <2>3. holder'[1] # t
    BY <2>1, HolderAssumption
  <2> QED
    BY <1>1, <1>2, <2>2, <2>3, DeleteEffect DEF MutexInv, SingleInv, OnlyMoves
<1>3. CASE Len(holder) # 1
  BY <1>1, <1>3, DeleteEffect DEF MutexInv, SingleInv, OnlyMoves
<1> QED
  BY <1>2, <1>3

LEMMA MutexKept ==
    ASSUME MutexInv, AnyMutexStep \/ UNCHANGED mutexVars
    PROVE  MutexInv'
<1>1. CASE UNCHANGED mutexVars
  BY <1>1 DEF MutexInv, MutexTypes, SingleInv, mutexVars
<1>2. CASE AnyMutexStep
  BY <1>2, AskKeeps, CreateKeeps, ReturnKeeps, TakeKeeps, LeaveKeeps, GiveKeeps,
     DeleteKeeps DEF AnyMutexStep, MutexStep
<1> QED
  BY <1>1, <1>2

LEMMA OneOfThree ==
    ASSUME NEW n \in Nat, n <= 2, n # 2
    PROVE  n = 0 \/ n = 1
  OBVIOUS

LEMMA OneOfTwo ==
    ASSUME NEW n \in Nat, ~(n > 1)
    PROVE  n = 0 \/ n = 1
  OBVIOUS

LEMMA MutexFew ==
    ASSUME MutexInv, FewMutexes, AnyMutexStep \/ UNCHANGED mutexVars,
           NEW a, NEW b, Users = {a, b}
    PROVE  FewMutexes'
<1>1. CASE UNCHANGED mutexVars
  BY <1>1 DEF FewMutexes, mutexVars
<1>2. ASSUME NEW t \in Users, Create(t)
      PROVE  FewMutexes'
  <2>1. user[t].at = "create" /\ Len(holder) \in Nat
    BY <1>2 DEF Create, MutexInv, MutexTypes
  <2>2. Len(holder) = 0 \/ Len(holder) = 1
    <3>1. Len(holder) # 2
      BY <2>1 DEF FewMutexes
    <3>2. Len(holder) <= 2
      BY DEF FewMutexes
    <3> QED
      BY <2>1, <3>1, <3>2, OneOfThree
  <2>3. \A u \in Users : user'[u].at = "create" => u # t /\ user[u].at = "create"
    BY <1>2, CreateEffect DEF OnlyMoves
  <2>4. Len(holder') = Len(holder) + 1 /\ t \in {a, b}
    BY <1>2, CreateEffect
  <2>5. CASE Len(holder) = 0
    BY <2>3, <2>4, <2>5 DEF FewMutexes
  <2>6. CASE Len(holder) = 1
    BY <2>1, <2>3, <2>4, <2>6 DEF FewMutexes
  <2> QED
    BY <2>2, <2>5, <2>6
<1>3. ASSUME NEW t \in Users, Ask(t)
      PROVE  FewMutexes'
  <2>1. CASE handle = 0
    BY <1>3, <2>1 DEF Ask, FewMutexes, MutexInv, SingleInv
  <2>2. CASE handle # 0
    <3>1. \A u \in Users : user'[u].at = "create" => user[u].at = "create"
      BY <1>3, <2>2 DEF Ask, MutexInv, MutexTypes
    <3> QED
      BY <1>3, <3>1 DEF Ask, FewMutexes
  <2> QED
    BY <2>1, <2>2
<1>4. ASSUME NEW t \in Users,
             ReturnHandle(t) \/ Take(t) \/ Leave(t) \/ Give(t) \/ Delete(t)
      PROVE  FewMutexes'
  <2>1. Len(holder') = Len(holder)
    BY <1>4, DeleteEffect DEF ReturnHandle, Take, Leave, Give, MutexInv, MutexTypes
  <2>2. \A u \in Users : user'[u].at = "create" => user[u].at = "create"
    <3>1. CASE Give(t)
      BY <3>1, GiveEffect DEF OnlyMoves
    <3>2. CASE ReturnHandle(t)
      BY <3>2 DEF ReturnHandle, MutexInv, MutexTypes
    <3>3. CASE Take(t) \/ Leave(t)
      BY <3>3 DEF Take, Leave, GotoM, MutexInv, MutexTypes
    <3>4. CASE Delete(t)
      BY <3>4, DeleteEffect DEF OnlyMoves
    <3> QED
      BY <1>4, <3>1, <3>2, <3>3, <3>4
  <2> QED
    BY <2>1, <2>2 DEF FewMutexes
<1> QED
  BY <1>1, <1>2, <1>3, <1>4 DEF AnyMutexStep, MutexStep

LEMMA StepOfMutex ==
    ASSUME [Next]_vars
    PROVE  AnyMutexStep \/ UNCHANGED mutexVars
<1>1. "checker" \in Users /\ "mode" \in Users
  BY UsersAssumption
<1>2. CASE UNCHANGED vars
  BY <1>2 DEF vars
<1>3. CASE SetUp
  BY <1>3 DEF SetUp, MallocDevice, InitDevice, SetResolution, WriteResolution,
              VerifyResolution, RereadResolution, OnBus
<1>4. CASE Round
  BY <1>1, <1>4 DEF Round, Convert, WaitForConversion, Read, AskMutex, SetTemperature,
                    GiveMutex, Pace, Delay, AnyMutexStep, MutexStep
<1>5. CASE Locking("checker") \/ Mode \/ StopWorkingTask
  BY <1>1, <1>5 DEF Locking, Mode, GetTemperatures, StopWorkingTask, AnyMutexStep, MutexStep
<1>6. CASE Converts \/ PowerFails
  BY <1>6 DEF Converts, PowerFails
<1> QED
  BY <1>2, <1>3, <1>4, <1>5, <1>6 DEF Next, Checker

LEMMA MutexInvInductive ==
    /\ Init => MutexInv /\ FewMutexes
    /\ MutexInv /\ FewMutexes /\ [Next]_vars => (MutexInv /\ FewMutexes)'
<1>1. ASSUME Init PROVE MutexInv /\ FewMutexes
  <2>1. holder = <<>> /\ handle = 0 /\ user = [t \in Users |-> Outside]
    BY <1>1 DEF Init, MutexInit
  <2>2. Outside \in [at : Places, own : Nat, h : Nat] /\ Outside.at = "out"
    BY DEF Outside, Places
  <2> QED
    BY <2>1, <2>2 DEF MutexInv, MutexTypes, SingleInv, FewMutexes
<1>2. ASSUME MutexInv, FewMutexes, [Next]_vars
      PROVE  (MutexInv /\ FewMutexes)'
  BY <1>2, StepOfMutex, MutexKept, MutexFew, UsersAssumption
<1> QED
  BY <1>1, <1>2

LEMMA SingleExcludes == MutexInv => OneMutexExcludes
<1> SUFFICES ASSUME MutexInv, ~(Len(holder) > 1)
             PROVE  /\ ~Panicked
                    /\ \A t, u \in Users :
                          user[t].at = "in" /\ user[u].at = "in" => t = u
  BY DEF OneMutexExcludes
<1>1. Len(holder) \in Nat
  BY DEF MutexInv, MutexTypes
<1>2. Len(holder) = 0 \/ Len(holder) = 1
  BY <1>1, OneOfTwo
<1> QED
  BY <1>2 DEF Panicked, MutexInv, SingleInv

(* Whoever makes the mutex first, two tasks are inside it together or one   *)
(* gives another's back only when both have made one                       *)
(* (temperatureChecker.c 41-47).                                           *)
THEOREM MutexExcludes == Spec => []OneMutexExcludes
<1>1. MutexInv /\ FewMutexes => OneMutexExcludes
  BY SingleExcludes
<1> QED
  BY <1>1, MutexInvInductive, PTL DEF Spec

-----------------------------------------------------------------------------
(* Types.                                                                  *)

RoundStates == {"start", "wait", "read", "publish", "publishing", "published",
                "pace", "delay"}
SetUpStates == {"malloc", "init", "set", "write", "verify", "reread"}

ProbeType == [res : Resolutions, conv : {"none"} \cup Ages, temp : Ages]
InfoType == [null : BOOLEAN, init : BOOLEAN, resolution : {0} \cup Resolutions]

CheckerTypes ==
    /\ probe \in [Probes -> ProbeType]
    /\ info \in [Probes -> InfoType]
    /\ faults \in 0..MaxFaults
    /\ at \in SetUpStates \cup RoundStates
    /\ i \in Probes
    /\ temps \in [Probes -> Readings]
    /\ disturbed \in [now : BOOLEAN, before : BOOLEAN]

LEMMA NoiseType ==
    ASSUME faults \in 0..MaxFaults, NEW noise, Noise(noise)
    PROVE  faults' \in 0..MaxFaults
  BY FaultsAssumption DEF Noise

LEMMA TurnType ==
    ASSUME i \in Probes, NEW turn, NEW after, NextTurn(turn, after) 
    PROVE  i' \in Probes /\ at' \in {turn, after}
  BY CountAssumption DEF NextTurn

LEMMA ConfigsType ==
    ASSUME CheckerTypes, NEW p \in Probes, NEW noise
    PROVE  noise \in Noises => ConfigsRead(p, noise) \subseteq Resolutions
  BY DEF CheckerTypes, ConfigsRead, Resolutions, ProbeType, Noises

(* What a step of the set-up does to the driver, whatever goes wrong.      *)
LEMMA SetUpTypes ==
    ASSUME CheckerTypes, SetUp
    PROVE  CheckerTypes'
<1> USE DEF CheckerTypes
<1>1. i \in Probes
  OBVIOUS
<1>2. CASE MallocDevice
  <2>1. /\ info' \in [Probes -> InfoType] /\ faults' \in 0..MaxFaults
        /\ probe' = probe
    <3> DEFINE b == [Blank EXCEPT !.null = FALSE]
    <3>1. b \in InfoType
      BY DEF Blank, InfoType
    <3>2. \/ info' = [info EXCEPT ![i] = b] /\ UNCHANGED <<probe, faults>>
          \/ /\ faults < MaxFaults
             /\ faults' = faults + 1 /\ UNCHANGED <<probe, info>>
      BY <1>2 DEF MallocDevice, Malloc
    <3> HIDE DEF b
    <3> QED
      BY <3>1, <3>2, FaultsAssumption
  <2> QED
    BY <1>2, <2>1 DEF MallocDevice, Goto, OnBus, SetUpStates
<1>3. CASE InitDevice
  <2>1. /\ info' \in [Probes -> InfoType] /\ faults' \in 0..MaxFaults
        /\ probe' = probe
    <3>1. CASE info[i].null
      BY <1>3, <3>1 DEF InitDevice, InitInfo, driverVars
    <3>2. CASE ~info[i].null
      <4>1. PICK noise \in Noises :
               /\ Noise(noise)
               /\ \E resolution \in ConfigsRead(i, noise) :
                     info' = [info EXCEPT ![i].init = TRUE,
                                          ![i].resolution = resolution]
               /\ UNCHANGED probe
        BY <1>3, <3>2 DEF InitDevice, InitInfo
      <4>2. PICK resolution \in Resolutions :
               info' = [info EXCEPT ![i].init = TRUE, ![i].resolution = resolution]
        BY <4>1, ConfigsType
      <4> QED
        BY <4>1, <4>2, NoiseType DEF InfoType
    <3> QED
      BY <3>1, <3>2
  <2> QED
    BY <1>3, <2>1 DEF InitDevice, Goto, OnBus, SetUpStates
<1>4. CASE SetResolution
  <2>1. UNCHANGED <<probe, info>> /\ faults' \in 0..MaxFaults
    BY <1>4, NoiseType DEF SetResolution, ReadTriggers, driverVars
  <2>2. i' \in Probes /\ at' \in {"write", "malloc", "start"}
    BY <1>4, TurnType DEF SetResolution, Goto
  <2> QED
    BY <1>4, <2>1, <2>2 DEF SetResolution, OnBus, SetUpStates, RoundStates
<1>5. CASE WriteResolution
  <2>1. PICK done \in BOOLEAN :
           /\ WriteScratchpad(i, RESOLUTION, done)
           /\ Goto(IF done THEN "verify" ELSE "reread")
    BY <1>5 DEF WriteResolution
  <2>2. /\ probe' \in [Probes -> ProbeType] /\ faults' \in 0..MaxFaults
        /\ info' = info
    BY <2>1, NoiseType, TicksAssumption
       DEF WriteScratchpad, ProbeType, Resolutions, Noises
  <2> QED
    BY <1>5, <2>1, <2>2 DEF WriteResolution, Goto, OnBus, SetUpStates
<1>6. CASE VerifyResolution
  <2>1. /\ info' \in [Probes -> InfoType] /\ faults' \in 0..MaxFaults
        /\ probe' = probe
    BY <1>6, NoiseType, TicksAssumption
       DEF VerifyResolution, Verify, InfoType, Resolutions
  <2>2. i' \in Probes /\ at' \in {"reread", "malloc", "start"}
    BY <1>6, TurnType DEF VerifyResolution, Goto
  <2> QED
    BY <1>6, <2>1, <2>2 DEF VerifyResolution, OnBus, SetUpStates, RoundStates
<1>7. CASE RereadResolution
  <2>1. PICK noise \in Noises :
           /\ Noise(noise)
           /\ \E resolution \in ConfigsRead(i, noise) :
                 info' = [info EXCEPT ![i].resolution = resolution]
           /\ UNCHANGED probe
    BY <1>7 DEF RereadResolution, ReadResolution
  <2>2. /\ info' \in [Probes -> InfoType] /\ faults' \in 0..MaxFaults
        /\ probe' = probe
    BY <2>1, ConfigsType, NoiseType DEF InfoType
  <2>3. i' \in Probes /\ at' \in {"malloc", "start"}
    BY <1>7, TurnType DEF RereadResolution
  <2> QED
    BY <1>7, <2>2, <2>3 DEF RereadResolution, OnBus, SetUpStates, RoundStates
<1> QED
  BY <1>2, <1>3, <1>4, <1>5, <1>6, <1>7 DEF SetUp

LEMMA RoundTypes ==
    ASSUME CheckerTypes, Round
    PROVE  CheckerTypes'
<1> USE DEF CheckerTypes
<1>1. CASE Convert
  <2>1. PICK heard \in SUBSET Probes :
           /\ Noise(IF heard = Probes THEN "none" ELSE "garbled")
           /\ ConvertAll(heard)
           /\ disturbed' = [now |-> heard # Probes, before |-> disturbed.now]
    BY <1>1 DEF Convert
  <2>2. /\ probe' \in [Probes -> ProbeType] /\ faults' \in 0..MaxFaults
        /\ info' = info
    BY <2>1, NoiseType DEF ConvertAll, ProbeType, Older, Ages
  <2> QED
    BY <1>1, <2>1, <2>2 DEF Convert, Goto, RoundStates
<1>2. CASE WaitForConversion
  <2>1. probe' \in [Probes -> ProbeType]
    BY <1>2 DEF WaitForConversion, AfterWait, ProbeType
  <2> QED
    BY <1>2, <2>1 DEF WaitForConversion, Goto, RoundStates
<1>3. CASE Read
  <2>1. PICK noise \in Noises : /\ Noise(noise)
                                /\ temps' = [temps EXCEPT ![i] = ReadTemp(i, noise)]
    BY <1>3 DEF Read
  <2>2. ReadTemp(i, noise) \in Readings
    BY <2>1 DEF ReadTemp, Readings, Noises, ProbeType, Ages
  <2>3. temps' \in [Probes -> Readings] /\ faults' \in 0..MaxFaults
    BY <2>1, <2>2, NoiseType
  <2>4. i' \in Probes /\ at' \in {"read", "publish"}
    BY <1>3, TurnType DEF Read
  <2>5. probe' \in [Probes -> ProbeType]
    BY <1>3 DEF Read, AfterWait, ProbeType
  <2> QED
    BY <1>3, <2>3, <2>4, <2>5 DEF Read, RoundStates
<1>4. CASE AskMutex \/ Pace \/ Delay
  BY <1>4 DEF AskMutex, Pace, Delay, NextRound, Goto, RoundStates, Readings, driverVars
<1>5. CASE SetTemperature
  BY <1>5 DEF SetTemperature, Goto, RoundStates, driverVars
<1>6. CASE GiveMutex
  <2>1. i' \in Probes /\ at' \in {"publish", "pace"}
    BY <1>6, TurnType DEF GiveMutex
  <2> QED
    BY <1>6, <2>1 DEF GiveMutex, RoundStates, driverVars
<1> QED
  BY <1>1, <1>2, <1>3, <1>4, <1>5, <1>6 DEF Round

LEMMA ProbeTypes ==
    ASSUME CheckerTypes, Converts \/ PowerFails
    PROVE  CheckerTypes'
<1> USE DEF CheckerTypes
<1>1. CASE Converts
  <2>1. PICK p \in Probes : /\ ConversionEnds(p)
                            /\ UNCHANGED <<mutexVars, taskVars, unpowered>>
    BY <1>1 DEF Converts
  <2>2. probe' \in [Probes -> ProbeType]
    BY <2>1 DEF ConversionEnds, ProbeType
  <2> QED
    BY <2>1, <2>2 DEF ConversionEnds, taskVars
<1>2. CASE PowerFails
  <2>1. PICK p \in Probes : LosesPower(p)
    BY <1>2 DEF PowerFails
  <2>2. probe' \in [Probes -> ProbeType]
    BY <2>1, PowerOnAssumption DEF LosesPower, ProbeType, Resolutions, Ages
  <2>3. faults' \in 0..MaxFaults
    BY <2>1, FaultsAssumption DEF LosesPower
  <2> QED
    BY <1>2, <2>1, <2>2, <2>3 DEF PowerFails, LosesPower
<1> QED
  BY <1>1, <1>2

LEMMA CheckerTypesInductive ==
    /\ Init => CheckerTypes
    /\ CheckerTypes /\ [Next]_vars => CheckerTypes'
<1>1. ASSUME Init PROVE CheckerTypes
  <2>1. probe \in [Probes -> ProbeType]
    BY <1>1, PowerOnAssumption DEF Init, DriverInit, ProbeType, Resolutions, Ages
  <2>2. info \in [Probes -> InfoType]
    BY <1>1 DEF Init, DriverInit, Blank, InfoType
  <2>3. 1 \in Probes
    BY CountAssumption
  <2>4. temps \in [Probes -> Readings]
    BY <1>1 DEF Init, Readings
  <2>5. /\ faults = 0 /\ at = "malloc" /\ i = 1
        /\ disturbed = [now |-> TRUE, before |-> TRUE]
    BY <1>1 DEF Init, DriverInit
  <2>6. faults \in 0..MaxFaults /\ at \in SetUpStates /\ i \in Probes
    BY <2>3, <2>5, FaultsAssumption DEF SetUpStates
  <2>7. disturbed \in [now : BOOLEAN, before : BOOLEAN]
    BY <2>5
  <2> QED
    BY <2>1, <2>2, <2>4, <2>6, <2>7 DEF CheckerTypes
<1>2. ASSUME CheckerTypes, [Next]_vars
      PROVE  CheckerTypes'
  <2>1. CASE UNCHANGED vars
    BY <1>2, <2>1 DEF vars, driverVars, taskVars, CheckerTypes
  <2>2. CASE Locking("checker") \/ Mode \/ StopWorkingTask
    BY <1>2, <2>2 DEF Locking, Mode, GetTemperatures, StopWorkingTask, Elsewhere, driverVars, taskVars,
                      CheckerTypes
  <2> QED
    BY <1>2, <2>1, <2>2, SetUpTypes, RoundTypes, ProbeTypes DEF Next, Checker
<1> QED
  BY <1>1, <1>2

-----------------------------------------------------------------------------
(* The cached resolutions.                                                 *)

Tracked(p) == info[p].null \/ info[p].resolution = probe[p].res

(* Of the device of this turn, after the step: the turn may go on to the   *)
(* next device.                                                            *)
TrackedNext(p) == info'[p].null \/ info'[p].resolution = probe'[p].res

(* While one transaction at most has failed: device i is on its way to a   *)
(* resolution that both sides know, and no other is touched.               *)
TrackInv ==
    faults <= 1 =>
        /\ \A p \in Probes \ unpowered :
              ~SettingUp \/ p < i => Tracked(p)
        /\ i \notin unpowered =>
              /\ at = "set" /\ faults = 0 => Tracked(i)
              /\ at = "write" /\ faults = 0 => Tracked(i)
              /\ at = "verify" /\ faults = 0 => probe[i].res = RESOLUTION
              /\ at = "reread" => faults = 1

(* Once it was initialised, a device has a resolution to set.              *)
SetInv ==
    at = "set" =>
        info[i].null \/ (info[i].init /\ info[i].resolution \in Resolutions)

TrackedInv == CheckerTypes /\ SetInv /\ TrackInv

LEMMA NoiseCounts ==
    ASSUME CheckerTypes, NEW noise, Noise(noise)
    PROVE  /\ faults' = faults \/ faults' = faults + 1
           /\ faults \in Nat
           /\ noise # "none" => faults' = faults + 1
           /\ noise = "none" => faults' = faults
  BY DEF Noise, CheckerTypes

LEMMA TurnOver ==
    ASSUME CheckerTypes, NextTurn("malloc", "start")
    PROVE  /\ at' \in {"malloc", "start"}
           /\ \A p \in Probes : (at' = "start" \/ p < i') => p < i \/ p = i
  BY CountAssumption DEF NextTurn, CheckerTypes

(* The same for the steps that end the turn of device i: it is done.       *)
LEMMA TurnKeepsTrack ==
    ASSUME TrackedInv, SettingUp, NextTurn("malloc", "start"), unpowered' = unpowered,
           faults' \in Nat, faults' >= faults,
           \A p \in Probes \ {i} : info'[p] = info[p] /\ probe'[p] = probe[p],
           faults' <= 1 /\ i \notin unpowered => TrackedNext(i)
    PROVE  TrackInv'
<1> SUFFICES ASSUME faults' <= 1
             PROVE  \A p \in Probes \ unpowered :
                       ~SettingUp' \/ p < i' => Tracked(p)'
  BY TurnOver DEF TrackInv, TrackedInv
<1> SUFFICES ASSUME NEW p \in Probes \ unpowered, ~SettingUp' \/ p < i'
             PROVE  Tracked(p)'
  OBVIOUS
<1>1. faults \in Nat /\ faults <= 1
  BY DEF TrackedInv, CheckerTypes
<1>2. p < i \/ p = i
  BY TurnOver DEF TrackedInv, SettingUp
<1>3. CASE p = i
  BY <1>3 DEF Tracked, TrackedNext
<1>4. CASE p < i /\ p # i
  <2>1. Tracked(p)
    BY <1>1, <1>4 DEF TrackedInv, TrackInv
  <2> QED
    BY <1>4, <2>1 DEF Tracked
<1> QED
  BY <1>2, <1>3, <1>4

(* Steps within the turn of device i.                                      *)
LEMMA StepKeepsTrack ==
    ASSUME TrackedInv, SettingUp, SettingUp', i' = i, unpowered' = unpowered,
           faults' \in Nat, faults' >= faults,
           \A p \in Probes \ {i} : info'[p] = info[p] /\ probe'[p] = probe[p]
    PROVE  faults' <= 1 => \A p \in Probes \ unpowered' :
                              ~SettingUp' \/ p < i' => Tracked(p)'
<1> SUFFICES ASSUME faults' <= 1, NEW p \in Probes \ unpowered, p < i
             PROVE  Tracked(p)'
  OBVIOUS
<1>1. faults \in Nat /\ faults <= 1 /\ p # i
  BY CountAssumption DEF TrackedInv, CheckerTypes
<1>2. Tracked(p)
  BY <1>1 DEF TrackedInv, TrackInv
<1> QED
  BY <1>1, <1>2 DEF Tracked

LEMMA SetUpKeepsTrack ==
    ASSUME TrackedInv, SetUp
    PROVE  TrackInv' /\ SetInv'
<1>1. CheckerTypes /\ i \in Probes /\ faults \in Nat
  BY DEF TrackedInv, CheckerTypes
<1>2. CASE MallocDevice
  <2>1. /\ \A p \in Probes \ {i} : info'[p] = info[p] /\ probe'[p] = probe[p]
        /\ faults' \in Nat /\ faults' >= faults
    BY <1>1, <1>2 DEF MallocDevice, Malloc, CheckerTypes
  <2>2. at = "malloc" /\ at' = "init" /\ i' = i /\ unpowered' = unpowered
    BY <1>2 DEF MallocDevice, Goto, OnBus
  <2> QED
    BY <2>1, <2>2, StepKeepsTrack DEF TrackInv, SetInv, SettingUp
<1>3. CASE InitDevice
  <2>1. at = "init" /\ at' = "set" /\ i' = i /\ unpowered' = unpowered
    BY <1>3 DEF InitDevice, Goto, OnBus
  <2>2. CASE info[i].null
    <3>1. info' = info /\ probe' = probe /\ faults' = faults
      BY <1>3, <2>2 DEF InitDevice, InitInfo, driverVars
    <3>2. SetInv' /\ Tracked(i)'
      BY <2>1, <2>2, <3>1 DEF SetInv, Tracked
    <3>3. faults' \in Nat /\ faults' >= faults
      BY <1>1, <3>1
    <3> QED
      BY <2>1, <3>1, <3>2, <3>3, StepKeepsTrack DEF TrackInv, SettingUp
  <2>3. CASE ~info[i].null
    <3>0. PICK noise \in Noises :
             /\ Noise(noise)
             /\ \E resolution \in ConfigsRead(i, noise) :
                   info' = [info EXCEPT ![i].init = TRUE,
                                        ![i].resolution = resolution]
             /\ UNCHANGED probe
      BY <1>3, <2>3 DEF InitDevice, InitInfo
    <3>1. PICK resolution \in ConfigsRead(i, noise) :
             /\ Noise(noise)
             /\ info' = [info EXCEPT ![i].init = TRUE, ![i].resolution = resolution]
             /\ UNCHANGED probe
      BY <3>0
    <3>2. /\ resolution \in Resolutions
          /\ noise = "none" => resolution = probe[i].res
      BY <1>1, <3>1, ConfigsType DEF ConfigsRead
    <3>3. info'[i].init = TRUE /\ info'[i].resolution = resolution
      BY <1>1, <3>1 DEF CheckerTypes, InfoType
    <3>4. /\ \A p \in Probes \ {i} : info'[p] = info[p] /\ probe'[p] = probe[p]
          /\ faults' \in Nat /\ faults' >= faults
          /\ faults' = 0 => noise = "none"
      BY <1>1, <3>1, NoiseCounts DEF CheckerTypes
    <3>5. SetInv'
      BY <2>1, <3>2, <3>3 DEF SetInv
    <3>6. faults' = 0 => TrackedNext(i)
      BY <2>1, <3>1, <3>2, <3>3, <3>4 DEF TrackedNext
    <3> QED
      BY <2>1, <3>4, <3>5, <3>6, StepKeepsTrack
         DEF TrackInv, SettingUp, Tracked, TrackedNext
  <2> QED
    BY <2>2, <2>3
<1>4. CASE SetResolution
  <2>1. at = "set" /\ unpowered' = unpowered
    BY <1>4 DEF SetResolution, OnBus
  <2>2. CASE info[i].null
    <3>1. /\ info' = info /\ probe' = probe /\ faults' = faults
          /\ NextTurn("malloc", "start")
      BY <1>4, <2>2 DEF SetResolution, IsInit, driverVars
    <3>2. at' \in {"malloc", "start"}
      BY <1>1, <3>1, TurnOver
    <3> QED
      BY <1>1, <2>1, <2>2, <3>1, <3>2, TurnKeepsTrack
         DEF TrackedNext, SettingUp, SetInv
  <2>3. CASE ~info[i].null
    <3>1. IsInit(i) /\ CheckResolution(info[i].resolution)
      BY <2>1, <2>3 DEF TrackedInv, SetInv, IsInit, CheckResolution
    <3>2. /\ info' = info /\ probe' = probe
          /\ at' = "write" /\ i' = i
          /\ \E noise \in Noises : Noise(noise)
      BY <1>4, <3>1 DEF SetResolution, ReadTriggers, Goto
    <3>3. faults' \in Nat /\ faults' >= faults
      BY <1>1, <3>2, NoiseCounts
    <3>4. i \notin unpowered /\ faults' = 0 => TrackedNext(i)
      BY <1>1, <2>1, <3>2, <3>3 DEF TrackedInv, TrackInv, Tracked, TrackedNext
    <3> QED
      BY <2>1, <3>2, <3>3, <3>4, StepKeepsTrack
         DEF TrackInv, SettingUp, SetInv, Tracked, TrackedNext
  <2> QED
    BY <2>2, <2>3
<1>5. CASE WriteResolution
  <2>1. PICK done \in BOOLEAN, noise \in Noises :
           /\ Noise(noise)
           /\ done = (noise # "missed")
           /\ \E r \in CASE noise = "none" -> {RESOLUTION}
                         [] noise = "missed" -> {probe[i].res}
                         [] noise = "garbled" -> Resolutions :
                 probe' = [probe EXCEPT ![i].res = r]
           /\ UNCHANGED info
           /\ Goto(IF done THEN "verify" ELSE "reread")
    BY <1>5 DEF WriteResolution, WriteScratchpad
  <2>2. at = "write" /\ i' = i /\ unpowered' = unpowered
    BY <1>5, <2>1 DEF WriteResolution, OnBus, Goto
  <2>3. /\ \A p \in Probes \ {i} : info'[p] = info[p] /\ probe'[p] = probe[p]
        /\ faults' \in Nat /\ faults' >= faults
        /\ noise # "none" => faults' = faults + 1
    BY <1>1, <2>1, NoiseCounts DEF CheckerTypes
  <2>4. CASE noise = "missed"
    <3>1. at' = "reread" /\ faults' >= 1
      <4>1. ~done
        BY <2>1, <2>4
      <4> QED
        BY <1>1, <2>1, <2>3, <2>4, <4>1 DEF Goto
    <3> QED
      BY <2>2, <2>3, <3>1, StepKeepsTrack DEF TrackInv, SettingUp, SetInv
  <2>5. CASE noise # "missed"
    <3>1. at' = "verify"
      BY <2>1, <2>5 DEF Goto
    <3>2. faults' = 0 => probe'[i].res = RESOLUTION
      <4>1. CASE noise = "none"
        BY <1>1, <2>1, <4>1 DEF CheckerTypes, ProbeType
      <4>2. CASE noise # "none"
        BY <1>1, <2>3, <4>2
      <4> QED
        BY <4>1, <4>2
    <3> QED
      BY <2>2, <2>3, <3>1, <3>2, StepKeepsTrack DEF TrackInv, SettingUp, SetInv
  <2> QED
    BY <2>4, <2>5
<1>6. CASE VerifyResolution
  <2>1. PICK same \in BOOLEAN, noise \in Noises :
           /\ Noise(noise)
           /\ same = (noise = "none" /\ probe[i].res = RESOLUTION)
           /\ info' = IF same THEN [info EXCEPT ![i].resolution = RESOLUTION]
                      ELSE info
           /\ UNCHANGED probe
           /\ IF same THEN NextTurn("malloc", "start") ELSE Goto("reread")
    BY <1>6 DEF VerifyResolution, Verify
  <2>2. at = "verify" /\ unpowered' = unpowered
    BY <1>6 DEF VerifyResolution, OnBus
  <2>3. /\ \A p \in Probes \ {i} : info'[p] = info[p] /\ probe'[p] = probe[p]
        /\ faults' \in Nat /\ faults' >= faults
        /\ noise # "none" => faults' = faults + 1
    BY <1>1, <2>1, NoiseCounts DEF CheckerTypes
  <2>4. CASE same
    <3>1. NextTurn("malloc", "start") /\ TrackedNext(i)
      <4>1. /\ info' = [info EXCEPT ![i].resolution = RESOLUTION]
            /\ probe' = probe /\ probe[i].res = RESOLUTION
        BY <2>1, <2>4
      <4> QED
        BY <1>1, <2>1, <2>4, <4>1 DEF CheckerTypes, InfoType, TrackedNext
    <3>2. at' \in {"malloc", "start"}
      BY <1>1, <3>1, TurnOver
    <3> QED
      BY <2>2, <2>3, <3>1, <3>2, TurnKeepsTrack DEF SettingUp, SetInv
  <2>5. CASE ~same
    <3>1. at' = "reread" /\ i' = i
      BY <2>1, <2>5 DEF Goto
    <3>2. i \notin unpowered /\ faults <= 1 => faults' >= 1
      <4>1. noise # "none" \/ probe[i].res # RESOLUTION
        BY <2>1, <2>5
      <4>2. i \notin unpowered /\ faults = 0 => probe[i].res = RESOLUTION
        BY <2>2 DEF TrackedInv, TrackInv
      <4> QED
        BY <1>1, <2>3, <4>1, <4>2
    <3> QED
      BY <1>1, <2>2, <2>3, <3>1, <3>2, StepKeepsTrack DEF TrackInv, SettingUp, SetInv
  <2> QED
    BY <2>4, <2>5
<1>7. CASE RereadResolution
  <2>0. PICK noise \in Noises :
           /\ Noise(noise)
           /\ \E resolution \in ConfigsRead(i, noise) :
                 info' = [info EXCEPT ![i].resolution = resolution]
           /\ UNCHANGED probe
    BY <1>7 DEF RereadResolution, ReadResolution
  <2>1. PICK resolution \in ConfigsRead(i, noise) :
           /\ Noise(noise)
           /\ info' = [info EXCEPT ![i].resolution = resolution]
           /\ UNCHANGED probe
    BY <2>0
  <2>2. /\ at = "reread" /\ unpowered' = unpowered
        /\ NextTurn("malloc", "start")
    BY <1>7 DEF RereadResolution, OnBus
  <2>3. /\ \A p \in Probes \ {i} : info'[p] = info[p] /\ probe'[p] = probe[p]
        /\ faults' \in Nat /\ faults' >= faults
        /\ noise # "none" => faults' = faults + 1
    BY <1>1, <2>1, NoiseCounts DEF CheckerTypes
  <2>4. ASSUME faults' <= 1, i \notin unpowered
        PROVE  TrackedNext(i)
    <3>1. faults = 1
      BY <1>1, <2>2, <2>3, <2>4 DEF TrackedInv, TrackInv
    <3>2. noise = "none"
      BY <2>3, <2>4, <3>1
    <3> QED
      BY <1>1, <2>1, <3>2 DEF ConfigsRead, TrackedNext, CheckerTypes, InfoType
  <2>5. at' \in {"malloc", "start"}
    BY <1>1, <2>2, TurnOver
  <2> QED
    BY <2>2, <2>3, <2>4, <2>5, TurnKeepsTrack DEF SettingUp, SetInv
<1> QED
  BY <1>2, <1>3, <1>4, <1>5, <1>6, <1>7 DEF SetUp

LEMMA RestKeepsTrack ==
    ASSUME TrackedInv, Round \/ Converts \/ PowerFails
    PROVE  TrackInv' /\ SetInv'
<1>1. CheckerTypes /\ faults \in Nat
  BY DEF TrackedInv, CheckerTypes
<1>2. CASE Round
  <2>1. info' = info /\ unpowered' = unpowered
    BY <1>2 DEF Round, Convert, ConvertAll, WaitForConversion, Read, AskMutex,
                SetTemperature, GiveMutex, Pace, Delay, driverVars
  <2>2. ~SettingUp /\ ~SettingUp'
    BY <1>2 DEF Round, Convert, WaitForConversion, Read, AskMutex, SetTemperature,
                GiveMutex, Pace, Delay, NextRound, Goto, NextTurn, SettingUp
  <2>3. faults' \in Nat /\ faults' >= faults
    BY <1>1, <1>2, NoiseCounts
       DEF Round, Convert, WaitForConversion, Read, AskMutex, SetTemperature,
           GiveMutex, Pace, Delay, driverVars
  <2>4. \A p \in Probes : probe'[p].res = probe[p].res
    <3>1. CASE Convert
      BY <3>1 DEF Convert, ConvertAll
    <3>2. CASE WaitForConversion \/ Read
      BY <3>2 DEF WaitForConversion, Read, AfterWait
    <3> QED
      BY <1>2, <3>1, <3>2 DEF Round, AskMutex, SetTemperature, GiveMutex, Pace,
                              Delay, driverVars
  <2> QED
    BY <1>1, <2>1, <2>2, <2>3, <2>4
       DEF TrackedInv, TrackInv, SetInv, Tracked, SettingUp
<1>3. CASE Converts
  <2>1. PICK p \in Probes : ConversionEnds(p) /\ UNCHANGED <<taskVars, unpowered>>
    BY <1>3 DEF Converts
  <2>2. \A q \in Probes : probe'[q].res = probe[q].res
    BY <1>1, <2>1 DEF ConversionEnds, CheckerTypes, ProbeType
  <2>3. info' = info /\ faults' = faults /\ at' = at /\ i' = i /\ unpowered' = unpowered
    BY <2>1 DEF ConversionEnds, taskVars
  <2> QED
    BY <1>1, <2>2, <2>3 DEF TrackedInv, TrackInv, SetInv, Tracked, SettingUp, CheckerTypes
<1>4. CASE PowerFails
  <2>1. PICK p \in Probes : LosesPower(p) /\ unpowered' = unpowered \cup {p}
    BY <1>4 DEF PowerFails
  <2>2. \A q \in Probes \ {p} : probe'[q] = probe[q]
    BY <1>1, <2>1 DEF LosesPower, CheckerTypes
  <2>3. info' = info /\ faults' = faults + 1 /\ at' = at /\ i' = i
    BY <1>4, <2>1 DEF PowerFails, LosesPower
  <2>4. SetInv'
    BY <2>3 DEF TrackedInv, SetInv
  <2>5. CASE faults = 0
    BY <1>1, <2>1, <2>2, <2>3, <2>4, <2>5
       DEF TrackedInv, TrackInv, Tracked, SettingUp, CheckerTypes
  <2>6. CASE faults # 0
    BY <1>1, <2>3, <2>4, <2>6 DEF TrackInv
  <2> QED
    BY <2>5, <2>6
<1> QED
  BY <1>2, <1>3, <1>4

LEMMA TrackedInvInductive ==
    /\ Init => TrackedInv
    /\ TrackedInv /\ [Next]_vars => TrackedInv'
<1>1. ASSUME Init PROVE TrackedInv
  <2>1. CheckerTypes /\ at = "malloc" /\ i = 1 /\ Probes \subseteq Nat \ {0}
    BY <1>1, CheckerTypesInductive, CountAssumption DEF Init
  <2> QED
    BY <2>1 DEF TrackedInv, TrackInv, SetInv, SettingUp
<1>2. ASSUME TrackedInv, [Next]_vars
      PROVE  TrackedInv'
  <2>1. CheckerTypes'
    BY <1>2, CheckerTypesInductive DEF TrackedInv
  <2>2. CASE UNCHANGED vars \/ Locking("checker") \/ Mode \/ StopWorkingTask
    <3>1. UNCHANGED <<driverVars, taskVars, unpowered>>
      BY <2>2 DEF vars, Locking, Mode, GetTemperatures, StopWorkingTask, Elsewhere
    <3> QED
      BY <1>2, <2>1, <3>1
         DEF driverVars, taskVars, TrackedInv, TrackInv, SetInv, SettingUp, Tracked
  <2>3. CASE SetUp
    BY <1>2, <2>1, <2>3, SetUpKeepsTrack DEF TrackedInv
  <2>4. CASE Round \/ Converts \/ PowerFails
    BY <1>2, <2>1, <2>4, RestKeepsTrack DEF TrackedInv
  <2> QED
    BY <1>2, <2>2, <2>3, <2>4 DEF Next, Checker
<1> QED
  BY <1>1, <1>2

(* Whatever single transaction of the set-up of the probes fails, the      *)
(* driver ends up with the resolution that each probe really has           *)
(* (ds18b20.c 308-344).                                                    *)
THEOREM ResolutionsCorrect == Spec => []ResolutionTracked
<1>1. TrackedInv /\ MutexInv /\ FewMutexes => ResolutionTracked
  <2> SUFFICES ASSUME TrackedInv, MutexInv, FewMutexes
               PROVE  ResolutionTracked
    OBVIOUS
  <2>1. TypeOK
    BY DEF TypeOK, TrackedInv, CheckerTypes, ProbeType, InfoType, MutexInv,
           MutexTypes, FewMutexes
  <2> QED
    BY <2>1 DEF ResolutionTracked, TrackedInv, TrackInv, Tracked
<1> QED
  BY <1>1, TrackedInvInductive, MutexInvInductive, PTL DEF Spec

-----------------------------------------------------------------------------
(* The age of what is published.                                           *)

Slow(p) == WaitTicks(1) < ConversionTicks(probe[p].res)
Quick(p) == ConversionTicks(probe[p].res) < WaitTicks(1)

Reading == {"read", "publish", "publishing", "published"}
AllRead == {"publish", "publishing", "published", "pace", "delay", "start"}

(* The conversions that may still run when a round begins, and the results *)
(* that a round may end with.                                              *)
Left == IF 0 \in ReadTicks THEN {"none", "now"} ELSE {"none"}
Results == IF 0 \in ReadTicks THEN {"now", "before"} ELSE {"now"}

(* A probe no slower than the wait: its conversion of this round may       *)
(* outlive the wait, never one of an earlier round.                        *)
EvenProbe(p) ==
    /\ at = "wait" =>
          /\ probe[p].conv \in {"none", "now"} \cup Results
          /\ \/ disturbed.now \/ probe[p].conv # "none"
             \/ probe[p].temp \in Results
          /\ \/ disturbed.now \/ disturbed.before \/ probe[p].conv = "before"
             \/ probe[p].temp \in Recent
    /\ at \in RoundStates \ {"wait"} =>
          /\ probe[p].conv \in {"none", "now"}
          /\ disturbed.now \/ probe[p].conv = "now" \/ probe[p].temp \in Results
    /\ at \in AllRead => probe[p].conv \in Left
    /\ at \in Reading =>
          /\ disturbed.now \/ disturbed.before \/ probe[p].temp \in Recent
          /\ \/ disturbed.now \/ disturbed.before
             \/ temps[p] \in {"zero", "invalid"} \cup Recent

(* A probe that is quicker than the wait: none outlives it.                *)
QuickProbe(p) ==
    /\ at = "wait" =>
          /\ probe[p].conv \in {"none", "now"}
          /\ disturbed.now \/ probe[p].conv = "now" \/ probe[p].temp = "now"
    /\ at \in RoundStates \ {"wait"} => probe[p].conv = "none"
    /\ at \in Reading =>
          /\ disturbed.now \/ probe[p].temp = "now"
          /\ disturbed.now \/ temps[p] \in {"zero", "invalid", "now"}

AgesOf(p) == (~Slow(p) => EvenProbe(p)) /\ (Quick(p) => QuickProbe(p))

(* Before a probe is read there is no reading of it, and the wait is all    *)
(* that has elapsed.                                                       *)
RoundInv ==
    /\ SettingUp => disturbed.now /\ \A p \in Probes : probe[p].conv = "none"
    /\ at \notin Reading \cup {"pace", "delay"} => \A p \in Probes : temps[p] = "zero"
    /\ at = "read" => elapsed = WaitTicks(1)

FreshInv == RoundInv /\ \A p \in Probes : AgesOf(p)

LEMMA TicksType ==
    ASSUME NEW r
    PROVE  ConversionTicks(r) \in 0..T_CONV
<1>1. CASE r \in Resolutions
  <2>1. 2^0 = 1 /\ 2^1 = 2 /\ 2^2 = 4 /\ 2^3 = 8
    OBVIOUS
  <2>2. \E d \in {1, 2, 4, 8} : d = 2^(12 - r)
    <3>1. r = 9 \/ r = 10 \/ r = 11 \/ r = 12
      BY <1>1 DEF Resolutions
    <3>2. 12 - r \in 0..3
      BY <3>1
    <3>3. \A k \in 0..3 : 2^k \in {1, 2, 4, 8}
      <4>1. \A k \in 0..3 : k = 0 \/ k = 1 \/ k = 2 \/ k = 3
        OBVIOUS
      <4> QED
        BY <2>1, <4>1, Zenon
    <3> QED
      BY <3>2, <3>3
  <2>3. PICK d \in {1, 2, 4, 8} : d = 2^(12 - r)
    BY <2>2
  <2>4. ConversionTicks(r) = (75 + d - 1) \div d
    BY <1>1, <2>3 DEF ConversionTicks, CheckResolution, T_CONV
  <2>5. (75 + d - 1) \div d \in 0..75
    OBVIOUS
  <2> QED
    BY <2>4, <2>5 DEF T_CONV
<1>2. CASE r \notin Resolutions
  BY <1>2 DEF ConversionTicks, CheckResolution, T_CONV
<1> QED
  BY <1>1, <1>2

LEMMA WaitType == WaitTicks(1) \in 0..T_CONV
  BY TicksType DEF WaitTicks, T_CONV

LEMMA SpeedsKept ==
    ASSUME info' = info, NEW p \in Probes, probe'[p].res = probe[p].res
    PROVE  /\ WaitTicks(1)' = WaitTicks(1)
           /\ Slow(p)' = Slow(p) /\ Quick(p)' = Quick(p)
  BY DEF Slow, Quick, WaitTicks, IsInit

LEMMA SetUpKeepsFresh ==
    ASSUME CheckerTypes, FreshInv, SetUp
    PROVE  FreshInv'
<1>1. /\ SettingUp /\ temps' = temps /\ disturbed' = disturbed
      /\ at \notin Reading \cup {"pace", "delay"}
  BY DEF SetUp, MallocDevice, InitDevice, SetResolution, WriteResolution,
         VerifyResolution, RereadResolution, SettingUp, OnBus, Reading
<1>2. \A p \in Probes : probe'[p].conv = probe[p].conv
  BY DEF SetUp, MallocDevice, InitDevice, SetResolution, WriteResolution,
         VerifyResolution, RereadResolution, Malloc, InitInfo, ReadTriggers,
         WriteScratchpad, Verify, ReadResolution, driverVars, CheckerTypes, ProbeType
<1>3. at' \in SetUpStates \cup {"start"}
  <2>1. ASSUME NextTurn("malloc", "start") PROVE at' \in {"malloc", "start"}
    BY <2>1 DEF NextTurn
  <2> QED
    BY <2>1 DEF SetUp, MallocDevice, InitDevice, SetResolution, WriteResolution,
         VerifyResolution, RereadResolution, Goto, SetUpStates
<1>4. disturbed.now /\ \A p \in Probes : probe'[p].conv = "none" /\ temps[p] = "zero"
  BY <1>1, <1>2 DEF FreshInv, RoundInv
<1>5. RoundInv'
  BY <1>1, <1>3, <1>4 DEF RoundInv, SetUpStates
<1>6. ASSUME NEW p \in Probes
      PROVE  AgesOf(p)'
  <2>1. /\ disturbed'.now /\ probe'[p].conv = "none"
        /\ at' \notin Reading /\ at' # "wait"
    BY <1>1, <1>3, <1>4 DEF SetUpStates, Reading
  <2> QED
    BY <2>1 DEF AgesOf, EvenProbe, QuickProbe, Left
<1> QED
  BY <1>5, <1>6 DEF FreshInv

LEMMA ConvertKeepsFresh ==
    ASSUME CheckerTypes, FreshInv, Convert
    PROVE  FreshInv'
<1>1. PICK heard \in SUBSET Probes :
         /\ ConvertAll(heard)
         /\ disturbed' = [now |-> heard # Probes, before |-> disturbed.now]
  BY DEF Convert
<1>2. at = "start" /\ at' = "wait" /\ temps' = temps /\ info' = info
  BY <1>1 DEF Convert, ConvertAll, Goto
<1>3. disturbed'.now = (heard # Probes) /\ disturbed'.before = disturbed.now
  BY <1>1
<1>4. RoundInv'
  BY <1>2 DEF FreshInv, RoundInv, Reading, SettingUp
<1>5. ASSUME NEW p \in Probes
      PROVE  AgesOf(p)'
  <2>1. /\ probe'[p].conv = IF probe[p].conv = "none" /\ p \in heard THEN "now"
                            ELSE Older(probe[p].conv)
        /\ probe'[p].temp = Older(probe[p].temp)
        /\ probe'[p].res = probe[p].res
    BY <1>1 DEF ConvertAll
  <2>2. Slow(p)' = Slow(p) /\ Quick(p)' = Quick(p) /\ AgesOf(p)
    BY <1>2, <2>1, SpeedsKept DEF FreshInv
  <2>3. ASSUME ~Slow(p) PROVE EvenProbe(p)'
    <3>1. /\ probe[p].conv \in Left
          /\ disturbed.now \/ probe[p].conv = "now" \/ probe[p].temp \in Results
      BY <1>2, <2>2, <2>3 DEF AgesOf, EvenProbe, AllRead, RoundStates
    <3>2. CASE probe[p].conv = "none"
      <4>1. \/ heard # Probes /\ probe'[p].conv \in {"none", "now"}
            \/ heard = Probes /\ probe'[p].conv = "now"
        BY <2>1, <3>2 DEF Older
      <4>2. disturbed.now \/ probe'[p].temp \in Recent
        BY <2>1, <3>1, <3>2 DEF Older, Results, Recent
      <4> QED
        BY <1>2, <1>3, <4>1, <4>2 DEF EvenProbe, AllRead, Reading
    <3>3. CASE probe[p].conv = "now"
      <4>1. probe'[p].conv = "before" /\ "before" \in Results
        BY <2>1, <3>1, <3>3 DEF Older, Left, Results
      <4> QED
        BY <1>2, <4>1 DEF EvenProbe, AllRead, Reading
    <3> QED
      BY <3>1, <3>2, <3>3 DEF Left
  <2>4. ASSUME Quick(p) PROVE QuickProbe(p)'
    <3>1. probe[p].conv = "none"
      BY <1>2, <2>2, <2>4 DEF AgesOf, QuickProbe, RoundStates
    <3>2. \/ heard # Probes /\ probe'[p].conv \in {"none", "now"}
          \/ heard = Probes /\ probe'[p].conv = "now"
      BY <2>1, <3>1 DEF Older
    <3> QED
      BY <1>2, <1>3, <3>2 DEF QuickProbe, Reading
  <2> QED
    BY <2>2, <2>3, <2>4 DEF AgesOf
<1> QED
  BY <1>4, <1>5 DEF FreshInv

(* What some ticks do to a probe: its conversion ends if it is over.       *)
LEMMA TicksPass ==
    ASSUME NEW ticks, probe' = AfterWait(ticks), NEW p \in Probes
    PROVE  /\ probe'[p].res = probe[p].res
           /\ probe[p].conv = "none" \/ ~Over(p, ticks) =>
                 probe'[p].conv = probe[p].conv /\ probe'[p].temp = probe[p].temp
           /\ probe[p].conv # "none" /\ Over(p, ticks) =>
                 probe'[p].conv = "none" /\ probe'[p].temp = probe[p].conv
  BY DEF AfterWait

LEMMA WaitKeepsFresh ==
    ASSUME CheckerTypes, FreshInv, WaitForConversion
    PROVE  FreshInv'
<1>1. /\ at = "wait" /\ at' = "read" /\ info' = info /\ disturbed' = disturbed
      /\ temps' = temps /\ elapsed' = WaitTicks(1)
      /\ probe' = AfterWait(WaitTicks(1))
  BY DEF WaitForConversion, Goto
<1>2. \A p \in Probes : temps[p] = "zero"
  BY <1>1 DEF FreshInv, RoundInv, Reading
<1>3. RoundInv'
  <2>1. WaitTicks(1)' = WaitTicks(1)
    BY <1>1 DEF WaitTicks, IsInit
  <2> QED
    BY <1>1, <2>1 DEF RoundInv, Reading, SettingUp
<1>4. ASSUME NEW p \in Probes
      PROVE  AgesOf(p)'
  <2>1. ConversionTicks(probe[p].res) \in Nat /\ WaitTicks(1) \in Nat
    BY TicksType, WaitType DEF T_CONV
  <2>2. Slow(p)' = Slow(p) /\ Quick(p)' = Quick(p) /\ AgesOf(p)
    BY <1>1, TicksPass, SpeedsKept DEF FreshInv
  <2>3. ASSUME ~Slow(p) PROVE EvenProbe(p)'
    <3>1. /\ probe[p].conv \in {"none", "now", "before"}
          /\ probe[p].conv = "before" => "before" \in Results
          /\ \/ disturbed.now \/ probe[p].conv # "none"
             \/ probe[p].temp \in Results
          /\ \/ disturbed.now \/ disturbed.before \/ probe[p].conv = "before"
             \/ probe[p].temp \in Recent
      BY <1>1, <2>2, <2>3 DEF AgesOf, EvenProbe, Results
    <3>2. probe[p].conv = "before" => Over(p, WaitTicks(1))
      BY <2>1, <2>3 DEF Over, Slow
    <3>3. /\ probe'[p].conv \in {"none", "now"}
          /\ disturbed.now \/ probe'[p].conv = "now" \/ probe'[p].temp \in Results
          /\ disturbed.now \/ disturbed.before \/ probe'[p].temp \in Recent
      BY <1>1, <3>1, <3>2, TicksPass DEF Results, Recent
    <3> QED
      BY <1>1, <1>2, <3>3 DEF EvenProbe, AllRead
  <2>4. ASSUME Quick(p) PROVE QuickProbe(p)'
    <3>1. /\ probe[p].conv \in {"none", "now"}
          /\ disturbed.now \/ probe[p].conv = "now" \/ probe[p].temp = "now"
      BY <1>1, <2>2, <2>4 DEF AgesOf, QuickProbe
    <3>2. Over(p, WaitTicks(1))
      BY <2>4 DEF Over, Quick
    <3>3. /\ probe'[p].conv = "none"
          /\ disturbed.now \/ probe'[p].temp = "now"
      BY <1>1, <3>1, <3>2, TicksPass
    <3> QED
      BY <1>1, <1>2, <3>3 DEF QuickProbe
  <2> QED
    BY <2>2, <2>3, <2>4 DEF AgesOf
<1> QED
  BY <1>3, <1>4 DEF FreshInv

LEMMA ReadingIsTemp ==
    ASSUME CheckerTypes, NEW noise \in Noises
    PROVE  ReadTemp(i, noise) \in {"zero", "invalid", probe[i].temp}
  BY DEF ReadTemp, Noises

LEMMA ReadKeepsFresh ==
    ASSUME CheckerTypes, FreshInv, Read
    PROVE  FreshInv'
<1>1. PICK noise \in Noises : temps' = [temps EXCEPT ![i] = ReadTemp(i, noise)]
  BY DEF Read
<1>2. \/ at' = "read" /\ elapsed' = elapsed /\ probe' = probe
      \/ /\ at' = "publish"
         /\ \E d \in ReadTicks : probe' = AfterWait(elapsed + d)
  BY DEF Read, NextTurn
<1>3. /\ at = "read" /\ info' = info /\ disturbed' = disturbed
      /\ elapsed = WaitTicks(1) /\ WaitTicks(1)' = WaitTicks(1)
      /\ i \in Probes
  BY DEF Read, FreshInv, RoundInv, WaitTicks, IsInit, CheckerTypes
<1>4. RoundInv'
  BY <1>2, <1>3 DEF RoundInv, Reading, SettingUp
<1>5. ASSUME NEW p \in Probes
      PROVE  AgesOf(p)'
  <2>1. ConversionTicks(probe[p].res) \in Nat /\ WaitTicks(1) \in Nat
    BY TicksType, WaitType DEF T_CONV
  <2>2. probe'[p].res = probe[p].res
    BY <1>2, TicksPass
  <2>3. Slow(p)' = Slow(p) /\ Quick(p)' = Quick(p) /\ AgesOf(p)
    BY <1>3, <2>2, SpeedsKept DEF FreshInv
  <2>4. temps'[p] = temps[p] \/ temps'[p] \in {"zero", "invalid", probe[p].temp}
    BY <1>1, <1>3, ReadingIsTemp DEF CheckerTypes
  <2>5. ASSUME ~Slow(p) PROVE EvenProbe(p)'
    <3>1. /\ probe[p].conv \in {"none", "now"}
          /\ disturbed.now \/ probe[p].conv = "now" \/ probe[p].temp \in Results
          /\ disturbed.now \/ disturbed.before \/ probe[p].temp \in Recent
          /\ \/ disturbed.now \/ disturbed.before
             \/ temps[p] \in {"zero", "invalid"} \cup Recent
      BY <1>3, <2>3, <2>5 DEF AgesOf, EvenProbe, Reading, RoundStates
    <3>2. \/ disturbed.now \/ disturbed.before
          \/ temps'[p] \in {"zero", "invalid"} \cup Recent
      BY <2>4, <3>1
    <3>3. /\ probe'[p].conv \in {"none", "now"}
          /\ disturbed.now \/ probe'[p].conv = "now" \/ probe'[p].temp \in Results
          /\ disturbed.now \/ disturbed.before \/ probe'[p].temp \in Recent
          /\ at' = "read" \/ probe'[p].conv \in Left
      <4>1. CASE at' = "read" /\ probe' = probe
        BY <3>1, <4>1
      <4>2. CASE at' = "publish" /\ \E d \in ReadTicks : probe' = AfterWait(elapsed + d)
        <5>1. PICK d \in ReadTicks : probe' = AfterWait(elapsed + d)
          BY <4>2
        <5>2. d \in Nat
          BY TicksAssumption
        <5>3. d # 0 => Over(p, elapsed + d)
          BY <1>3, <2>1, <2>5, <5>2 DEF Over, Slow
        <5>4. d = 0 => "now" \in Left
          BY DEF Left
        <5>5. "none" \in Left /\ "now" \in Results /\ "now" \in Recent
          BY DEF Left, Results, Recent
        <5> QED
          BY <3>1, <5>1, <5>3, <5>4, <5>5, TicksPass
      <4> QED
        BY <1>2, <4>1, <4>2
    <3> QED
      BY <1>2, <1>3, <3>2, <3>3 DEF EvenProbe, AllRead
  <2>6. ASSUME Quick(p) PROVE QuickProbe(p)'
    <3>1. /\ probe[p].conv = "none"
          /\ disturbed.now \/ probe[p].temp = "now"
          /\ disturbed.now \/ temps[p] \in {"zero", "invalid", "now"}
      BY <1>3, <2>3, <2>6 DEF AgesOf, QuickProbe, Reading, RoundStates
    <3>2. probe'[p].conv = "none" /\ probe'[p].temp = probe[p].temp
      BY <1>2, <3>1, TicksPass
    <3>3. disturbed.now \/ temps'[p] \in {"zero", "invalid", "now"}
      BY <2>4, <3>1
    <3> QED
      BY <1>2, <1>3, <3>1, <3>2, <3>3 DEF QuickProbe
  <2> QED
    BY <2>3, <2>5, <2>6 DEF AgesOf
<1> QED
  BY <1>4, <1>5 DEF FreshInv

LEMMA RestKeepsFresh ==
    ASSUME CheckerTypes, FreshInv,
           AskMutex \/ SetTemperature \/ GiveMutex \/ Pace \/ Delay
    PROVE  FreshInv'
<1>1. UNCHANGED <<probe, info, disturbed>>
  BY DEF AskMutex, SetTemperature, GiveMutex, Pace, Delay, driverVars
<1>2. \/ /\ at \in {"publish", "publishing", "published"} /\ temps' = temps
         /\ at' \in {"publish", "publishing", "published", "pace"}
      \/ at = "pace" /\ at' = "delay" /\ temps' = temps
      \/ /\ at \in {"pace", "delay"} /\ at' = "start"
         /\ temps' = [p \in Probes |-> "zero"]
  BY DEF AskMutex, SetTemperature, GiveMutex, Pace, Delay, NextRound, Goto, NextTurn
<1>3. RoundInv'
  BY <1>2 DEF RoundInv, Reading, SettingUp
<1>4. ASSUME NEW p \in Probes
      PROVE  AgesOf(p)'
  <2>1. Slow(p)' = Slow(p) /\ Quick(p)' = Quick(p) /\ AgesOf(p)
    BY <1>1, SpeedsKept DEF FreshInv
  <2>2. EvenProbe(p) => EvenProbe(p)'
    BY <1>1, <1>2 DEF EvenProbe, Reading, AllRead, RoundStates
  <2>3. QuickProbe(p) => QuickProbe(p)'
    BY <1>1, <1>2 DEF QuickProbe, Reading, RoundStates
  <2> QED
    BY <2>1, <2>2, <2>3 DEF AgesOf
<1> QED
  BY <1>3, <1>4 DEF FreshInv

LEMMA ConvertsKeepFresh ==
    ASSUME CheckerTypes, FreshInv, Converts
    PROVE  FreshInv'
<1>1. PICK p \in Probes : ConversionEnds(p) /\ UNCHANGED taskVars
  BY DEF Converts
<1>2. /\ probe'[p].conv = "none" /\ probe'[p].temp = probe[p].conv
      /\ probe'[p].res = probe[p].res /\ probe[p].conv # "none"
      /\ \A q \in Probes \ {p} : probe'[q] = probe[q]
  BY <1>1 DEF ConversionEnds, CheckerTypes, ProbeType
<1>3. /\ info' = info /\ at' = at /\ temps' = temps /\ disturbed' = disturbed
      /\ elapsed' = elapsed
  BY <1>1 DEF ConversionEnds, taskVars
<1>4. RoundInv'
  <2>1. ~SettingUp /\ WaitTicks(1)' = WaitTicks(1)
    BY <1>2, <1>3 DEF FreshInv, RoundInv, WaitTicks, IsInit
  <2> QED
    BY <1>3, <2>1 DEF FreshInv, RoundInv, SettingUp
<1>5. ASSUME NEW q \in Probes
      PROVE  AgesOf(q)'
  <2>1. Slow(q)' = Slow(q) /\ Quick(q)' = Quick(q) /\ AgesOf(q)
    BY <1>2, <1>3, SpeedsKept DEF FreshInv
  <2>2. CASE q # p
    BY <1>2, <1>3, <2>1, <2>2 DEF AgesOf, EvenProbe, QuickProbe
  <2>3. CASE q = p
    <3>1. "now" \in Results /\ "none" \in Left /\ "now" \in Recent
          /\ Results \subseteq Recent
      BY DEF Results, Left, Recent
    <3>2. EvenProbe(q) => EvenProbe(q)'
      BY <1>2, <1>3, <2>3, <3>1 DEF EvenProbe, AllRead, Reading, RoundStates
    <3>3. QuickProbe(q) => QuickProbe(q)'
      BY <1>2, <1>3, <2>3 DEF QuickProbe, Reading, RoundStates
    <3> QED
      BY <2>1, <3>2, <3>3 DEF AgesOf
  <2> QED
    BY <2>2, <2>3
<1> QED
  BY <1>4, <1>5 DEF FreshInv

LEMMA PowerFailsKeepsFresh ==
    ASSUME CheckerTypes, FreshInv, PowerFails
    PROVE  FreshInv'
<1>1. PICK p \in Probes : LosesPower(p)
  BY DEF PowerFails
<1>2. /\ info' = info /\ at' = at /\ temps' = temps /\ elapsed' = elapsed
      /\ disturbed'.now = TRUE
      /\ probe'[p].conv = "none"
      /\ \A q \in Probes \ {p} : probe'[q] = probe[q]
  BY <1>1 DEF PowerFails, LosesPower, CheckerTypes, ProbeType
<1>3. RoundInv'
  <2>1. WaitTicks(1)' = WaitTicks(1)
    BY <1>2 DEF WaitTicks, IsInit
  <2> QED
    BY <1>2, <2>1 DEF FreshInv, RoundInv, SettingUp
<1>4. ASSUME NEW q \in Probes
      PROVE  AgesOf(q)'
  <2>1. CASE q = p
    <3>1. "none" \in Left
      BY DEF Left
    <3> QED
      BY <1>2, <2>1, <3>1 DEF AgesOf, EvenProbe, QuickProbe
  <2>2. CASE q # p
    <3>1. Slow(q)' = Slow(q) /\ Quick(q)' = Quick(q) /\ AgesOf(q)
      BY <1>2, <2>2, SpeedsKept DEF FreshInv
    <3> QED
      BY <1>2, <2>2, <3>1 DEF AgesOf, EvenProbe, QuickProbe
  <2> QED
    BY <2>1, <2>2
<1> QED
  BY <1>3, <1>4 DEF FreshInv

LEMMA FreshInvInductive ==
    /\ Init => FreshInv
    /\ CheckerTypes /\ FreshInv /\ [Next]_vars => FreshInv'
<1>1. Init => FreshInv
  BY DEF Init, DriverInit, FreshInv, RoundInv, AgesOf, EvenProbe, QuickProbe,
         RoundStates, Reading, AllRead
<1>2. ASSUME CheckerTypes, FreshInv, [Next]_vars
      PROVE  FreshInv'
  <2>1. CASE UNCHANGED vars \/ Locking("checker") \/ Mode \/ StopWorkingTask
    <3>1. UNCHANGED <<driverVars, taskVars, unpowered>>
      BY <2>1 DEF vars, Locking, Mode, GetTemperatures, StopWorkingTask, Elsewhere
    <3>2. UNCHANGED <<probe, info, at, temps, elapsed, disturbed>>
      BY <3>1 DEF driverVars, taskVars
    <3> QED
      BY <1>2, <3>2 DEF FreshInv, RoundInv, AgesOf, EvenProbe, QuickProbe, Slow, Quick,
                        SettingUp, WaitTicks, IsInit
  <2> QED
    BY <1>2, <2>1, SetUpKeepsFresh, ConvertKeepsFresh, WaitKeepsFresh, ReadKeepsFresh,
       RestKeepsFresh, ConvertsKeepFresh, PowerFailsKeepsFresh DEF Next, Checker, Round
<1> QED
  BY <1>1, <1>2

(* For any number of probes with any resolutions, a temperature that is     *)
(* published is a failed reading, or of this round in a probe quicker than *)
(* the wait, or a round old at most (two, if nothing takes a tick) in one  *)
(* that takes all of it, unless a command to convert was not heard          *)
(* (temperatureChecker.c 145-154, ds18b20.c 149-165).                      *)
THEOREM FreshReadings == Spec => []ReadingsAreFresh
<1>1. FreshInv => ReadingsAreFresh
  <2> SUFFICES ASSUME FreshInv, at \in {"publish", "publishing", "published"},
                      NEW p \in Probes, temps[p] \notin {"zero", "invalid"}
               PROVE  /\ ConversionTicks(probe[p].res) < WaitTicks(1) =>
                            temps[p] = "now" \/ disturbed.now
                      /\ ConversionTicks(probe[p].res) = WaitTicks(1) =>
                            temps[p] \in Recent \/ disturbed.now \/ disturbed.before
    BY DEF ReadingsAreFresh
  <2>1. ConversionTicks(probe[p].res) \in Nat /\ WaitTicks(1) \in Nat
    BY TicksType, WaitType DEF T_CONV
  <2>2. Quick(p) => temps[p] = "now" \/ disturbed.now
    BY DEF FreshInv, AgesOf, QuickProbe, Reading
  <2>3. ~Slow(p) => temps[p] \in Recent \/ disturbed.now \/ disturbed.before
    BY DEF FreshInv, AgesOf, EvenProbe, Reading
  <2> QED
    BY <2>1, <2>2, <2>3 DEF Quick, Slow
<1> QED
  BY <1>1, CheckerTypesInductive, FreshInvInductive, PTL DEF Spec

-----------------------------------------------------------------------------
(* The pace of the rounds.                                                 *)

PaceInv ==
    /\ at \in {"read", "publish", "publishing", "published", "pace", "delay"} =>
          \/ at = "read" /\ elapsed = WaitTicks(1)
          \/ at # "read" /\ \E d \in ReadTicks : elapsed = WaitTicks(1) + d
    /\ at = "delay" => elapsed < Period
    /\ lasted.ticks # 0 => ~SettingUp
    /\ RoundIsPaced

(* The difference is unsigned: a task held up past the period sleeps until  *)
(* the counter has come round to its end.                                  *)
LEMMA SleepsToPeriod ==
    ASSUME NEW ticks \in Nat, ticks < Period + CounterSize
    PROVE  \/ ticks + Sleep(ticks) = Period
           \/ ticks > Period /\ ticks + Sleep(ticks) = Period + CounterSize
<1> DEFINE x == Period - ticks
<1>1. x \in Int /\ CounterSize \in Nat \ {0} /\ Period < CounterSize
  BY TicksAssumption
<1>2. CASE ticks <= Period
  <2>1. x \in 0..CounterSize - 1
    BY <1>2, TicksAssumption
  <2>2. x % CounterSize = x
    BY <1>1, <2>1
  <2> QED
    BY <2>2, TicksAssumption DEF Sleep
<1>3. CASE ticks > Period
  <2>1. x + CounterSize \in 0..CounterSize - 1
    BY <1>3, TicksAssumption
  <2>2. x % CounterSize = x + CounterSize
    BY <1>1, <1>3, <2>1
  <2> QED
    BY <1>3, <2>2, TicksAssumption DEF Sleep
<1> QED
  BY <1>2, <1>3, TicksAssumption

LEMMA PaceInvInductive ==
    /\ Init => PaceInv
    /\ CheckerTypes /\ PaceInv /\ [Next]_vars => PaceInv'
<1>1. Init => PaceInv
  BY DEF Init, PaceInv, RoundIsPaced
<1>2. ASSUME CheckerTypes, PaceInv, [Next]_vars
      PROVE  PaceInv'
  <2>1. WaitTicks(1) \in Nat
    BY WaitType DEF T_CONV
  <2>2. CASE SetUp
    <3>1. lasted' = lasted /\ SettingUp
      BY <2>2 DEF SetUp, MallocDevice, InitDevice, SetResolution, WriteResolution,
                  VerifyResolution, RereadResolution, OnBus, SettingUp
    <3>2. at' \in SetUpStates \cup {"start"}
      <4>1. ASSUME NextTurn("malloc", "start") PROVE at' \in {"malloc", "start"}
        BY <4>1 DEF NextTurn
      <4> QED
        BY <2>2, <4>1 DEF SetUp, MallocDevice, InitDevice, SetResolution,
             WriteResolution, VerifyResolution, RereadResolution, Goto, SetUpStates
    <3> QED
      BY <1>2, <3>1, <3>2 DEF PaceInv, RoundIsPaced, SetUpStates
  <2>3. CASE UNCHANGED vars \/ Locking("checker") \/ Mode \/ StopWorkingTask \/ Converts \/ PowerFails
    <3>1. info' = info /\ at' = at /\ elapsed' = elapsed /\ lasted' = lasted
      BY <2>3 DEF vars, Locking, Mode, GetTemperatures, StopWorkingTask, Elsewhere, Converts, PowerFails,
                  ConversionEnds, LosesPower, driverVars, taskVars
    <3> QED
      BY <1>2, <3>1 DEF PaceInv, RoundIsPaced, SettingUp, WaitTicks, IsInit
  <2>4. CASE Convert
    <3>1. at' = "wait" /\ info' = info /\ lasted'.ticks = 0 /\ ~SettingUp /\ ~SettingUp'
      BY <2>4 DEF Convert, ConvertAll, Goto, SettingUp
    <3> QED
      BY <1>2, <3>1 DEF PaceInv, RoundIsPaced, WaitTicks, IsInit
  <2>5. CASE WaitForConversion
    <3>1. /\ at' = "read" /\ info' = info /\ lasted' = lasted
          /\ elapsed' = WaitTicks(1) /\ ~SettingUp /\ ~SettingUp'
      BY <2>5 DEF WaitForConversion, Goto, SettingUp
    <3> QED
      BY <1>2, <3>1 DEF PaceInv, RoundIsPaced, WaitTicks, IsInit
  <2>6. CASE Read
    <3>1. /\ at = "read" /\ info' = info /\ lasted' = lasted /\ ~SettingUp'
          /\ \/ at' = "read" /\ elapsed' = elapsed
             \/ /\ at' = "publish"
                /\ \E d \in ReadTicks : elapsed' = elapsed + d
      BY <2>6 DEF Read, NextTurn, SettingUp
    <3> QED
      BY <1>2, <3>1 DEF PaceInv, RoundIsPaced, WaitTicks, IsInit
  <2>7. CASE AskMutex \/ SetTemperature \/ GiveMutex
    <3>1. /\ info' = info /\ lasted' = lasted /\ elapsed' = elapsed
          /\ at \in {"publish", "publishing", "published"}
          /\ at' \in {"publish", "publishing", "published", "pace"}
      BY <2>7 DEF AskMutex, SetTemperature, GiveMutex, Goto, NextTurn, driverVars
    <3> QED
      BY <1>2, <3>1 DEF PaceInv, RoundIsPaced, WaitTicks, IsInit, SettingUp
  <2>8. CASE Pace
    <3>1. PICK d \in ReadTicks : elapsed = WaitTicks(1) + d
      BY <1>2, <2>8 DEF Pace, PaceInv
    <3>2. elapsed \in Nat /\ Period \in Nat
      BY <2>1, <3>1, TicksAssumption
    <3>3. info' = info /\ at = "pace" /\ (elapsed < Period => elapsed' = elapsed)
      BY <2>8 DEF Pace, driverVars
    <3>4. WaitTicks(1)' = WaitTicks(1)
      BY <3>3 DEF WaitTicks, IsInit
    <3>5. CASE elapsed < Period
      BY <1>2, <2>8, <3>1, <3>3, <3>4, <3>5 DEF Pace, PaceInv, RoundIsPaced, Goto, SettingUp
    <3>6. CASE ~(elapsed < Period)
      <4>1. lasted' = [ticks |-> elapsed, lapse |-> 0] /\ at' = "start"
        BY <2>8, <3>6 DEF Pace, NextRound, Goto
      <4>2. lasted'.ticks = elapsed /\ elapsed >= Period
        BY <3>2, <3>6, <4>1
      <4> QED
        BY <3>1, <3>4, <4>1, <4>2 DEF PaceInv, RoundIsPaced, SettingUp
    <3> QED
      BY <3>5, <3>6
  <2>9. CASE Delay
    <3>1. PICK lapse \in Lapses :
             lasted' = [ticks |-> elapsed + lapse + Sleep(elapsed + lapse),
                        lapse |-> lapse]
      BY <2>9 DEF Delay
    <3>2. PICK d \in ReadTicks : elapsed = WaitTicks(1) + d
      BY <1>2, <2>9 DEF Delay, PaceInv
    <3>3. elapsed \in Nat /\ elapsed < Period /\ lapse \in 0..CounterSize - 1
      BY <1>2, <2>1, <2>9, <3>2, TicksAssumption DEF Delay, PaceInv
    <3>4. elapsed + lapse \in Nat /\ elapsed + lapse < Period + CounterSize
      BY <3>3, TicksAssumption
    <3>5. \/ lasted'.ticks = Period
          \/ elapsed + lapse > Period /\ lasted'.ticks = Period + CounterSize
      BY <3>1, <3>4, SleepsToPeriod
    <3>6. elapsed + lapse > Period => lasted'.lapse > 0
      BY <3>1, <3>3, TicksAssumption
    <3>7. RoundIsPaced'
      BY <3>5, <3>6, TicksAssumption DEF RoundIsPaced
    <3>8. at' = "start"
      BY <2>9 DEF Delay, NextRound, Goto
    <3> QED
      BY <3>7, <3>8 DEF PaceInv, SettingUp
  <2> QED
    BY <1>2, <2>2, <2>3, <2>4, <2>5, <2>6, <2>7, <2>8, <2>9 DEF Next, Checker, Round
<1> QED
  BY <1>1, <1>2

(* For any period, lapse and width of the counter, a round lasts a period,  *)
(* its wait and readings, or a whole turn of the counter more than a       *)
(* period (temperatureChecker.c 164-170).                                  *)
THEOREM RoundsArePaced == Spec => []RoundIsPaced
<1>1. PaceInv => RoundIsPaced
  BY DEF PaceInv
<1> QED
  BY <1>1, CheckerTypesInductive, PaceInvInductive, PTL DEF Spec
====
