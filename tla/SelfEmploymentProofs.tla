---- MODULE SelfEmploymentProofs ----
(***************************************************************************)
(* selfEmployment ends on its tick for every length of time, every width   *)
(* of the tick counter that holds it and every tick it may start at, alone *)
(* and as one of the modes of Alarm; and on one core the start-up of Alarm *)
(* makes every queue before a task waits on it.                            *)
(***************************************************************************)
EXTENDS Alarm, FiniteSetTheorems, TLAPS

(* A number within one modulus of 0..m-1 is reduced by one addition.       *)
LEMMA ModOnce ==
    ASSUME NEW m \in Nat \ {0}, NEW x \in Int
    PROVE  /\ x \in 0..m - 1 => x % m = x
           /\ x \in m..2 * m - 1 => x % m = x - m
           /\ x \in -m..-1 => x % m = x + m
<1>1. ASSUME x \in 0..m - 1 PROVE x % m = x
  BY <1>1
<1>2. ASSUME x \in m..2 * m - 1 PROVE x % m = x - m
  BY <1>2
<1>3. ASSUME x \in -m..-1 PROVE x % m = x + m
  BY <1>3
<1> QED
  BY <1>1, <1>2, <1>3

LEMMA TicksType ==
    /\ \A m \in Minutes : TimeInTicks(m) \in Nat
    /\ DelayTicks \in Nat
<1>1. ASSUME NEW m \in Minutes PROVE TimeInTicks(m) \in Nat
  <2>1. m * 60 * TickMs \in Nat
    BY MinutesAssumption, TickAssumption
  <2> QED
    BY <2>1, TickAssumption DEF TimeInTicks
<1>2. DelayTicks \in Nat
  BY TickAssumption DEF DelayTicks
<1> QED
  BY <1>1, <1>2

TypeInv == /\ tick \in 0..TickMod - 1
           /\ lastTick \in 0..TickMod - 1
           /\ minutes \in Minutes
           /\ elapsed \in Nat
           /\ at \in {"check", "delay", "suspended"}

(* The counter shows the ticks passed since lastTick, wrapped at most once. *)
LinkInv == tick = lastTick + elapsed \/ tick = lastTick + elapsed - TickMod

(* The mode goes on only while its time is not up, so each check comes at  *)
(* most one delay after it.                                                *)
BoundInv ==
    LET t == TimeInTicks(minutes)
    IN  /\ at = "delay" => elapsed <= t
        /\ at = "check" => elapsed <= t + DelayTicks + MaxLag
        /\ at = "suspended" => elapsed \in t + 1..t + DelayTicks + MaxLag

IndInv == TypeInv /\ LinkInv /\ BoundInv

(* The unsigned difference is the number of ticks that passed.             *)
LEMMA Difference ==
    ASSUME IndInv
    PROVE  (tick - lastTick) % TickMod = elapsed
<1>1. elapsed < TickMod
  BY TicksType, NoLap, LagAssumption, TickAssumption
     DEF IndInv, TypeInv, BoundInv, ElapsedBound
<1>2. tick - lastTick = elapsed \/ tick - lastTick = elapsed - TickMod
  BY TickAssumption DEF IndInv, TypeInv, LinkInv
<1>3. tick - lastTick \in Int /\ elapsed \in 0..TickMod - 1
  BY <1>1, TickAssumption DEF IndInv, TypeInv
<1> QED
  BY <1>2, <1>3, ModOnce, TickAssumption

LEMMA InitEstablishes == Init => IndInv
  BY TicksType, TickAssumption, LagAssumption
     DEF Init, IndInv, TypeInv, LinkInv, BoundInv

LEMMA DelayPreserves ==
    ASSUME IndInv, Delay
    PROVE  IndInv'
<1>1. PICK passed \in DelayTicks..DelayTicks + MaxLag :
        /\ tick' = (tick + passed) % TickMod
        /\ elapsed' = IF elapsed + passed < ElapsedBound(minutes)
                        THEN elapsed + passed ELSE ElapsedBound(minutes)
  BY DEF Delay
<1> DEFINE t == TimeInTicks(minutes)
<1>2. t \in Nat /\ DelayTicks \in Nat /\ passed \in Nat /\ MaxLag \in Nat
  BY TicksType, LagAssumption DEF IndInv, TypeInv
<1>3. elapsed <= t /\ elapsed \in Nat
  BY DEF IndInv, TypeInv, BoundInv, Delay
<1>4. ElapsedBound(minutes) = t + DelayTicks + MaxLag + 1
  BY DEF ElapsedBound
<1>5. t + DelayTicks + MaxLag + 1 < TickMod
  BY NoLap, <1>4 DEF IndInv, TypeInv
<1> HIDE DEF t
<1>6. elapsed' = elapsed + passed /\ elapsed' <= t + DelayTicks + MaxLag
  BY <1>1, <1>2, <1>3, <1>4
<1>7. tick + passed \in Int /\ tick + passed \in 0..2 * TickMod - 1
  BY <1>2, <1>5, TickAssumption, <1>1 DEF IndInv, TypeInv
<1>8. \/ tick' = tick + passed /\ tick' \in 0..TickMod - 1
      \/ tick' = tick + passed - TickMod /\ tick' \in 0..TickMod - 1
  <2> DEFINE x == tick + passed
  <2>1. x \in Int /\ tick' = x % TickMod
    BY <1>1, <1>7
  <2>2. x \in 0..TickMod - 1 \/ x \in TickMod..2 * TickMod - 1
    BY <1>7, TickAssumption
  <2> HIDE DEF x
  <2>3. \/ x \in 0..TickMod - 1 /\ tick' = x
        \/ x \in TickMod..2 * TickMod - 1 /\ tick' = x - TickMod
    BY <2>1, <2>2, ModOnce, TickAssumption
  <2> QED
    BY <2>1, <2>3, <1>1, <1>2, TickAssumption DEF x, IndInv, TypeInv
<1>9. LinkInv'
  BY <1>2, <1>3, <1>5, <1>6, <1>8, TickAssumption
     DEF Delay, IndInv, TypeInv, LinkInv
<1>10. TypeInv'
  BY <1>2, <1>3, <1>6, <1>8 DEF Delay, IndInv, TypeInv
<1>11. BoundInv'
  BY <1>6 DEF Delay, BoundInv, t, TimeInTicks
<1> QED
  BY <1>9, <1>10, <1>11 DEF IndInv

LEMMA StepPreserves ==
    ASSUME IndInv, [Next]_vars
    PROVE  IndInv'
<1>1. TimeInTicks(minutes) \in Nat /\ DelayTicks \in Nat /\ MaxLag \in Nat
  BY TicksType, LagAssumption DEF IndInv, TypeInv
<1>2. CASE Finish
  BY <1>1, <1>2, Difference
     DEF Finish, TimeIsUp, IndInv, TypeInv, LinkInv, BoundInv, TimeInTicks
<1>3. CASE GoOn
  BY <1>1, <1>3, Difference
     DEF GoOn, TimeIsUp, IndInv, TypeInv, LinkInv, BoundInv, TimeInTicks
<1>4. CASE UNCHANGED vars
  BY <1>4 DEF vars, IndInv, TypeInv, LinkInv, BoundInv, TimeInTicks
<1> QED
  BY <1>2, <1>3, <1>4, DelayPreserves DEF Next

LEMMA IndInvImplies == IndInv => EndsOnItsTick
  BY TicksType, LagAssumption DEF IndInv, TypeInv, BoundInv, EndsOnItsTick

(* The mode ends neither before its tick nor more than a delay after it.   *)
THEOREM EndsOnItsTickCorrect == Spec => []EndsOnItsTick
  BY InitEstablishes, StepPreserves, IndInvImplies, PTL DEF Spec

-----------------------------------------------------------------------------
(* The mode among others.                                                  *)

(* Each change of the mode starts the time anew, at whatever tick it is.   *)
LEMMA ModesPreserve ==
    ASSUME IndInv, [AlarmNext]_alarmVars
    PROVE  IndInv'
<1>1. CASE UNCHANGED vars
  BY <1>1, StepPreserves
<1>2. CASE SelfStep
  BY <1>2, StepPreserves DEF SelfStep
<1>3. CASE CreateMode /\ ~UNCHANGED vars
  <2>1. /\ minutes' \in Minutes
        /\ lastTick' = tick
        /\ elapsed' = 0
        /\ at' = "check"
        /\ tick' = tick
    BY <1>3 DEF CreateMode
  <2>2. TypeInv' /\ LinkInv'
    BY <2>1, TickAssumption DEF IndInv, TypeInv, LinkInv
  <2>3. BoundInv'
    <3>1. \A m \in Minutes : 0 <= TimeInTicks(m) + DelayTicks + MaxLag
      BY TicksType, LagAssumption
    <3>2. TimeInTicks(minutes)' = TimeInTicks(minutes')
      BY DEF TimeInTicks
    <3> QED
      BY <2>1, <3>1, <3>2 DEF BoundInv, DelayTicks
  <2> QED
    BY <2>2, <2>3 DEF IndInv
<1> QED
  BY <1>1, <1>2, <1>3
     DEF AlarmNext, StartUp, StopMode, Dispatcher, Mode, OtherCalls, SendBeep,
         BuzzerTask, alarmVars

(* Also when the operator changes modes as often as he likes, the mode     *)
(* ends on its tick (operationModes.c 73).                                 *)
THEOREM AlarmEndsOnItsTick == AlarmSpec => []EndsOnItsTick
<1>1. AlarmInit => IndInv
  BY InitEstablishes DEF AlarmInit
<1> QED
  BY <1>1, ModesPreserve, IndInvImplies, PTL DEF AlarmSpec

-----------------------------------------------------------------------------
(* The start-up.                                                           *)

LEMMA Started ==
    /\ Len(StartOrder) = 7 /\ DOMAIN StartOrder = 1..7 /\ Len(Queues) = 3
    /\ StartOrder[1] = "dispatcher"
    /\ \A k \in 2..7 : StartOrder[k] \in {"reader", "writer", "server", "checker",
                                          "valve", "buzzer"}
    /\ Queues[1] = "Json_outgoing" /\ Queues[3] = "Sound"
<1>1. \A k \in 2..7 : k = 2 \/ k = 3 \/ k = 4 \/ k = 5 \/ k = 6 \/ k = 7
  OBVIOUS
<1> QED
  BY <1>1 DEF StartOrder, Queues

LEMMA OneMore ==
    ASSUME NEW S, NEW n \in Nat, NEW m \in Nat, m = n + 1,
           IsFiniteSet(S), Cardinality(S) <= n, NEW x
    PROVE  IsFiniteSet(S \cup {x}) /\ Cardinality(S \cup {x}) <= m
<1> DEFINE c == Cardinality(S)
           d == Cardinality(S \cup {x})
<1>1. IsFiniteSet(S \cup {x}) /\ (d = c \/ d = c + 1)
  BY FS_AddElement
<1>2. c \in Nat /\ c <= n
  BY FS_CardinalityType
<1> HIDE DEF c, d
<1>3. d <= m
  BY <1>1, <1>2
<1> QED
  BY <1>1, <1>3 DEF d

(* All tasks but the main task and the dispatcher.                         *)
Others == {"reader", "writer", "server", "checker", "valve", "buzzer"}

LEMMA OthersAreSix == IsFiniteSet(Others) /\ Cardinality(Others) <= 6
<1> DEFINE A == {"reader"}
           B == A \cup {"writer"}
           C == B \cup {"server"}
           D == C \cup {"checker"}
           E == D \cup {"valve"}
           F == E \cup {"buzzer"}
<1>1. IsFiniteSet(A) /\ Cardinality(A) <= 1
  BY FS_Singleton
<1>2. IsFiniteSet(B) /\ Cardinality(B) <= 2
  <2> HIDE DEF A
  <2> QED
    BY <1>1, OneMore, 1 + 1 = 2
<1>3. IsFiniteSet(C) /\ Cardinality(C) <= 3
  <2> HIDE DEF B
  <2> QED
    BY <1>2, OneMore, 2 + 1 = 3
<1>4. IsFiniteSet(D) /\ Cardinality(D) <= 4
  <2> HIDE DEF C
  <2> QED
    BY <1>3, OneMore, 3 + 1 = 4
<1>5. IsFiniteSet(E) /\ Cardinality(E) <= 5
  <2> HIDE DEF D
  <2> QED
    BY <1>4, OneMore, 4 + 1 = 5
<1>6. IsFiniteSet(F) /\ Cardinality(F) <= 6
  <2> HIDE DEF E
  <2> QED
    BY <1>5, OneMore, 5 + 1 = 6
<1>7. Others = F
  BY DEF Others
<1> QED
  BY <1>6, <1>7

LEMMA TasksAre == Tasks = {"main", "dispatcher"} \cup Others /\ IsFiniteSet(Tasks)
<1>1. Tasks \subseteq {"main", "dispatcher"} \cup Others
  BY Started DEF Tasks, Others
<1>2. {"main", "dispatcher"} \cup Others \subseteq Tasks
  BY Started DEF Tasks, Others, StartOrder
<1>3. IsFiniteSet((Others \cup {"main"}) \cup {"dispatcher"})
  BY OthersAreSix, FS_AddElement
<1>4. (Others \cup {"main"}) \cup {"dispatcher"} = {"main", "dispatcher"} \cup Others
  OBVIOUS
<1> QED
  BY <1>1, <1>2, <1>3, <1>4

(* On one core a task runs only when none of a higher priority is busy.    *)
LEMMA OneCore ==
    ASSUME cores = 1, NEW t, Runs(t), NEW u \in Tasks, Busy(u)
    PROVE  ~(Priority(u) > Priority(t))
<1> DEFINE Higher == {v \in Tasks : Busy(v) /\ Priority(v) > Priority(t)}
<1>1. IsFiniteSet(Higher) /\ Cardinality(Higher) < 1
  <2>1. Higher \in SUBSET Tasks
    OBVIOUS
  <2>2. Cardinality(Higher) < 1
    BY DEF Runs
  <2> HIDE DEF Higher
  <2> QED
    BY <2>1, <2>2, TasksAre, FS_Subset
<1>2. Higher = {}
  <2> HIDE DEF Higher
  <2> QED
    BY <1>1, FS_CardinalityType, FS_EmptySet
<1> QED
  BY <1>2

(* Types, and the order of the start-up on one core.                       *)
BootTypes ==
    /\ cores \in {1, 2}
    /\ begun \in 0..7
    /\ ready \subseteq {StartOrder[k] : k \in 1..begun}
    /\ made \in 0..3
    /\ "dispatcher" \in ready <=> made = 3
    /\ failed \in BOOLEAN

ModeTypes ==
    /\ request \in {-1} \cup Requests
    /\ sends \in [mode : 0..5, dispatcher : 0..6]
    /\ waiting \in 0..Capacity
    /\ heard \in 0..5
    /\ running # "none" \/ request # -1 => "dispatcher" \in ready

(* app_main goes past the dispatcher only when the queues are made.        *)
OrderInv == cores = 1 => ~failed /\ (begun <= 1 \/ made = 3)

BootInv == BootTypes /\ ModeTypes /\ OrderInv

LEMMA BusyTask ==
    ASSUME BootTypes, NEW t, t # "main", Busy(t)
    PROVE  /\ t \in {StartOrder[k] : k \in 1..begun} /\ t \notin ready
           /\ begun >= 1
           /\ t # "dispatcher" => begun >= 2
<1>1. PICK k \in 1..begun : StartOrder[k] = t
  BY DEF Busy
<1>2. t # "dispatcher" => k # 1
  BY <1>1, Started
<1> QED
  BY <1>1, <1>2 DEF Busy, BootTypes

LEMMA StartTaskPreserves ==
    ASSUME BootInv, StartTask
    PROVE  BootTypes' /\ OrderInv'
<1>1. begun < 7 /\ begun' = begun + 1 /\ UNCHANGED <<cores, ready, made, failed>>
  BY Started DEF StartTask, Runs, Busy
<1>2. BootTypes'
  BY <1>1 DEF BootInv, BootTypes
<1>3. ASSUME cores = 1, begun >= 1
      PROVE  made = 3
  <2>1. "dispatcher" \in Tasks /\ Priority("dispatcher") > Priority("main")
    BY TasksAre DEF Priority
  <2>2. ~Busy("dispatcher")
    BY <1>3, <2>1, OneCore DEF StartTask
  <2>3. "dispatcher" \in ready
    BY <1>3, <2>2, Started DEF Busy, BootInv, BootTypes
  <2> QED
    BY <2>3 DEF BootInv, BootTypes
<1> QED
  BY <1>1, <1>2, <1>3 DEF BootInv, BootTypes, OrderInv

LEMMA CreateQueuePreserves ==
    ASSUME BootInv, CreateQueue
    PROVE  BootTypes' /\ OrderInv' /\ ready \subseteq ready'
<1>1. Busy("dispatcher")
  BY DEF CreateQueue, Runs
<1>2. /\ "dispatcher" \in {StartOrder[k] : k \in 1..begun}
      /\ "dispatcher" \notin ready
  BY <1>1, BusyTask DEF BootInv
<1>3. made < 3 /\ made' = made + 1
  BY <1>2 DEF CreateQueue, BootInv, BootTypes
<1>4. UNCHANGED <<cores, begun, failed>>
  BY DEF CreateQueue
<1>5. ready' = IF made' = 3 THEN ready \cup {"dispatcher"} ELSE ready
  BY Started DEF CreateQueue
<1>6. BootTypes'
  BY <1>2, <1>3, <1>4, <1>5 DEF BootInv, BootTypes
<1>7. OrderInv'
  BY <1>3, <1>4 DEF BootInv, BootTypes, OrderInv
<1> QED
  BY <1>5, <1>6, <1>7

LEMMA FirstWaitPreserves ==
    ASSUME BootInv, ~failed, NEW t, FirstWait(t)
    PROVE  BootTypes' /\ OrderInv' /\ ready \subseteq ready'
<1>1. t # "main" /\ t # "dispatcher" /\ Busy(t)
  BY DEF FirstWait, Runs
<1>2. t \in {StartOrder[k] : k \in 1..begun} /\ begun >= 2
  BY <1>1, BusyTask DEF BootInv
<1>3. ready' = ready \cup {t} /\ UNCHANGED <<cores, begun, made>>
  BY DEF FirstWait
<1>4. failed' \in BOOLEAN
  BY DEF FirstWait
<1>5. BootTypes'
  BY <1>1, <1>2, <1>3, <1>4 DEF BootInv, BootTypes
<1>6. ASSUME cores = 1
      PROVE  ~failed' /\ made = 3
  <2>1. made = 3
    BY <1>2, <1>6 DEF BootInv, BootTypes, OrderInv
  <2>2. Exists("Json_outgoing") /\ Exists("Sound")
    BY <2>1, Started DEF Exists
  <2> QED
    BY <2>1, <2>2 DEF FirstWait
<1> QED
  BY <1>3, <1>5, <1>6 DEF OrderInv

(* The operator can ask for a mode only when every task is waiting.        *)
LEMMA AllReady ==
    ASSUME BootTypes, Cardinality(ready) = 7
    PROVE  "dispatcher" \in ready
<1> SUFFICES ASSUME "dispatcher" \notin ready
             PROVE  FALSE
  OBVIOUS
<1>1. ready \in SUBSET Others
  <2> SUFFICES ASSUME NEW t \in ready
               PROVE  t \in Others
    OBVIOUS
  <2>1. PICK k \in 1..begun : t = StartOrder[k]
    BY DEF BootTypes
  <2>2. k \in 2..7
    BY <2>1, Started DEF BootTypes
  <2> QED
    BY <2>1, <2>2, Started DEF Others
<1>2. IsFiniteSet(ready) /\ Cardinality(ready) <= Cardinality(Others)
  BY <1>1, OthersAreSix, FS_Subset
<1> QED
  BY <1>2, OthersAreSix, FS_CardinalityType

LEMMA BootInvInductive ==
    /\ AlarmInit => BootInv
    /\ BootInv /\ [AlarmNext]_alarmVars => BootInv'
<1>1. ASSUME AlarmInit
      PROVE  BootInv
  <2>1. BootTypes /\ OrderInv
    <3>1. cores \in {1, 2} /\ begun = 0 /\ ready = {} /\ made = 0 /\ ~failed
      BY <1>1 DEF AlarmInit
    <3>2. failed \in BOOLEAN
      BY <1>1 DEF AlarmInit
    <3> QED
      BY <3>1, <3>2 DEF BootTypes, OrderInv
  <2>2. ModeTypes
    BY <1>1, CapacityAssumption DEF AlarmInit, ModeTypes
  <2> QED
    BY <2>1, <2>2 DEF BootInv
<1> SUFFICES ASSUME BootInv, [AlarmNext]_alarmVars
             PROVE  BootInv'
  BY <1>1
<1>2. CASE UNCHANGED alarmVars
  BY <1>2 DEF alarmVars, bootVars, modeVars, soundVars, BootInv, BootTypes,
              ModeTypes, OrderInv
<1>3. CASE StartUp /\ ~failed
  <2>1. BootTypes' /\ OrderInv' /\ ready \subseteq ready'
    BY <1>3, StartTaskPreserves, CreateQueuePreserves, FirstWaitPreserves
       DEF StartUp, StartTask
  <2>2. ModeTypes'
    BY <1>3, <2>1 DEF StartUp, modeVars, soundVars, BootInv, ModeTypes
  <2> QED
    BY <2>1, <2>2 DEF BootInv
<1>4. ASSUME UNCHANGED bootVars
      PROVE  BootTypes' /\ OrderInv'
  BY <1>4 DEF bootVars, BootInv, BootTypes, OrderInv
<1>5. CASE StopMode
  <2>1. "dispatcher" \in ready
    BY <1>5, AllReady, Started DEF StopMode, BootInv
  <2>2. UNCHANGED bootVars
    BY <1>5 DEF StopMode
  <2>3. ModeTypes'
    BY <1>5, <2>1 DEF StopMode, bootVars, soundVars, BootInv, ModeTypes
  <2> QED
    BY <1>4, <2>2, <2>3 DEF BootInv
<1>6. CASE CreateMode
  <2>1. UNCHANGED bootVars /\ UNCHANGED soundVars /\ request' = -1 /\ request # -1
    BY <1>6 DEF CreateMode
  <2>2. request + 1 \in 0..6
    BY <2>1, RequestsAssumption DEF BootInv, ModeTypes
  <2>3. sends' \in [mode : 0..5, dispatcher : 0..6]
    BY <1>6, <2>2 DEF CreateMode, BootInv, ModeTypes
  <2>4. ModeTypes'
    BY <2>1, <2>3 DEF bootVars, soundVars, BootInv, ModeTypes
  <2> QED
    BY <1>4, <2>1, <2>4 DEF BootInv
<1>7. CASE SelfStep \/ OtherCalls
  <2>1. UNCHANGED bootVars
    BY <1>7 DEF SelfStep, OtherCalls
  <2>2. ModeTypes'
    BY <1>7 DEF SelfStep, OtherCalls, bootVars, soundVars, BootInv, ModeTypes
  <2> QED
    BY <1>4, <2>1, <2>2 DEF BootInv
<1>8. ASSUME NEW who \in {"mode", "dispatcher"}, SendBeep(who)
      PROVE  BootInv'
  <2>1. UNCHANGED bootVars
    BY <1>8 DEF SendBeep
  <2>2. sends' \in [mode : 0..5, dispatcher : 0..6]
    BY <1>8 DEF SendBeep, BootInv, ModeTypes
  <2>3. ModeTypes'
    BY <1>8, <2>2, CapacityAssumption DEF SendBeep, bootVars, BootInv, ModeTypes
  <2> QED
    BY <1>4, <2>1, <2>3 DEF BootInv
<1>9. CASE BuzzerTask
  <2>1. UNCHANGED bootVars
    BY <1>9 DEF BuzzerTask
  <2>2. ModeTypes'
    BY <1>9, CapacityAssumption
       DEF BuzzerTask, Receive, Sound, Pause, bootVars, modeVars, BootInv, ModeTypes
  <2> QED
    BY <1>4, <2>1, <2>2 DEF BootInv
<1> QED
  BY <1>2, <1>3, <1>5, <1>6, <1>7, <1>8, <1>9 DEF AlarmNext, Dispatcher, Mode

(* On one core no assertion fails during the start-up, for any capacity of  *)
(* the queue and any requests (main.c 36-40, dispatcher.c 78-80).          *)
THEOREM StartUpCorrect == AlarmSpec => []StartUpIsOrdered
<1>1. BootInv => StartUpIsOrdered
  BY Started DEF BootInv, BootTypes, ModeTypes, OrderInv, StartUpIsOrdered, AlarmTypeOK
<1> QED
  BY <1>1, BootInvInductive, PTL DEF AlarmSpec
====
