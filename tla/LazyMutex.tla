---- MODULE LazyMutex ----
(***************************************************************************)
(* A mutex that whoever first asks for it creates, without a lock:         *)
(* temperatureMutex (src/src/temperatureChecker.c 41-47), and in the same  *)
(* words pwmMutex and periodMutex (src/src/valveController.c 38-52).       *)
(* The function is called again to give the mutex back. A task may be      *)
(* deleted while it has the mutex (src/src/dispatcher.c 42), and nobody    *)
(* gives it back then.                                                     *)
(***************************************************************************)
EXTENDS Integers, Sequences

CONSTANTS Users     \* the tasks that use it

ASSUME HolderAssumption == {"free", "dead"} \cap Users = {}

VARIABLES
    handle,     \* the static handle: 0 is NULL
    holder,     \* for each mutex created, who holds it, "free" or "dead"
    user        \* for each task: where it is, and the handle it uses

mutexVars == <<handle, holder, user>>

Outside == [at |-> "out", own |-> 0, h |-> 0]

MutexInit == /\ handle = 0
             /\ holder = <<>>
             /\ user = [t \in Users |-> Outside]

GotoM(t, at) == user' = [user EXCEPT ![t].at = at]

Ask(t) == /\ user[t].at = "out"
          /\ IF handle = 0 THEN GotoM(t, "create")
             ELSE user' = [user EXCEPT ![t] = [at |-> "take", own |-> 0, h |-> handle]]
          /\ UNCHANGED <<handle, holder>>

Create(t) == /\ user[t].at = "create"
             /\ holder' = Append(holder, "free")
             /\ handle' = Len(holder')
             /\ user' = [user EXCEPT ![t].at = "return", ![t].own = Len(holder')]

(* The handle is read again, unless the compiler kept it in a register.    *)
ReturnHandle(t) ==
    /\ user[t].at = "return"
    /\ \E h \in {handle, user[t].own} :
          user' = [user EXCEPT ![t] = [at |-> "take", own |-> 0, h |-> h]]
    /\ UNCHANGED <<handle, holder>>

(* Mutant: the section is entered although the mutex is taken.             *)
Take_timesOut(t) == /\ user[t].at = "take"
                    /\ GotoM(t, "in")
                    /\ UNCHANGED <<handle, holder>>

Take(t) == /\ user[t].at = "take"
           /\ holder[user[t].h] = "free"
           /\ holder' = [holder EXCEPT ![user[t].h] = t]
           /\ GotoM(t, "in")
           /\ UNCHANGED handle

(* At the end of the section the handle is asked for again.                *)
Leave(t) == /\ user[t].at = "in"
            /\ user' = [user EXCEPT ![t].at = "give", ![t].h = handle]
            /\ UNCHANGED <<handle, holder>>

(* Mutant: the mutex is not given back.                                    *)
Give_missing(t) == /\ user[t].at = "give"
                   /\ user' = [user EXCEPT ![t] = Outside]
                   /\ UNCHANGED <<handle, holder>>

(* xSemaphoreGive: of a free mutex it fails, and nobody looks; of another  *)
(* task's mutex it fails an assertion, which resets the device.            *)
Give(t) ==
    /\ user[t].at = "give"
    /\ LET who == holder[user[t].h]
       IN  IF who \in {t, "free"}
             THEN /\ holder' = [holder EXCEPT ![user[t].h] = "free"]
                  /\ user' = [user EXCEPT ![t] = Outside]
             ELSE GotoM(t, "panic") /\ UNCHANGED holder
    /\ UNCHANGED handle

(* The task is deleted, and another begins in its place.                   *)
Delete(t) == /\ user[t].at # "out"
             /\ user' = [user EXCEPT ![t] = Outside]
             /\ holder' = [m \in DOMAIN holder |-> IF holder[m] = t THEN "dead"
                                                   ELSE holder[m]]
             /\ UNCHANGED handle

(* A mutex that was taken by a task deleted since.                         *)
Orphaned == \E m \in DOMAIN holder : holder[m] = "dead"

Panicked == \E t \in Users : user[t].at = "panic"

MutexStep(t) == Ask(t) \/ Create(t) \/ ReturnHandle(t) \/ Take(t) \/ Give(t)
                \/ Delete(t)

-----------------------------------------------------------------------------
(* Two tasks are inside at once, or a task gives another's mutex, only     *)
(* when two of them have each found no mutex and made one.                 *)
OneMutexExcludes ==
    \/ Len(holder) > 1
    \/ /\ ~Panicked
       /\ \A t, u \in Users :
             user[t].at = "in" /\ user[u].at = "in" => t = u

(* However the first uses race, in the end at most one task is inside,     *)
(* unless the race ended in a reset.                                       *)
RaceHeals ==
    <>[](\/ Panicked
         \/ \A t, u \in Users :
               user[t].at = "in" /\ user[u].at = "in" => t = u)
====
