---- MODULE JsonQueuesProofs ----
(***************************************************************************)
(* Theorems about JsonQueues for any requests, statuses and capacity: every *)
(* heap object has exactly one owner, or nobody refers to it any more, and  *)
(* the answers leave in the order of the requests.                         *)
(***************************************************************************)
EXTENDS JsonQueues, TLAPS

USE DEF heap

(* The kinds of objects are told apart by their first component.           *)
LEMMA Kinds ==
    /\ \A a, b : Payload(a) = Payload(b) => a = b
    /\ \A a, b : Tree(a) = Tree(b) => a = b
    /\ \A a, b : Reply(a) = Reply(b) => a = b
    /\ \A a, b : Status(a) = Status(b) => a = b
    /\ \A a, b : Payload(a) # Tree(b) /\ Payload(a) # Reply(b) /\ Payload(a) # Status(b)
    /\ \A a, b : Tree(a) # Reply(b) /\ Tree(a) # Status(b) /\ Reply(a) # Status(b)
    /\ \A a, b : /\ Temps(a) # Payload(b) /\ Temps(a) # Tree(b)
                 /\ Temps(a) # Reply(b) /\ Temps(a) # Status(b)
    /\ \A a : Reply(a) \notin {NoTree, Returned} /\ Status(a) \notin {NoTree, Returned}
    /\ NoTree # Returned
<1>1. /\ \A a : Payload(a)[1] = "payload" /\ Payload(a)[2] = a
      /\ \A a : Tree(a)[1] = "tree" /\ Tree(a)[2] = a
      /\ \A a : Reply(a)[1] = "reply" /\ Reply(a)[2] = a
      /\ \A a : Status(a)[1] = "status" /\ Status(a)[2] = a
      /\ \A a : Temps(a)[1] = "temps"
      /\ NoTree[1] = "none" /\ Returned[1] = "returned"
  BY DEF Payload, Tree, Reply, Status, Temps, NoTree, Returned
<1> QED
  BY <1>1

LEMMA Appended ==
    ASSUME NEW S, NEW q \in Seq(S), IsInjective(q), NEW x \in S, x \notin ToSet(q)
    PROVE  /\ Append(q, x) \in Seq(S)
           /\ ToSet(Append(q, x)) = ToSet(q) \cup {x}
           /\ IsInjective(Append(q, x))
<1>1. /\ Append(q, x) \in Seq(S)
      /\ Len(Append(q, x)) = Len(q) + 1
      /\ \A i \in 1..Len(q) : Append(q, x)[i] = q[i]
      /\ Append(q, x)[Len(q) + 1] = x
      /\ Len(q) \in Nat
  OBVIOUS
<1> DEFINE r == Append(q, x)
<1>2. DOMAIN q = 1..Len(q) /\ DOMAIN r = 1..Len(q) + 1
  BY <1>1
<1>3. DOMAIN r = DOMAIN q \cup {Len(q) + 1} /\ Len(q) + 1 \notin DOMAIN q
  BY <1>1, <1>2
<1>4. /\ \A i \in DOMAIN q : r[i] = q[i]
      /\ r[Len(q) + 1] = x
  BY <1>1, <1>2
<1>5. r \in Seq(S)
  BY <1>1
<1> HIDE DEF r
<1>6. ToSet(r) = ToSet(q) \cup {x}
  BY <1>3, <1>4, Zenon DEF ToSet
<1>7. \A i \in DOMAIN q : q[i] # x
  BY Zenon DEF ToSet
<1>8. IsInjective(r)
  BY <1>3, <1>4, <1>7 DEF IsInjective
<1> QED
  BY <1>5, <1>6, <1>8 DEF r

LEMMA Taken ==
    ASSUME NEW S, NEW q \in Seq(S), IsInjective(q), q # <<>>
    PROVE  /\ Head(q) \in S /\ Head(q) \in ToSet(q)
           /\ Tail(q) \in Seq(S)
           /\ ToSet(Tail(q)) = ToSet(q) \ {Head(q)}
           /\ IsInjective(Tail(q))
           /\ Len(Tail(q)) <= Len(q)
<1>1. /\ Len(q) \in Nat \ {0}
      /\ Tail(q) \in Seq(S)
      /\ DOMAIN Tail(q) = 1..Len(q) - 1
      /\ Len(Tail(q)) = Len(q) - 1
      /\ DOMAIN q = 1..Len(q)
      /\ \A i \in 1..Len(q) - 1 : Tail(q)[i] = q[i + 1]
      /\ Head(q) = q[1]
      /\ Head(q) \in S
  OBVIOUS
<1>2. \A i \in DOMAIN Tail(q) : q[i + 1] # q[1] /\ i + 1 \in DOMAIN q
  BY <1>1 DEF IsInjective
<1>3. ToSet(Tail(q)) \subseteq ToSet(q) \ {Head(q)}
  BY <1>1, <1>2 DEF ToSet
<1>4. \A x \in ToSet(q) \ {Head(q)} : x \in ToSet(Tail(q))
  <2> SUFFICES ASSUME NEW i \in DOMAIN q, q[i] # Head(q)
               PROVE  q[i] \in ToSet(Tail(q))
    BY DEF ToSet
  <2>1. i - 1 \in DOMAIN Tail(q) /\ Tail(q)[i - 1] = q[i]
    BY <1>1
  <2> QED
    BY <2>1 DEF ToSet
<1>5. IsInjective(Tail(q))
  BY <1>1, <1>2 DEF IsInjective
<1>6. Head(q) \in ToSet(q)
  BY <1>1 DEF ToSet
<1> QED
  BY <1>1, <1>3, <1>4, <1>5, <1>6

(* xQueueSend on a queue that does not hold the item.                      *)
LEMMA SentOrLost ==
    ASSUME NEW S, NEW q \in Seq(S), IsInjective(q), Len(q) <= Capacity,
           NEW x \in S, x \notin ToSet(q), NEW y
    PROVE  /\ Sent(q, x) \in Seq(S)
           /\ IsInjective(Sent(q, x))
           /\ Len(Sent(q, x)) <= Capacity
           /\ \/ ToSet(Sent(q, x)) = ToSet(q) \cup {x} /\ LostOn(q, y) = {}
              \/ ToSet(Sent(q, x)) = ToSet(q) /\ LostOn(q, y) = {y}
<1>1. CASE Fits(q)
  BY <1>1, Appended, CapacityAssumption DEF Sent, LostOn, Fits
<1>2. CASE ~Fits(q)
  BY <1>2 DEF Sent, LostOn
<1> QED
  BY <1>1, <1>2
-----------------------------------------------------------------------------
(* The invariant.                                                          *)

Outgoing == {Reply(r) : r \in Requests} \cup {Status(s) : s \in Statuses}

Place(at) == [req : Requests \cup {"none"}, at : {"idle"} \cup at]

QueueTypes ==
    /\ sent \in Seq(Requests) /\ IsInjective(sent)
    /\ rx \in Seq(Requests) /\ IsInjective(rx) /\ Len(rx) <= Capacity
    /\ incoming \in Seq(Requests) /\ IsInjective(incoming) /\ Len(incoming) <= Capacity
    /\ outgoing \in Seq(Outgoing) /\ IsInjective(outgoing) /\ Len(outgoing) <= Capacity

HandTypes ==
    /\ reader \in Place({"parse", "free"})
    /\ reader.at # "idle" => reader.req \in Requests
    /\ disp \in Place({"handle", "answer", "delete"})
    /\ disp.at # "idle" => disp.req \in Requests
    /\ mode \in Statuses \cup {"none"}
    /\ writer \in Outgoing \cup {NoTree, Returned}

(* A request makes its objects one after another: none before it came in,  *)
(* no tree before it was parsed, no answer before it was handled.          *)
NotYet(r) == Tree(r) \notin live /\ Reply(r) \notin live
Progress ==
    /\ \A r \in Requests : r \notin ToSet(sent) => Payload(r) \notin live /\ NotYet(r)
    /\ \A r \in ToSet(rx) : NotYet(r)
    /\ reader.at = "parse" => NotYet(reader.req)
    /\ \A r \in ToSet(incoming) : Reply(r) \notin live
    /\ disp.at \in {"handle", "answer"} => Reply(disp.req) \notin live

Owners ==
    /\ live = InQueues \cup InHands \cup lost
    /\ InQueues \cap InHands = {}
    /\ lost \cap (InQueues \cup InHands) = {}

(* A mode and the write task never hold the same status.                   *)
Apart == mode # "none" => writer # Status(mode)

OwnerInv == QueueTypes /\ HandTypes /\ Progress /\ Owners /\ Apart

LEMMA OutgoingItems ==
    ASSUME QueueTypes, NEW r
    PROVE  /\ ToSet(outgoing) \subseteq Outgoing
           /\ Payload(r) \notin ToSet(outgoing)
           /\ Tree(r) \notin ToSet(outgoing)
<1>1. ToSet(outgoing) \subseteq Outgoing
  BY DEF QueueTypes, ToSet
<1>2. Payload(r) \notin Outgoing /\ Tree(r) \notin Outgoing
  BY Kinds DEF Outgoing
<1> QED
  BY <1>1, <1>2

LEMMA QueueMembers ==
    \A x : x \in InQueues <=> \/ \E r \in ToSet(rx) : x = Payload(r)
                              \/ \E r \in ToSet(incoming) : x = Tree(r)
                              \/ x \in ToSet(outgoing)
  BY DEF InQueues

LEMMA QueueMembersAfter ==
    \A x : x \in InQueues' <=> \/ \E r \in ToSet(rx') : x = Payload(r)
                               \/ \E r \in ToSet(incoming') : x = Tree(r)
                               \/ x \in ToSet(outgoing')
  BY DEF InQueues

LEMMA FrameKeeps ==
    ASSUME OwnerInv, NEW r \in Requests, ReceiveFrame(r)
    PROVE  OwnerInv'
<1>1. r \notin ToSet(sent) /\ r \notin ToSet(rx) /\ Payload(r) \notin live /\ NotYet(r)
  BY QueueMembers DEF OwnerInv, Owners, Progress, ReceiveFrame
<1>2. /\ ToSet(sent') = ToSet(sent) \cup {r}
      /\ sent' \in Seq(Requests) /\ IsInjective(sent')
  BY <1>1, Appended DEF OwnerInv, QueueTypes, ReceiveFrame
<1>3. HandTypes'
  BY DEF OwnerInv, HandTypes, ReceiveFrame, Writing
<1>6. Apart'
  BY DEF OwnerInv, Apart, ReceiveFrame
<1>4. CASE UNCHANGED <<rx, live, lost>>
  <2>1. InQueues' = InQueues /\ InHands' = InHands
    BY <1>4 DEF ReceiveFrame, InQueues, InHands, Writing
  <2> QED
    BY <1>2, <1>3, <1>4, <1>6, <2>1
    DEF OwnerInv, QueueTypes, Progress, Owners, ReceiveFrame, NotYet
<1>5. CASE /\ live' = live \cup {Payload(r)}
           /\ \/ rx' = Sent(rx, r) /\ lost' = lost \cup LostOn(rx, Payload(r))
              \/ rx' = rx /\ lost' = lost \cup {Payload(r)}
  <2>1. /\ rx' \in Seq(Requests) /\ IsInjective(rx') /\ Len(rx') <= Capacity
        /\ \/ ToSet(rx') = ToSet(rx) \cup {r} /\ lost' = lost
           \/ ToSet(rx') = ToSet(rx) /\ lost' = lost \cup {Payload(r)}
    <3>1. CASE rx' = Sent(rx, r) /\ lost' = lost \cup LostOn(rx, Payload(r))
      BY <1>1, <3>1, SentOrLost DEF OwnerInv, QueueTypes
    <3>2. CASE rx' = rx /\ lost' = lost \cup {Payload(r)}
      BY <3>2 DEF OwnerInv, QueueTypes
    <3> QED
      BY <1>5, <3>1, <3>2
  <2>2. QueueTypes'
    BY <1>2, <2>1 DEF OwnerInv, QueueTypes, ReceiveFrame
  <2>3. \A q : NotYet(q) => NotYet(q)'
    BY <1>5, Kinds DEF NotYet
  <2>4. Progress'
    BY <1>1, <1>2, <1>5, <2>1, <2>3, Kinds
    DEF OwnerInv, QueueTypes, Progress, ReceiveFrame
  <2>5. InHands' = InHands
    BY DEF ReceiveFrame, InHands, Writing
  <2>6. \/ InQueues' = InQueues \cup {Payload(r)} /\ lost' = lost
        \/ InQueues' = InQueues /\ lost' = lost \cup {Payload(r)}
    BY <2>1, QueueMembers, QueueMembersAfter DEF ReceiveFrame
  <2>7. Owners'
    BY <1>1, <1>5, <2>5, <2>6 DEF OwnerInv, Owners
  <2> QED
    BY <1>3, <1>6, <2>2, <2>4, <2>7 DEF OwnerInv
<1> QED
  BY <1>4, <1>5 DEF ReceiveFrame

LEMMA ReadKeeps ==
    ASSUME OwnerInv, ReadFrame
    PROVE  OwnerInv'
<1> DEFINE r == Head(rx)
<1>1. /\ r \in Requests /\ r \in ToSet(rx)
      /\ rx' \in Seq(Requests) /\ IsInjective(rx') /\ Len(rx') <= Len(rx)
      /\ ToSet(rx') = ToSet(rx) \ {r}
  BY Taken DEF OwnerInv, QueueTypes, ReadFrame
<1>2. reader' = [req |-> r, at |-> "parse"] /\ reader.at = "idle"
  BY DEF ReadFrame
<1> HIDE DEF r
<1>3. QueueTypes'
  BY <1>1, CapacityAssumption DEF OwnerInv, QueueTypes, ReadFrame
<1>4. HandTypes'
  BY <1>1, <1>2 DEF OwnerInv, HandTypes, Place, ReadFrame
<1>5. Progress'
  BY <1>1, <1>2 DEF OwnerInv, Progress, ReadFrame, NotYet
<1>6. InQueues' = InQueues \ {Payload(r)}
  <2>1. Payload(r) \notin ToSet(outgoing)
    BY OutgoingItems DEF OwnerInv
  <2> QED
    BY <1>1, <2>1, Kinds, QueueMembers, QueueMembersAfter DEF ReadFrame
<1>7. InHands' = InHands \cup {Payload(r)}
  BY <1>2 DEF ReadFrame, InHands, Writing
<1>8. Payload(r) \in InQueues
  BY <1>1, QueueMembers
<1>9. Owners'
  BY <1>6, <1>7, <1>8 DEF OwnerInv, Owners, ReadFrame
<1> QED
  BY <1>3, <1>4, <1>5, <1>9 DEF OwnerInv, Apart, ReadFrame

LEMMA ParseKeeps ==
    ASSUME OwnerInv, ParseAndSend
    PROVE  OwnerInv'
<1> DEFINE r == reader.req
<1>1. /\ r \in Requests
      /\ reader' = [req |-> r, at |-> "free"] /\ reader.at = "parse"
      /\ NotYet(r)
      /\ live' = live \cup {Tree(r)}
  BY DEF OwnerInv, HandTypes, Place, ParseAndSend, Progress, Ask
<1>2. Payload(r) \in InHands
  BY <1>1 DEF InHands
<1>3. r \notin ToSet(rx) /\ r \notin ToSet(incoming) /\ r \in ToSet(sent)
  BY <1>1, <1>2, QueueMembers DEF OwnerInv, Owners, Progress, NotYet
<1>4. \A q \in {disp.req} : disp.at # "idle" => r # q
  BY <1>1 DEF OwnerInv, Owners, NotYet, InHands
<1>5. /\ incoming' \in Seq(Requests) /\ IsInjective(incoming')
      /\ Len(incoming') <= Capacity
      /\ \/ ToSet(incoming') = ToSet(incoming) \cup {r} /\ lost' = lost
         \/ ToSet(incoming') = ToSet(incoming) /\ lost' = lost \cup {Tree(r)}
  BY <1>1, <1>3, SentOrLost DEF OwnerInv, QueueTypes, ParseAndSend
<1> HIDE DEF r
<1>6. QueueTypes'
  BY <1>5 DEF OwnerInv, QueueTypes, ParseAndSend
<1>7. HandTypes'
  BY <1>1 DEF OwnerInv, HandTypes, Place, ParseAndSend
<1>8. \A q : Reply(q) \notin live => Reply(q) \notin live'
  BY <1>1, Kinds
<1>9. \A q : q # r /\ Tree(q) \notin live => Tree(q) \notin live'
  BY <1>1, Kinds
<1>10. \A q : Payload(q) \notin live => Payload(q) \notin live'
  BY <1>1, Kinds
<1>11. Progress'
  BY <1>1, <1>3, <1>5, <1>8, <1>9, <1>10
  DEF OwnerInv, QueueTypes, Progress, ParseAndSend, NotYet
<1>12. InHands' = InHands
  BY <1>1 DEF InHands, ParseAndSend, Writing, r
<1>13. \/ InQueues' = InQueues \cup {Tree(r)} /\ lost' = lost
       \/ InQueues' = InQueues /\ lost' = lost \cup {Tree(r)}
  BY <1>5, QueueMembers, QueueMembersAfter DEF ParseAndSend
<1>14. Owners'
  BY <1>1, <1>12, <1>13 DEF OwnerInv, Owners, NotYet
<1> QED
  BY <1>6, <1>7, <1>11, <1>14 DEF OwnerInv, Apart, ParseAndSend

LEMMA FreeKeeps ==
    ASSUME OwnerInv, FreePayload
    PROVE  OwnerInv'
<1> DEFINE r == reader.req
<1>1. /\ reader' = Nobody /\ reader.at = "free"
      /\ live' = live \ {Payload(r)}
  BY DEF FreePayload
<1>2. Payload(r) \in InHands
  BY <1>1 DEF InHands
<1>3. QueueTypes' /\ HandTypes'
  BY <1>1 DEF OwnerInv, QueueTypes, HandTypes, Place, FreePayload, Nobody
<1>4. Progress'
  BY <1>1 DEF OwnerInv, Progress, FreePayload, NotYet, Nobody
<1>5. InQueues' = InQueues
  BY DEF InQueues, FreePayload
<1>6. Payload(r) \notin {Tree(disp.req), Status(mode)} /\ (Writing => Payload(r) # writer)
  BY Kinds DEF OwnerInv, HandTypes, Outgoing, Writing
<1> HIDE DEF r
<1>7. InHands' = InHands \ {Payload(r)}
  BY <1>1, <1>6 DEF InHands, FreePayload, Writing, Nobody, r
<1>8. Owners'
  BY <1>1, <1>2, <1>5, <1>7 DEF OwnerInv, Owners, FreePayload
<1> QED
  BY <1>3, <1>4, <1>8 DEF OwnerInv, Apart, FreePayload

LEMMA TakeKeeps ==
    ASSUME OwnerInv, TakeRequest
    PROVE  OwnerInv'
<1> DEFINE r == Head(incoming)
<1>1. /\ r \in Requests /\ r \in ToSet(incoming)
      /\ incoming' \in Seq(Requests) /\ IsInjective(incoming')
      /\ Len(incoming') <= Len(incoming)
      /\ ToSet(incoming') = ToSet(incoming) \ {r}
  BY Taken DEF OwnerInv, QueueTypes, TakeRequest
<1>2. disp' = [req |-> r, at |-> "handle"] /\ disp.at = "idle"
  BY DEF TakeRequest
<1> HIDE DEF r
<1>3. QueueTypes'
  BY <1>1, CapacityAssumption DEF OwnerInv, QueueTypes, TakeRequest
<1>4. HandTypes'
  BY <1>1, <1>2 DEF OwnerInv, HandTypes, Place, TakeRequest
<1>5. Progress'
  BY <1>1, <1>2 DEF OwnerInv, Progress, TakeRequest, NotYet
<1>6. InQueues' = InQueues \ {Tree(r)}
  <2>1. Tree(r) \notin ToSet(outgoing)
    BY OutgoingItems DEF OwnerInv
  <2> QED
    BY <1>1, <2>1, Kinds, QueueMembers, QueueMembersAfter DEF TakeRequest
<1>7. InHands' = InHands \cup {Tree(r)}
  BY <1>2 DEF TakeRequest, InHands, Writing
<1>8. Tree(r) \in InQueues
  BY <1>1, QueueMembers
<1>9. Owners'
  BY <1>6, <1>7, <1>8 DEF OwnerInv, Owners, TakeRequest
<1> QED
  BY <1>3, <1>4, <1>5, <1>9 DEF OwnerInv, Apart, TakeRequest

LEMMA HandleKeeps ==
    ASSUME OwnerInv, ChangeMode \/ GetOrSetParameter \/ UnknownMessage
    PROVE  OwnerInv'
<1> USE DEF ChangeMode, GetOrSetParameter, UnknownMessage, Handle
<1>1. /\ disp' = [disp EXCEPT !.at = disp'.at] /\ disp.at = "handle"
      /\ disp'.at \in {"answer", "delete"} /\ disp'.req = disp.req
  BY DEF OwnerInv, HandTypes, Place
<1>2. QueueTypes'
  BY DEF OwnerInv, QueueTypes
<1>3. HandTypes'
  BY <1>1 DEF OwnerInv, HandTypes, Place
<1>4. Progress'
  BY <1>1 DEF OwnerInv, Progress, NotYet
<1>5. InQueues' = InQueues
  BY DEF InQueues
<1>6. Apart'
  BY DEF OwnerInv, Apart
<1>7. CASE ChangeMode /\ mode # "none" /\ mode' = "none" /\ lost' = lost \cup {Status(mode)}
  <2>1. Status(mode) \in InHands
    BY <1>7 DEF InHands
  <2>2. Status(mode) \notin {Payload(reader.req), Tree(disp.req), writer}
    BY <1>7, Kinds DEF OwnerInv, Apart
  <2>3. InHands' = InHands \ {Status(mode)}
    BY <1>1, <1>7, <2>2 DEF InHands, Writing
  <2>4. Owners'
    BY <1>5, <1>7, <2>1, <2>3 DEF OwnerInv, Owners
  <2> QED
    BY <1>2, <1>3, <1>4, <1>6, <2>4 DEF OwnerInv
<1>8. CASE UNCHANGED <<mode, lost>>
  <2>1. InHands' = InHands /\ UNCHANGED <<live, lost>>
    BY <1>1, <1>8 DEF InHands, Writing
  <2>2. Owners'
    BY <1>5, <2>1 DEF OwnerInv, Owners
  <2> QED
    BY <1>2, <1>3, <1>4, <1>6, <2>2 DEF OwnerInv
<1> QED
  BY <1>7, <1>8

LEMMA AnswerKeeps ==
    ASSUME OwnerInv, SendAnswer
    PROVE  OwnerInv'
<1> DEFINE r == disp.req
           x == Reply(r)
<1>1. /\ r \in Requests
      /\ disp' = [req |-> r, at |-> "delete"] /\ disp.at = "answer"
      /\ x \notin live /\ x \in Outgoing
      /\ live' = live \cup {x}
  BY DEF OwnerInv, HandTypes, Place, SendAnswer, Progress, Outgoing, Ask
<1>2. Tree(r) \in InHands /\ Tree(r) \in live
  BY <1>1 DEF InHands, OwnerInv, Owners
<1>3. /\ r \in ToSet(sent) /\ r \notin ToSet(rx) /\ r \notin ToSet(incoming)
      /\ reader.at = "parse" => r # reader.req
  BY <1>1, <1>2, QueueMembers DEF OwnerInv, Owners, Progress, NotYet
<1>4. x \notin ToSet(outgoing)
  BY <1>1, QueueMembers DEF OwnerInv, Owners
<1>5. /\ outgoing' \in Seq(Outgoing) /\ IsInjective(outgoing')
      /\ Len(outgoing') <= Capacity
      /\ \/ ToSet(outgoing') = ToSet(outgoing) \cup {x} /\ lost' = lost
         \/ ToSet(outgoing') = ToSet(outgoing) /\ lost' = lost \cup {x}
  BY <1>1, <1>4, SentOrLost DEF OwnerInv, QueueTypes, SendAnswer
<1> HIDE DEF r
<1>6. QueueTypes'
  BY <1>5 DEF OwnerInv, QueueTypes, SendAnswer
<1>7. HandTypes'
  BY <1>1 DEF OwnerInv, HandTypes, Place, SendAnswer
<1>8. /\ \A q : Payload(q) \notin live => Payload(q) \notin live'
      /\ \A q : Tree(q) \notin live => Tree(q) \notin live'
      /\ \A q : q # r /\ Reply(q) \notin live => Reply(q) \notin live'
  BY <1>1, Kinds
<1>9. Progress'
  BY <1>1, <1>3, <1>8 DEF OwnerInv, QueueTypes, HandTypes, Progress, SendAnswer, NotYet
<1>10. InHands' = InHands
  BY <1>1 DEF InHands, SendAnswer, Writing, r
<1> HIDE DEF x
<1>11. \/ InQueues' = InQueues \cup {x} /\ lost' = lost
       \/ InQueues' = InQueues /\ lost' = lost \cup {x}
  BY <1>5 DEF SendAnswer, InQueues
<1>12. Owners'
  BY <1>1, <1>10, <1>11 DEF OwnerInv, Owners
<1> QED
  BY <1>6, <1>7, <1>9, <1>12 DEF OwnerInv, Apart, SendAnswer

LEMMA DeleteKeeps ==
    ASSUME OwnerInv, DeleteRequest
    PROVE  OwnerInv'
<1> DEFINE r == disp.req
<1>1. /\ disp' = Nobody /\ disp.at = "delete"
      /\ live' = live \ {Tree(r)}
  BY DEF DeleteRequest
<1>2. Tree(r) \in InHands
  BY <1>1 DEF InHands
<1>3. QueueTypes' /\ HandTypes'
  BY <1>1 DEF OwnerInv, QueueTypes, HandTypes, Place, DeleteRequest, Nobody
<1>4. Progress'
  BY <1>1 DEF OwnerInv, Progress, DeleteRequest, NotYet, Nobody
<1>5. InQueues' = InQueues
  BY DEF InQueues, DeleteRequest
<1>6. Tree(r) \notin {Payload(reader.req), Status(mode)} /\ (Writing => Tree(r) # writer)
  BY Kinds DEF OwnerInv, HandTypes, Outgoing, Writing
<1> HIDE DEF r
<1>7. InHands' = InHands \ {Tree(r)}
  BY <1>1, <1>6 DEF InHands, DeleteRequest, Writing, Nobody, r
<1>8. Owners'
  BY <1>1, <1>2, <1>5, <1>7 DEF OwnerInv, Owners, DeleteRequest
<1> QED
  BY <1>3, <1>4, <1>8 DEF OwnerInv, Apart, DeleteRequest

LEMMA StatusKeeps ==
    ASSUME OwnerInv, NEW s \in Statuses, MakeStatus(s)
    PROVE  OwnerInv'
<1> DEFINE x == Status(s)
           t == Temps(s)
<1>1. /\ mode = "none" /\ mode' = s /\ s # "none" /\ x \notin live /\ t \notin live
      /\ \/ live' = live \cup {x} /\ lost' = lost
         \/ live' = live \cup {x, t} /\ lost' = lost \cup {t}
  BY StatusesAssumption DEF MakeStatus
<1>2. QueueTypes' /\ HandTypes'
  BY <1>1 DEF OwnerInv, QueueTypes, HandTypes, MakeStatus
<1>3. \A q : /\ Payload(q) \notin live => Payload(q) \notin live'
             /\ Tree(q) \notin live => Tree(q) \notin live'
             /\ Reply(q) \notin live => Reply(q) \notin live'
  <2>1. \A q : {x, t} \cap {Payload(q), Tree(q), Reply(q)} = {}
    BY Kinds
  <2> HIDE DEF x, t
  <2> QED
    BY <1>1, <2>1
<1>4. Progress'
  BY <1>3 DEF OwnerInv, Progress, MakeStatus, NotYet
<1>5. writer # x
  <2>1. CASE Writing
    BY <1>1, <2>1 DEF OwnerInv, Owners, InHands
  <2>2. CASE ~Writing
    BY <2>2, Kinds DEF Writing
  <2> QED
    BY <2>1, <2>2
<1>6. InQueues' = InQueues
  BY DEF InQueues, MakeStatus
<1>7. InHands' = InHands \cup {x}
  BY <1>1 DEF InHands, MakeStatus, Writing
<1>8. t # x
  BY Kinds
<1>9. Apart'
  BY <1>1, <1>5 DEF Apart, MakeStatus
<1> HIDE DEF x, t
<1>10. Owners'
  BY <1>1, <1>6, <1>7, <1>8 DEF OwnerInv, Owners
<1> QED
  BY <1>2, <1>4, <1>9, <1>10 DEF OwnerInv

LEMMA SendStatusKeeps ==
    ASSUME OwnerInv, SendStatus
    PROVE  OwnerInv'
<1> DEFINE x == Status(mode)
<1>1. /\ mode # "none" /\ mode' = "none" /\ mode \in Statuses /\ x \in Outgoing
      /\ live' = live
  BY DEF OwnerInv, HandTypes, SendStatus, Outgoing
<1>2. x \in InHands
  BY <1>1 DEF InHands
<1>3. x \notin ToSet(outgoing)
  BY <1>2, QueueMembers DEF OwnerInv, Owners
<1>4. /\ outgoing' \in Seq(Outgoing) /\ IsInjective(outgoing')
      /\ Len(outgoing') <= Capacity
      /\ \/ ToSet(outgoing') = ToSet(outgoing) \cup {x} /\ lost' = lost
         \/ ToSet(outgoing') = ToSet(outgoing) /\ lost' = lost \cup {x}
  <2>1. outgoing' = Sent(outgoing, x) /\ lost' = lost \cup LostOn(outgoing, x)
    BY DEF SendStatus
  <2> HIDE DEF x
  <2> QED
    <3>1. /\ outgoing \in Seq(Outgoing) /\ IsInjective(outgoing)
          /\ Len(outgoing) <= Capacity
      BY DEF OwnerInv, QueueTypes
    <3>2. /\ Sent(outgoing, x) \in Seq(Outgoing) /\ IsInjective(Sent(outgoing, x))
          /\ Len(Sent(outgoing, x)) <= Capacity
          /\ \/ ToSet(Sent(outgoing, x)) = ToSet(outgoing) \cup {x}
                 /\ LostOn(outgoing, x) = {}
             \/ ToSet(Sent(outgoing, x)) = ToSet(outgoing) /\ LostOn(outgoing, x) = {x}
      BY <1>1, <1>3, <3>1, SentOrLost
    <3> QED
      BY <2>1, <3>2
<1>5. x \notin {Payload(reader.req), Tree(disp.req), writer}
  BY <1>1, Kinds DEF OwnerInv, Apart
<1> HIDE DEF x
<1>6. QueueTypes'
  BY <1>4 DEF OwnerInv, QueueTypes, SendStatus
<1>7. HandTypes'
  BY <1>1 DEF OwnerInv, HandTypes, SendStatus
<1>8. Progress'
  BY <1>1 DEF OwnerInv, Progress, SendStatus, NotYet
<1>9. InHands' = InHands \ {x}
  BY <1>1, <1>5 DEF InHands, SendStatus, Writing, x
<1>10. \/ InQueues' = InQueues \cup {x} /\ lost' = lost
       \/ InQueues' = InQueues /\ lost' = lost \cup {x}
  BY <1>4 DEF SendStatus, InQueues
<1>11. Owners'
  BY <1>1, <1>2, <1>9, <1>10 DEF OwnerInv, Owners
<1> QED
  BY <1>1, <1>6, <1>7, <1>8, <1>11 DEF OwnerInv, Apart

LEMMA OutgoingKeeps ==
    ASSUME OwnerInv, TakeOutgoing
    PROVE  OwnerInv'
<1> DEFINE x == Head(outgoing)
<1>1. /\ x \in Outgoing /\ x \in ToSet(outgoing)
      /\ outgoing' \in Seq(Outgoing) /\ IsInjective(outgoing')
      /\ Len(outgoing') <= Len(outgoing)
      /\ ToSet(outgoing') = ToSet(outgoing) \ {x}
  BY Taken DEF OwnerInv, QueueTypes, TakeOutgoing
<1>2. writer = NoTree /\ writer' = x /\ x \notin {NoTree, Returned}
  BY <1>1, Kinds DEF TakeOutgoing, Outgoing
<1>3. x \in InQueues
  BY <1>1, QueueMembers
<1> HIDE DEF x
<1>4. QueueTypes'
  BY <1>1, CapacityAssumption DEF OwnerInv, QueueTypes, TakeOutgoing
<1>5. HandTypes'
  BY <1>1, <1>2 DEF OwnerInv, HandTypes, TakeOutgoing
<1>6. Progress'
  BY DEF OwnerInv, Progress, TakeOutgoing, NotYet
<1>7. InQueues' = InQueues \ {x}
  <2>1. \A r : x # Payload(r) /\ x # Tree(r)
    BY <1>1, Kinds DEF Outgoing
  <2> QED
    BY <1>1, <2>1, QueueMembers, QueueMembersAfter DEF TakeOutgoing
<1>8. InHands' = InHands \cup {x}
  BY <1>2 DEF InHands, TakeOutgoing, Writing
<1>9. Owners'
  BY <1>3, <1>7, <1>8 DEF OwnerInv, Owners, TakeOutgoing
<1>10. Apart'
  BY <1>2, <1>3 DEF OwnerInv, Owners, Apart, InHands, TakeOutgoing
<1> QED
  BY <1>4, <1>5, <1>6, <1>9, <1>10 DEF OwnerInv

LEMMA WriterKeeps ==
    ASSUME OwnerInv, WriteOut \/ PrintFails
    PROVE  OwnerInv'
<1>1. /\ Writing /\ writer \in Outgoing /\ writer' \in {NoTree, Returned}
      /\ UNCHANGED <<sent, rx, incoming, outgoing, reader, disp, mode>>
  BY DEF OwnerInv, HandTypes, WriteOut, PrintFails, Writing
<1>2. \/ live' = live \ {writer} /\ lost' = lost
      \/ live' = live /\ lost' = lost \cup {writer}
  BY DEF WriteOut, PrintFails
<1>3. writer \in InHands
  BY <1>1 DEF InHands
<1>4. /\ writer \notin {Payload(reader.req), Tree(disp.req)}
      /\ mode # "none" => writer # Status(mode)
  BY <1>1, Kinds DEF OwnerInv, Apart, Outgoing
<1>5. QueueTypes' /\ HandTypes'
  BY <1>1 DEF OwnerInv, QueueTypes, HandTypes
<1>6. Progress'
  BY <1>1, <1>2 DEF OwnerInv, Progress, NotYet
<1>7. InQueues' = InQueues
  BY <1>1 DEF InQueues
<1>8. InHands' = InHands \ {writer}
  BY <1>1, <1>4 DEF InHands, Writing
<1>9. Owners'
  BY <1>2, <1>3, <1>7, <1>8 DEF OwnerInv, Owners
<1>10. Apart'
  BY <1>1, Kinds DEF Apart
<1> QED
  BY <1>5, <1>6, <1>9, <1>10 DEF OwnerInv

LEMMA StutterKeeps ==
    ASSUME OwnerInv, NullDereferenced \/ UNCHANGED vars
    PROVE  OwnerInv'
<1>1. InQueues' = InQueues /\ InHands' = InHands
  BY DEF vars, NullDereferenced, InQueues, InHands, Writing
<1> QED
  BY <1>1 DEF OwnerInv, QueueTypes, HandTypes, Progress, Owners, Apart, NotYet, vars,
              NullDereferenced

LEMMA OwnersAtFirst == Init => OwnerInv
<1> SUFFICES ASSUME Init
             PROVE  OwnerInv
  OBVIOUS
<1>1. ToSet(<<>>) = {} /\ IsInjective(<<>>) /\ Len(<<>>) = 0
  BY DEF ToSet, IsInjective
<1>2. InQueues = {} /\ InHands = {}
  BY <1>1 DEF Init, InQueues, InHands, Writing, Nobody
<1>3. Owners /\ Apart
  BY <1>2 DEF Init, Owners, Apart
<1>4. QueueTypes
  BY <1>1, CapacityAssumption DEF Init, QueueTypes
<1>5. HandTypes /\ Progress
  BY <1>1 DEF Init, HandTypes, Place, Progress, Nobody, NotYet
<1> QED
  BY <1>3, <1>4, <1>5 DEF OwnerInv

(* After a restart everything is as at first.                              *)
LEMMA RestartIsInit == Restart => Init'
  BY DEF Restart, Init

LEMMA OwnerInvHolds == Spec => []OwnerInv
<1>1. Init' => OwnerInv'
  BY OwnersAtFirst, PTL
<1>2. OwnerInv /\ [Next]_vars => OwnerInv'
  BY FrameKeeps, ReadKeeps, ParseKeeps, FreeKeeps, TakeKeeps, HandleKeeps,
     AnswerKeeps, DeleteKeeps, StatusKeeps, SendStatusKeeps, OutgoingKeeps,
     WriterKeeps, StutterKeeps, RestartIsInit, <1>1
  DEF Next, ReadTask, Dispatcher, WriteTask
<1> QED
  BY OwnersAtFirst, <1>2, PTL DEF Spec

(* Every object has one owner, or is lost in one of the ways the comment   *)
(* of EveryObjectHasOneOwner lists: for any number of requests, any length *)
(* of the queues, and whichever allocations fail.                          *)
THEOREM OneOwner == Spec => []EveryObjectHasOneOwner
<1>1. OwnerInv => EveryObjectHasOneOwner
  BY DEF OwnerInv, QueueTypes, Owners, EveryObjectHasOneOwner
<1> QED
  BY <1>1, OwnerInvHolds, PTL

(* The queues hold what they may and no more than their capacity.          *)
THEOREM QueueTypesCorrect == Spec => []TypeOK
<1>1. OwnerInv => TypeOK
  BY DEF OwnerInv, QueueTypes, HandTypes, Place, TypeOK, ToSet
<1> QED
  BY <1>1, OwnerInvHolds, PTL

-----------------------------------------------------------------------------
(* The order of the answers. A request moves through the stages Written to *)
(* Received from the last to the first; whatever is in a later stage came   *)
(* in before whatever is in an earlier one.                                *)

BeforeIn(s, r, q) == \E k, l \in 1..Len(s) : k < l /\ s[k] = r /\ s[l] = q
Ahead(s, A, B) == \A r \in A, q \in B : BeforeIn(s, r, q)
Sorted(s, queue) ==
    \A i, j \in 1..Len(queue) : i < j => BeforeIn(s, queue[i], queue[j])
RepliesSorted(s, queue) ==
    \A i, j \in 1..Len(queue) :
        i < j => \A r, q \in Requests : queue[i] = Reply(r) /\ queue[j] = Reply(q)
                                            => BeforeIn(s, r, q)

Written == ToSet(answered)
InWriter == {r \in Requests : writer = Reply(r)}
InOutgoing == {r \in Requests : Reply(r) \in ToSet(outgoing)}
InDispatcher == IF disp.at \in {"handle", "answer"} THEN {disp.req} ELSE {}
InIncoming == ToSet(incoming)
InReader == IF reader.at = "parse" THEN {reader.req} ELSE {}
Received == ToSet(rx)

(* The stages in their order, s being the requests in theirs.              *)
Line(s, A, B, C, D, E, F, G) ==
    /\ Ahead(s, A, B \cup C \cup D \cup E \cup F \cup G)
    /\ Ahead(s, B, C \cup D \cup E \cup F \cup G)
    /\ Ahead(s, C, D \cup E \cup F \cup G)
    /\ Ahead(s, D, E \cup F \cup G)
    /\ Ahead(s, E, F \cup G)
    /\ Ahead(s, F, G)

OrderInv ==
    /\ answered \in Seq(Requests)
    /\ Written \subseteq ToSet(sent)
    /\ Sorted(sent, answered)
    /\ RepliesSorted(sent, outgoing)
    /\ Sorted(sent, incoming)
    /\ Sorted(sent, rx)
    /\ Line(sent, Written, InWriter, InOutgoing, InDispatcher, InIncoming, InReader,
            Received)

LEMMA SortedAppend ==
    ASSUME NEW s, NEW S, NEW queue \in Seq(S), NEW x \in S, Sorted(s, queue),
           Ahead(s, ToSet(queue), {x})
    PROVE  Sorted(s, Append(queue, x))
<1>1. /\ Len(Append(queue, x)) = Len(queue) + 1
      /\ \A i \in 1..Len(queue) : Append(queue, x)[i] = queue[i]
      /\ Append(queue, x)[Len(queue) + 1] = x
      /\ Len(queue) \in Nat
      /\ DOMAIN queue = 1..Len(queue)
  OBVIOUS
<1>2. \A i \in 1..Len(queue) : BeforeIn(s, queue[i], x)
  BY <1>1 DEF Ahead, ToSet
<1> DEFINE r == Append(queue, x)
<1> HIDE DEF r
<1> QED
  BY <1>1, <1>2 DEF Sorted, r

LEMMA SortedTail ==
    ASSUME NEW s, NEW S, NEW queue \in Seq(S), queue # <<>>, Sorted(s, queue)
    PROVE  /\ Sorted(s, Tail(queue))
           /\ Ahead(s, {Head(queue)}, ToSet(Tail(queue)))
<1>1. /\ Len(queue) \in Nat \ {0}
      /\ Len(Tail(queue)) = Len(queue) - 1
      /\ DOMAIN Tail(queue) = 1..Len(queue) - 1
      /\ \A i \in 1..Len(queue) - 1 : Tail(queue)[i] = queue[i + 1]
      /\ Head(queue) = queue[1]
  OBVIOUS
<1>2. Sorted(s, Tail(queue))
  BY <1>1 DEF Sorted
<1>3. \A i \in DOMAIN Tail(queue) : BeforeIn(s, Head(queue), Tail(queue)[i])
  BY <1>1 DEF Sorted
<1> QED
  BY <1>2, <1>3 DEF Ahead, ToSet

LEMMA RepliesAppend ==
    ASSUME NEW s, NEW S, NEW queue \in Seq(S), NEW x \in S, RepliesSorted(s, queue),
           \A r, q \in Requests : Reply(r) \in ToSet(queue) /\ x = Reply(q)
                                     => BeforeIn(s, r, q)
    PROVE  RepliesSorted(s, Append(queue, x))
<1>1. /\ Len(Append(queue, x)) = Len(queue) + 1
      /\ \A i \in 1..Len(queue) : Append(queue, x)[i] = queue[i]
      /\ Append(queue, x)[Len(queue) + 1] = x
      /\ Len(queue) \in Nat
      /\ DOMAIN queue = 1..Len(queue)
  OBVIOUS
<1>2. \A i \in 1..Len(queue) : queue[i] \in ToSet(queue)
  BY <1>1 DEF ToSet
<1> DEFINE r == Append(queue, x)
<1> HIDE DEF r
<1> QED
  BY <1>1, <1>2 DEF RepliesSorted, r

LEMMA RepliesTail ==
    ASSUME NEW s, NEW S, NEW queue \in Seq(S), queue # <<>>, RepliesSorted(s, queue)
    PROVE  /\ RepliesSorted(s, Tail(queue))
           /\ \A r, q \in Requests :
                 Head(queue) = Reply(r) /\ Reply(q) \in ToSet(Tail(queue))
                    => BeforeIn(s, r, q)
<1>1. /\ Len(queue) \in Nat \ {0}
      /\ Len(Tail(queue)) = Len(queue) - 1
      /\ DOMAIN Tail(queue) = 1..Len(queue) - 1
      /\ \A i \in 1..Len(queue) - 1 : Tail(queue)[i] = queue[i + 1]
      /\ Head(queue) = queue[1]
  OBVIOUS
<1>2. RepliesSorted(s, Tail(queue))
  BY <1>1 DEF RepliesSorted
<1>3. \A i \in DOMAIN Tail(queue), r, q \in Requests :
         Head(queue) = Reply(r) /\ Tail(queue)[i] = Reply(q) => BeforeIn(s, r, q)
  BY <1>1 DEF RepliesSorted
<1> QED
  BY <1>2, <1>3 DEF ToSet

LEMMA BeforeGrows ==
    ASSUME NEW S, NEW s \in Seq(S), NEW x \in S
    PROVE  /\ \A r, q : BeforeIn(s, r, q) => BeforeIn(Append(s, x), r, q)
           /\ Ahead(Append(s, x), ToSet(s), {x})
<1>1. /\ Len(Append(s, x)) = Len(s) + 1
      /\ \A i \in 1..Len(s) : Append(s, x)[i] = s[i]
      /\ Append(s, x)[Len(s) + 1] = x
      /\ Len(s) \in Nat
      /\ DOMAIN s = 1..Len(s)
  OBVIOUS
<1> DEFINE t == Append(s, x)
<1> HIDE DEF t
<1>2. \A r, q : BeforeIn(s, r, q) => BeforeIn(t, r, q)
  BY <1>1 DEF BeforeIn, t
<1>3. \A k \in 1..Len(s) : BeforeIn(t, s[k], x)
  BY <1>1 DEF BeforeIn, t
<1>4. Ahead(t, ToSet(s), {x})
  BY <1>1, <1>3 DEF Ahead, ToSet
<1> QED
  BY <1>2, <1>4 DEF t

LEMMA AppendedSet ==
    ASSUME NEW S, NEW queue \in Seq(S), NEW x \in S
    PROVE  ToSet(Append(queue, x)) = ToSet(queue) \cup {x}
<1>1. /\ DOMAIN Append(queue, x) = 1..Len(queue) + 1
      /\ \A i \in 1..Len(queue) : Append(queue, x)[i] = queue[i]
      /\ Append(queue, x)[Len(queue) + 1] = x
      /\ Len(queue) \in Nat
      /\ DOMAIN queue = 1..Len(queue)
  OBVIOUS
<1> DEFINE r == Append(queue, x)
<1> HIDE DEF r
<1>2. DOMAIN r = DOMAIN queue \cup {Len(queue) + 1}
  BY <1>1 DEF r
<1>3. /\ \A i \in DOMAIN queue : r[i] = queue[i]
      /\ r[Len(queue) + 1] = x
  BY <1>1 DEF r
<1>4. ToSet(r) = ToSet(queue) \cup {x}
  BY <1>2, <1>3, Zenon DEF ToSet
<1> QED
  BY <1>4 DEF r

(* Stages that only lose requests keep the order of the others.            *)
LEMMA StagesShrink ==
    ASSUME OrderInv, UNCHANGED <<sent, answered>>,
           RepliesSorted(sent, outgoing'), Sorted(sent, incoming'), Sorted(sent, rx'),
           InWriter' \subseteq InWriter, InOutgoing' \subseteq InOutgoing,
           InDispatcher' \subseteq InDispatcher, InIncoming' \subseteq InIncoming,
           InReader' \subseteq InReader, Received' \subseteq Received
    PROVE  OrderInv'
<1>1. Written' = Written
  BY DEF Written
<1>2. Line(sent, Written, InWriter', InOutgoing', InDispatcher', InIncoming', InReader',
           Received')
  BY DEF OrderInv, Line, Ahead
<1> QED
  BY <1>1, <1>2 DEF OrderInv

(* Whatever is in a stage has come in.                                     *)
LEMMA StagesAreSent ==
    ASSUME OwnerInv, OrderInv
    PROVE  Written \cup InWriter \cup InOutgoing \cup InDispatcher \cup InIncoming
              \cup InReader \cup Received \subseteq ToSet(sent)
<1>1. \A r \in Requests : Payload(r) \in live \/ Tree(r) \in live \/ Reply(r) \in live
                             => r \in ToSet(sent)
  BY DEF OwnerInv, Progress, NotYet
<1>2. \A r \in ToSet(rx) : r \in Requests /\ Payload(r) \in live
  BY QueueMembers DEF OwnerInv, Owners, QueueTypes, ToSet
<1>3. \A r \in ToSet(incoming) : r \in Requests /\ Tree(r) \in live
  BY QueueMembers DEF OwnerInv, Owners, QueueTypes, ToSet
<1>4. \A r \in InOutgoing : r \in Requests /\ Reply(r) \in live
  BY QueueMembers DEF OwnerInv, Owners, InOutgoing
<1>5. \A r \in InWriter : r \in Requests /\ Reply(r) \in live
  BY Kinds DEF OwnerInv, Owners, InHands, InWriter, Writing
<1>6. \A r \in InDispatcher : r \in Requests /\ Tree(r) \in live
  BY DEF OwnerInv, Owners, HandTypes, InHands, InDispatcher
<1>7. \A r \in InReader : r \in Requests /\ Payload(r) \in live
  BY DEF OwnerInv, Owners, HandTypes, InHands, InReader
<1> QED
  BY <1>1, <1>2, <1>3, <1>4, <1>5, <1>6, <1>7 DEF OrderInv, InIncoming, Received

LEMMA FrameOrder ==
    ASSUME OwnerInv, OrderInv, NEW r \in Requests, ReceiveFrame(r)
    PROVE  OrderInv'
<1>1. sent \in Seq(Requests) /\ sent' = Append(sent, r)
  BY DEF OwnerInv, QueueTypes, ReceiveFrame
<1>2. /\ \A p, q : BeforeIn(sent, p, q) => BeforeIn(sent', p, q)
      /\ Ahead(sent', ToSet(sent), {r})
      /\ ToSet(sent') = ToSet(sent) \cup {r}
  BY <1>1, BeforeGrows, AppendedSet
<1>3. /\ Written' = Written /\ InWriter' = InWriter /\ InOutgoing' = InOutgoing
      /\ InDispatcher' = InDispatcher /\ InIncoming' = InIncoming
      /\ InReader' = InReader
  BY DEF ReceiveFrame, Written, InWriter, InOutgoing, InDispatcher, InIncoming, InReader
<1>4. \A p \in Received : BeforeIn(sent', p, r)
  BY <1>2, StagesAreSent DEF Ahead
<1>5. Sorted(sent', rx)
  BY <1>2 DEF OrderInv, Sorted
<1>6. rx \in Seq(Requests)
  BY DEF OwnerInv, QueueTypes
<1>7. CASE rx' = Append(rx, r)
  <2>1. Received' = Received \cup {r}
    BY <1>6, <1>7, AppendedSet DEF Received
  <2>2. Sorted(sent', rx')
    BY <1>4, <1>5, <1>6, <1>7, SortedAppend DEF Ahead, Received
  <2>3. Line(sent', Written, InWriter, InOutgoing, InDispatcher, InIncoming, InReader,
             Received')
    BY <1>2, <2>1, StagesAreSent DEF OrderInv, Line, Ahead
  <2>4. /\ Sorted(sent', answered) /\ RepliesSorted(sent', outgoing)
        /\ Sorted(sent', incoming)
    BY <1>2 DEF OrderInv, Sorted, RepliesSorted
  <2> QED
    BY <1>2, <1>3, <2>2, <2>3, <2>4 DEF OrderInv, ReceiveFrame
<1>8. CASE rx' = rx
  <2>1. Line(sent', Written, InWriter, InOutgoing, InDispatcher, InIncoming, InReader,
             Received)
    BY <1>2 DEF OrderInv, Line, Ahead
  <2>2. /\ Sorted(sent', answered) /\ RepliesSorted(sent', outgoing)
        /\ Sorted(sent', incoming)
    BY <1>2 DEF OrderInv, Sorted, RepliesSorted
  <2> QED
    BY <1>2, <1>3, <1>5, <1>8, <2>1, <2>2 DEF OrderInv, ReceiveFrame, Received
<1> QED
  BY <1>7, <1>8 DEF ReceiveFrame, Sent

LEMMA ReadOrder ==
    ASSUME OwnerInv, OrderInv, ReadFrame
    PROVE  OrderInv'
<1> DEFINE r == Head(rx)
<1>1. /\ rx \in Seq(Requests) /\ IsInjective(rx) /\ rx # <<>>
      /\ reader' = [req |-> r, at |-> "parse"] /\ reader.at = "idle"
      /\ rx' = Tail(rx)
  BY DEF OwnerInv, QueueTypes, ReadFrame
<1>2. /\ r \in Received /\ Received' = Received \ {r}
  BY <1>1, Taken DEF Received
<1>3. Sorted(sent, rx') /\ Ahead(sent, {r}, Received')
  BY <1>1, SortedTail DEF OrderInv, Received
<1> HIDE DEF r
<1>4. InReader' = {r}
  BY <1>1 DEF InReader
<1>5. /\ Written' = Written /\ InWriter' = InWriter /\ InOutgoing' = InOutgoing
      /\ InDispatcher' = InDispatcher /\ InIncoming' = InIncoming
  BY DEF ReadFrame, Written, InWriter, InOutgoing, InDispatcher, InIncoming
<1>6. Line(sent, Written, InWriter, InOutgoing, InDispatcher, InIncoming, InReader',
           Received')
  BY <1>2, <1>3, <1>4 DEF OrderInv, Line, Ahead
<1> QED
  BY <1>3, <1>5, <1>6 DEF OrderInv, ReadFrame

LEMMA ParseOrder ==
    ASSUME OwnerInv, OrderInv, ParseAndSend
    PROVE  OrderInv'
<1> DEFINE r == reader.req
<1>1. /\ incoming \in Seq(Requests) /\ r \in Requests /\ reader.at = "parse"
      /\ reader'.at = "free"
  BY DEF OwnerInv, QueueTypes, HandTypes, Place, ParseAndSend
<1>2. InReader = {r} /\ InReader' = {}
  BY <1>1 DEF InReader
<1>3. /\ Written' = Written /\ InWriter' = InWriter /\ InOutgoing' = InOutgoing
      /\ InDispatcher' = InDispatcher /\ Received' = Received
  BY DEF ParseAndSend, Written, InWriter, InOutgoing, InDispatcher, Received
<1>4. CASE incoming' = Append(incoming, r)
  <2>1. InIncoming' = InIncoming \cup {r}
    BY <1>1, <1>4, AppendedSet DEF InIncoming
  <2>2. Sorted(sent, incoming')
    <3>1. Ahead(sent, ToSet(incoming), {r})
      BY <1>2 DEF OrderInv, Line, Ahead, InIncoming
    <3> QED
      BY <1>1, <1>4, <3>1, SortedAppend DEF OrderInv
  <2>3. Line(sent, Written, InWriter, InOutgoing, InDispatcher, InIncoming', {}, Received)
    BY <1>2, <2>1 DEF OrderInv, Line, Ahead
  <2> QED
    BY <1>2, <1>3, <2>2, <2>3 DEF OrderInv, ParseAndSend
<1>5. CASE incoming' = incoming
  BY <1>2, <1>3, <1>5, StagesShrink DEF OrderInv, ParseAndSend, InIncoming
<1> QED
  BY <1>4, <1>5 DEF ParseAndSend, Sent

LEMMA TakeOrder ==
    ASSUME OwnerInv, OrderInv, TakeRequest
    PROVE  OrderInv'
<1> DEFINE r == Head(incoming)
<1>1. /\ incoming \in Seq(Requests) /\ IsInjective(incoming) /\ incoming # <<>>
      /\ disp' = [req |-> r, at |-> "handle"] /\ disp.at = "idle"
      /\ incoming' = Tail(incoming)
  BY DEF OwnerInv, QueueTypes, TakeRequest
<1>2. /\ r \in InIncoming /\ InIncoming' = InIncoming \ {r}
  BY <1>1, Taken DEF InIncoming
<1>3. Sorted(sent, incoming') /\ Ahead(sent, {r}, InIncoming')
  BY <1>1, SortedTail DEF OrderInv, InIncoming
<1> HIDE DEF r
<1>4. InDispatcher' = {r}
  BY <1>1 DEF InDispatcher
<1>5. /\ Written' = Written /\ InWriter' = InWriter /\ InOutgoing' = InOutgoing
      /\ InReader' = InReader /\ Received' = Received
  BY DEF TakeRequest, Written, InWriter, InOutgoing, InReader, Received
<1>6. Line(sent, Written, InWriter, InOutgoing, InDispatcher', InIncoming', InReader,
           Received)
  BY <1>2, <1>3, <1>4 DEF OrderInv, Line, Ahead
<1> QED
  BY <1>3, <1>5, <1>6 DEF OrderInv, TakeRequest

LEMMA AnswerOrder ==
    ASSUME OwnerInv, OrderInv, SendAnswer
    PROVE  OrderInv'
<1> DEFINE r == disp.req
<1>1. /\ outgoing \in Seq(Outgoing) /\ r \in Requests /\ disp.at = "answer"
      /\ disp'.at = "delete" /\ Reply(r) \in Outgoing
  BY DEF OwnerInv, QueueTypes, HandTypes, Place, SendAnswer, Outgoing
<1>2. InDispatcher = {r} /\ InDispatcher' = {}
  BY <1>1 DEF InDispatcher
<1>3. /\ Written' = Written /\ InWriter' = InWriter /\ InIncoming' = InIncoming
      /\ InReader' = InReader /\ Received' = Received
  BY DEF SendAnswer, Written, InWriter, InIncoming, InReader, Received
<1>4. CASE outgoing' = Append(outgoing, Reply(r))
  <2>1. ToSet(outgoing') = ToSet(outgoing) \cup {Reply(r)}
    BY <1>1, <1>4, AppendedSet
  <2>2. InOutgoing' = InOutgoing \cup {r}
    BY <1>1, <2>1, Kinds DEF InOutgoing
  <2>3. RepliesSorted(sent, outgoing')
    <3>1. \A p, q \in Requests : Reply(p) \in ToSet(outgoing) /\ Reply(r) = Reply(q)
                                    => BeforeIn(sent, p, q)
      BY <1>2, Kinds DEF OrderInv, Line, Ahead, InOutgoing
    <3> QED
      BY <1>1, <1>4, <3>1, RepliesAppend DEF OrderInv
  <2>4. Line(sent, Written, InWriter, InOutgoing', {}, InIncoming, InReader, Received)
    BY <1>2, <2>2 DEF OrderInv, Line, Ahead
  <2> QED
    BY <1>2, <1>3, <2>3, <2>4 DEF OrderInv, SendAnswer
<1>5. CASE outgoing' = outgoing
  BY <1>2, <1>3, <1>5, StagesShrink DEF OrderInv, SendAnswer, InOutgoing
<1> QED
  BY <1>4, <1>5 DEF SendAnswer, Sent

LEMMA SendStatusOrder ==
    ASSUME OwnerInv, OrderInv, SendStatus
    PROVE  OrderInv'
<1>1. /\ outgoing \in Seq(Outgoing) /\ Status(mode) \in Outgoing
  BY DEF OwnerInv, QueueTypes, HandTypes, SendStatus, Outgoing
<1>2. /\ InWriter' = InWriter /\ InIncoming' = InIncoming
      /\ InDispatcher' = InDispatcher /\ InReader' = InReader /\ Received' = Received
  BY DEF SendStatus, InWriter, InDispatcher, InIncoming, InReader, Received
<1>3. CASE outgoing' = Append(outgoing, Status(mode))
  <2>1. ToSet(outgoing') = ToSet(outgoing) \cup {Status(mode)}
    BY <1>1, <1>3, AppendedSet
  <2>2. InOutgoing' = InOutgoing
    BY <2>1, Kinds DEF InOutgoing
  <2>3. RepliesSorted(sent, outgoing')
    <3>1. \A q \in Requests : Status(mode) # Reply(q)
      BY Kinds
    <3> QED
      BY <1>1, <1>3, <3>1, RepliesAppend DEF OrderInv
  <2> QED
    BY <1>2, <2>2, <2>3, StagesShrink DEF OrderInv, SendStatus
<1>4. CASE outgoing' = outgoing
  BY <1>2, <1>4, StagesShrink DEF OrderInv, SendStatus, InOutgoing
<1> QED
  BY <1>3, <1>4 DEF SendStatus, Sent

LEMMA OutgoingOrder ==
    ASSUME OwnerInv, OrderInv, TakeOutgoing
    PROVE  OrderInv'
<1>1. /\ outgoing \in Seq(Outgoing) /\ IsInjective(outgoing) /\ outgoing # <<>>
      /\ writer' = Head(outgoing) /\ writer = NoTree
      /\ outgoing' = Tail(outgoing)
  BY DEF OwnerInv, QueueTypes, TakeOutgoing
<1>2. /\ Head(outgoing) \in ToSet(outgoing)
      /\ ToSet(outgoing') = ToSet(outgoing) \ {Head(outgoing)}
  BY <1>1, Taken
<1>3. /\ RepliesSorted(sent, outgoing')
      /\ \A r, q \in Requests : writer' = Reply(r) /\ Reply(q) \in ToSet(outgoing')
                                   => BeforeIn(sent, r, q)
  BY <1>1, RepliesTail DEF OrderInv
<1>4. InWriter' \subseteq InOutgoing /\ InOutgoing' \subseteq InOutgoing
  BY <1>1, <1>2 DEF InWriter, InOutgoing
<1>5. Ahead(sent, InWriter', InOutgoing')
  BY <1>3 DEF InWriter, InOutgoing, Ahead
<1>6. /\ Written' = Written /\ InIncoming' = InIncoming /\ InDispatcher' = InDispatcher
      /\ InReader' = InReader /\ Received' = Received
  BY DEF TakeOutgoing, Written, InDispatcher, InIncoming, InReader, Received
<1>7. Line(sent, Written, InWriter', InOutgoing', InDispatcher, InIncoming, InReader,
           Received)
  BY <1>4, <1>5 DEF OrderInv, Line, Ahead
<1> QED
  BY <1>3, <1>6, <1>7 DEF OrderInv, TakeOutgoing

LEMMA WriteOrder ==
    ASSUME OwnerInv, OrderInv, WriteOut
    PROVE  OrderInv'
<1>1. writer' = NoTree /\ writer \in Outgoing
  BY DEF OwnerInv, HandTypes, WriteOut, Writing
<1>2. InWriter' = {}
  BY <1>1, Kinds DEF InWriter
<1>3. /\ InOutgoing' = InOutgoing /\ InIncoming' = InIncoming
      /\ InDispatcher' = InDispatcher /\ InReader' = InReader /\ Received' = Received
  BY DEF WriteOut, InOutgoing, InDispatcher, InIncoming, InReader, Received
<1>4. CASE \E r \in Requests : writer = Reply(r) /\ answered' = Append(answered, r)
  <2> PICK r \in Requests : writer = Reply(r) /\ answered' = Append(answered, r)
    BY <1>4
  <2>1. r \in InWriter
    BY DEF InWriter
  <2>2. Written' = Written \cup {r}
    BY AppendedSet DEF OrderInv, Written
  <2>3. Sorted(sent, answered')
    <3>1. Ahead(sent, ToSet(answered), {r})
      BY <2>1 DEF OrderInv, Line, Ahead, Written
    <3> QED
      BY <3>1, SortedAppend DEF OrderInv
  <2>4. Line(sent, Written', {}, InOutgoing, InDispatcher, InIncoming, InReader, Received)
    BY <2>1, <2>2 DEF OrderInv, Line, Ahead
  <2>5. Written' \subseteq ToSet(sent)
    BY <2>1, <2>2, StagesAreSent
  <2>6. answered' \in Seq(Requests)
    BY DEF OrderInv
  <2> QED
    BY <1>2, <1>3, <2>3, <2>4, <2>5, <2>6 DEF OrderInv, WriteOut
<1>5. CASE answered' = answered
  BY <1>2, <1>3, <1>5, StagesShrink DEF OrderInv, WriteOut
<1>6. \/ answered' = answered
      \/ writer[1] = "reply" /\ answered' = Append(answered, writer[2])
  BY DEF WriteOut
<1>7. CASE \E r \in Requests : writer = Reply(r)
  BY <1>4, <1>5, <1>6, <1>7 DEF Reply
<1>8. CASE \E s \in Statuses : writer = Status(s)
  BY <1>5, <1>6, <1>8 DEF Status
<1> QED
  BY <1>1, <1>7, <1>8 DEF Outgoing

(* No other action moves a request to a later stage.                       *)
LEMMA OthersOrder ==
    ASSUME OwnerInv, OrderInv,
           \/ FreePayload \/ ChangeMode \/ GetOrSetParameter \/ UnknownMessage
           \/ DeleteRequest \/ PrintFails \/ NullDereferenced \/ (\E s \in Statuses : MakeStatus(s))
           \/ UNCHANGED vars
    PROVE  OrderInv'
<1>1. UNCHANGED <<sent, rx, incoming, outgoing, answered>>
  BY DEF FreePayload, ChangeMode, GetOrSetParameter, UnknownMessage, DeleteRequest,
         PrintFails, NullDereferenced, MakeStatus, vars, Handle
<1>2. InDispatcher' \subseteq InDispatcher
  BY DEF FreePayload, ChangeMode, GetOrSetParameter, UnknownMessage, DeleteRequest,
         PrintFails, NullDereferenced, MakeStatus, vars, Handle, InDispatcher, OwnerInv, HandTypes, Place, Nobody
<1>3. InReader' \subseteq InReader
  BY DEF FreePayload, ChangeMode, GetOrSetParameter, UnknownMessage, DeleteRequest,
         PrintFails, NullDereferenced, MakeStatus, vars, Handle, InReader, Nobody
<1>4. InWriter' \subseteq InWriter
  BY Kinds DEF FreePayload, ChangeMode, GetOrSetParameter, UnknownMessage, DeleteRequest,
               PrintFails, NullDereferenced, MakeStatus, vars, Handle, InWriter
<1>5. /\ InOutgoing' = InOutgoing /\ InIncoming' = InIncoming /\ Received' = Received
  BY <1>1 DEF InOutgoing, InIncoming, Received
<1> QED
  BY <1>1, <1>2, <1>3, <1>4, <1>5, StagesShrink DEF OrderInv

LEMMA OrderAtFirst == Init => OrderInv
  BY Kinds DEF Init, OrderInv, Written, InWriter, InOutgoing, InDispatcher, InIncoming,
               InReader, Received, Sorted, RepliesSorted, Line, Ahead, ToSet, Nobody

LEMMA OrderHolds == Spec => []OrderInv
<1>1. Init' => OrderInv'
  BY OrderAtFirst, PTL
<1>2. OwnerInv /\ OrderInv /\ [Next]_vars => OrderInv'
  BY FrameOrder, ReadOrder, ParseOrder, TakeOrder, AnswerOrder, SendStatusOrder,
     OutgoingOrder, WriteOrder, OthersOrder, RestartIsInit, <1>1
  DEF Next, ReadTask, Dispatcher, WriteTask
<1> QED
  BY OrderAtFirst, <1>2, OwnerInvHolds, PTL DEF Spec

(* Answers leave in the order in which their requests came in, whatever is *)
(* lost on the way: no stage of the chain reorders and none is overtaken.  *)
THEOREM OrderOfAnswers == Spec => []AnswersInOrder
<1>1. OrderInv => AnswersInOrder
  BY DEF OrderInv, Sorted, BeforeIn, AnswersInOrder
<1> QED
  BY <1>1, OrderHolds, PTL
====
