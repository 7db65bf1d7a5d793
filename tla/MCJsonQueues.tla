---- MODULE MCJsonQueues ----
(* Three requests and a status on queues of two: each queue can be full.   *)
EXTENDS JsonQueues

MCRequests == {"r1", "r2", "r3"}
MCStatuses == {"s1"}
MCCapacity == 2

(* Requests are told apart by when they come in only, so that they may     *)
(* come in the order of their names.                                       *)
NamedInOrder == sent = SubSeq(<<"r1", "r2", "r3">>, 1, Len(sent))
====
