---- MODULE JsonQueues ----
(***************************************************************************)
(* The messages between a client and the still: web_socket_read_task and   *)
(* web_socket_write_task (src/src/webSocketServer.c), handleClientMessage, *)
(* sendStatusToClient and sendAckToClient (src/src/jsonClient.c), and the  *)
(* three queues between them. Every send has the timeout 0: what does not  *)
(* fit is lost, and nobody frees it.                                       *)
(*                                                                         *)
(* A heap object is the payload of a frame, the cJSON tree parsed from it, *)
(* the tree of an answer, or the tree of a status or its part "t". Any     *)
(* allocation may fail; what was asked for is then a pointer to NULL,      *)
(* which is queued and taken like another.                                 *)
(***************************************************************************)
EXTENDS Naturals, Sequences, SequencesExt

CONSTANTS
    Requests,   \* the clients' messages, each a well-formed masked frame
    Statuses,   \* status trees that exist at the same time
    Capacity    \* length of each queue, 10 in the build

ASSUME CapacityAssumption == Capacity \in Nat \ {0}
ASSUME StatusesAssumption == "none" \notin Statuses

VARIABLES
    sent,       \* history: the requests, in the order they were received
    rx,         \* WebSocket_rx_queue
    incoming,   \* Json_incoming_queue
    outgoing,   \* Json_outgoing_queue
    reader,     \* the frame the read task is at, and where
    disp,       \* the request the dispatcher handles, and where
    mode,       \* the status the working mode is about to send, or "none"
    writer,     \* the tree the write task is at, NoTree, or Returned
    live,       \* the objects asked for and not freed
    null,       \* those of them that the heap had no memory for
    lost,       \* history: those nobody refers to any more
    answered,   \* history: the answers written to a client, in order
    panicked    \* whether the chip has panicked and is about to restart

heap == <<live, null, lost>>
vars == <<sent, rx, incoming, outgoing, reader, disp, mode, writer, heap,
          answered, panicked>>

Payload(r) == <<"payload", r>>
Tree(r) == <<"tree", r>>
Reply(r) == <<"reply", r>>
Status(s) == <<"status", s>>
Temps(s) == <<"temps", s>>
NoTree == <<"none">>
Returned == <<"returned">>
Nobody == [req |-> "none", at |-> "idle"]

Init == /\ sent = <<>>
        /\ rx = <<>> /\ incoming = <<>> /\ outgoing = <<>>
        /\ reader = Nobody
        /\ disp = Nobody
        /\ mode = "none"
        /\ writer = NoTree
        /\ live = {} /\ null = {} /\ lost = {}
        /\ answered = <<>>
        /\ panicked = FALSE

Running == ~panicked /\ UNCHANGED panicked

(* xQueueSend(queue, &item, 0)                                             *)
Fits(queue) == Len(queue) < Capacity
Sent_front(queue, item) ==              \* mutant: xQueueSendToFront
    IF Fits(queue) THEN <<item>> \o queue ELSE queue
Sent(queue, item) == IF Fits(queue) THEN Append(queue, item) ELSE queue
LostOn(queue, item) == IF Fits(queue) THEN {} ELSE {item}

(* An object is asked for: there it is, or there is no memory for it.      *)
Ask(object) == /\ live' = live \cup {object}
               /\ null' \in {null, null \cup {object}}

-----------------------------------------------------------------------------
(* ws_server_netconn_serve decodes a masked frame into a payload of its    *)
(* own, if there is memory, and hands that of a text to the read task;     *)
(* that of another opcode nobody frees.                                    *)
ReceiveFrame(r) ==
    /\ Running
    /\ r \notin ToSet(sent)
    /\ sent' = Append(sent, r)
    /\ \/ UNCHANGED <<rx, live, lost>>
       \/ /\ live' = live \cup {Payload(r)}
          /\ \/ rx' = Sent(rx, r) /\ lost' = lost \cup LostOn(rx, Payload(r))
             \/ UNCHANGED rx /\ lost' = lost \cup {Payload(r)}
    /\ UNCHANGED <<incoming, outgoing, reader, disp, mode, writer, null, answered>>

(* web_socket_read_task                                                    *)
ReadFrame ==
    /\ Running
    /\ reader.at = "idle"
    /\ rx # <<>>
    /\ reader' = [req |-> Head(rx), at |-> "parse"]
    /\ rx' = Tail(rx)
    /\ UNCHANGED <<sent, incoming, outgoing, disp, mode, writer, heap, answered>>

(* A text that is no JSON, or no memory, makes the tree NULL, and it is    *)
(* queued all the same.                                                    *)
ParseAndSend ==
    /\ Running
    /\ reader.at = "parse"
    /\ Ask(Tree(reader.req))
    /\ incoming' = Sent(incoming, reader.req)
    /\ lost' = lost \cup LostOn(incoming, Tree(reader.req))
    /\ reader' = [reader EXCEPT !.at = "free"]
    /\ UNCHANGED <<sent, rx, outgoing, disp, mode, writer, answered>>

(* Mutant: the payload is not freed by the read task.                      *)
FreePayload_missing ==
    /\ Running
    /\ reader.at = "free"
    /\ reader' = Nobody
    /\ UNCHANGED <<sent, rx, incoming, outgoing, disp, mode, writer, heap, answered>>

FreePayload ==
    /\ Running
    /\ reader.at = "free"
    /\ live' = live \ {Payload(reader.req)}
    /\ reader' = Nobody
    /\ UNCHANGED <<sent, rx, incoming, outgoing, disp, mode, writer, null, lost,
                   answered>>

-----------------------------------------------------------------------------
(* handleClientMessage                                                     *)

TakeRequest ==
    /\ Running
    /\ disp.at = "idle"
    /\ incoming # <<>>
    /\ disp' = [req |-> Head(incoming), at |-> "handle"]
    /\ incoming' = Tail(incoming)
    /\ UNCHANGED <<sent, rx, outgoing, reader, mode, writer, heap, answered>>

(* A message may lack a member that is read before anything else is done   *)
(* (lines 61, 64, 72, 80, 81), and a NULL tree has none: its NULL is       *)
(* dereferenced.                                                           *)
NullDereferenced ==
    /\ ~panicked
    /\ disp.at = "handle"
    /\ panicked' = TRUE
    /\ UNCHANGED <<sent, rx, incoming, outgoing, reader, disp, mode, writer, heap,
                   answered>>

Handle(at) == /\ Running
              /\ disp.at = "handle"
              /\ Tree(disp.req) \notin null
              /\ disp' = [disp EXCEPT !.at = at]

(* A change of the mode deletes the task of the old one, with the status   *)
(* it was about to send; an unknown mode deletes nothing and is answered   *)
(* like the rest.                                                          *)
ChangeMode ==
    /\ Handle("answer")
    /\ \/ UNCHANGED <<mode, lost>>
       \/ /\ mode # "none"
          /\ lost' = lost \cup {Status(mode)}
          /\ mode' = "none"
    /\ UNCHANGED <<sent, rx, incoming, outgoing, reader, writer, live, null, answered>>

GetOrSetParameter ==
    /\ Handle("answer")
    /\ UNCHANGED <<sent, rx, incoming, outgoing, reader, mode, writer, heap, answered>>

(* Mutant: an unknown message returns before its tree is deleted.          *)
UnknownMessage_returns ==
    /\ Running
    /\ disp.at = "handle"
    /\ disp' = Nobody
    /\ UNCHANGED <<sent, rx, incoming, outgoing, reader, mode, writer, heap, answered>>

UnknownMessage ==
    /\ Handle("delete")
    /\ UNCHANGED <<sent, rx, incoming, outgoing, reader, mode, writer, heap, answered>>

SendAnswer ==
    /\ Running
    /\ disp.at = "answer"
    /\ Ask(Reply(disp.req))
    /\ outgoing' = Sent(outgoing, Reply(disp.req))
    /\ lost' = lost \cup LostOn(outgoing, Reply(disp.req))
    /\ disp' = [disp EXCEPT !.at = "delete"]
    /\ UNCHANGED <<sent, rx, incoming, reader, mode, writer, answered>>

DeleteRequest ==
    /\ Running
    /\ disp.at = "delete"
    /\ live' = live \ {Tree(disp.req)}
    /\ disp' = Nobody
    /\ UNCHANGED <<sent, rx, incoming, outgoing, reader, mode, writer, null, lost,
                   answered>>

-----------------------------------------------------------------------------
(* sendStatusToClient of the working mode: the tree is made, then sent.    *)
(* The object "t" is part of the tree, unless there was no memory for it,  *)
(* or none for the root or the name: then nobody refers to it any more.    *)
MakeStatus(s) ==
    /\ Running
    /\ mode = "none"
    /\ Status(s) \notin live /\ Temps(s) \notin live
    /\ mode' = s
    /\ null' \in {null, null \cup {Status(s)}}
    /\ \/ live' = live \cup {Status(s)} /\ UNCHANGED lost
       \/ /\ live' = live \cup {Status(s), Temps(s)}
          /\ lost' = lost \cup {Temps(s)}
    /\ UNCHANGED <<sent, rx, incoming, outgoing, reader, disp, writer, answered>>

SendStatus ==
    /\ Running
    /\ mode # "none"
    /\ outgoing' = Sent(outgoing, Status(mode))
    /\ lost' = lost \cup LostOn(outgoing, Status(mode))
    /\ mode' = "none"
    /\ UNCHANGED <<sent, rx, incoming, reader, disp, writer, live, null, answered>>

-----------------------------------------------------------------------------
(* web_socket_write_task                                                   *)

TakeOutgoing ==
    /\ Running
    /\ writer = NoTree
    /\ outgoing # <<>>
    /\ writer' = Head(outgoing)
    /\ outgoing' = Tail(outgoing)
    /\ UNCHANGED <<sent, rx, incoming, reader, disp, mode, heap, answered>>

Writing == writer \notin {NoTree, Returned}

(* The text is written, or WS_write_data reports an error, which is only   *)
(* printed, and the tree is deleted.                                       *)
WriteOut ==
    /\ Running
    /\ Writing
    /\ writer \notin null
    /\ \/ UNCHANGED answered
       \/ /\ writer[1] = "reply"
          /\ answered' = Append(answered, writer[2])
    /\ live' = live \ {writer}
    /\ writer' = NoTree
    /\ UNCHANGED <<sent, rx, incoming, outgoing, reader, disp, mode, null, lost>>

(* A NULL tree has no text, and another may find no memory for it. The     *)
(* task function returns, which FreeRTOS does not allow: the task is gone  *)
(* for good, or the chip panics.                                           *)
PrintFails ==
    /\ ~panicked
    /\ Writing
    /\ lost' = lost \cup {writer}
    /\ writer' = Returned
    /\ panicked' \in BOOLEAN
    /\ UNCHANGED <<sent, rx, incoming, outgoing, reader, disp, mode, live, null,
                   answered>>

-----------------------------------------------------------------------------
(* After a panic everything starts anew.                                   *)
Restart == /\ panicked
           /\ sent' = <<>>
           /\ rx' = <<>> /\ incoming' = <<>> /\ outgoing' = <<>>
           /\ reader' = Nobody
           /\ disp' = Nobody
           /\ mode' = "none"
           /\ writer' = NoTree
           /\ live' = {} /\ null' = {} /\ lost' = {}
           /\ answered' = <<>>
           /\ panicked' = FALSE

ReadTask == ReadFrame \/ ParseAndSend \/ FreePayload
Dispatcher == \/ TakeRequest
              \/ NullDereferenced
              \/ ChangeMode
              \/ GetOrSetParameter
              \/ UnknownMessage
              \/ SendAnswer
              \/ DeleteRequest
WriteTask == TakeOutgoing \/ WriteOut \/ PrintFails

Next == \/ \E r \in Requests : ReceiveFrame(r)
        \/ ReadTask
        \/ Dispatcher
        \/ \E s \in Statuses : MakeStatus(s)
        \/ SendStatus
        \/ WriteTask
        \/ Restart

(* The three tasks block only on their queues, and a panic restarts.       *)
Spec == /\ Init
        /\ [][Next]_vars
        /\ WF_vars(ReadTask)
        /\ WF_vars(Dispatcher)
        /\ WF_vars(WriteTask)
        /\ WF_vars(Restart)

-----------------------------------------------------------------------------
(* Properties.                                                             *)

InQueues == {Payload(r) : r \in ToSet(rx)} \cup {Tree(r) : r \in ToSet(incoming)}
               \cup ToSet(outgoing)

InHands ==
    (IF reader.at = "idle" THEN {} ELSE {Payload(reader.req)})
       \cup (IF disp.at = "idle" THEN {} ELSE {Tree(disp.req)})
       \cup (IF mode = "none" THEN {} ELSE {Status(mode)})
       \cup (IF Writing THEN {writer} ELSE {})

(* The queues hold what they may and no more than their capacity.          *)
TypeOK ==
    /\ ToSet(sent) \subseteq Requests
    /\ \A q \in {rx, incoming} : /\ ToSet(q) \subseteq Requests
                                 /\ Len(q) <= Capacity
    /\ Len(outgoing) <= Capacity
    /\ reader.at \in {"idle", "parse", "free"}
    /\ disp.at \in {"idle", "handle", "answer", "delete"}
    /\ mode \in Statuses \cup {"none"}

(* Every object has exactly one owner: it is in one queue or in the hands  *)
(* of one task, or nobody will ever free it, because of a full queue       *)
(* (jsonClient.c 46 53 77, webSocketServer.c 59), a frame that is no text  *)
(* (WebSocket_Task.c 238), a status without memory for a part              *)
(* (jsonClient.c 42), a deleted mode or the return of the write task. No   *)
(* owner's object is freed by another.                                     *)
EveryObjectHasOneOwner ==
    /\ live = InQueues \cup InHands \cup lost
    /\ InQueues \cap InHands = {}
    /\ lost \cap (InQueues \cup InHands) = {}
    /\ \A q \in {rx, incoming, outgoing} : IsInjective(q)

(* Answers leave in the order of the requests, at most one for each: an    *)
(* answer names no request, so a client can match it by its order only     *)
(* (jsonClient.c 49-54, 75-77).                                            *)
AnswersInOrder ==
    \A i, j \in 1..Len(answered) :
        i < j => \E k, l \in 1..Len(sent) : /\ k < l
                                            /\ sent[k] = answered[i]
                                            /\ sent[l] = answered[j]

(* A tree the dispatcher's queue has taken is handled and freed, whatever  *)
(* becomes of the answer and of the write task, or the chip restarts. An   *)
(* answer that was queued is written or given up, and freed, unless the    *)
(* write task has returned or the chip restarts.                           *)
QueuedIsServed ==
    \A r \in Requests :
        /\ r \in ToSet(incoming) ~> Tree(r) \notin live
        /\ Reply(r) \in ToSet(outgoing) ~>
              Reply(r) \notin live \/ writer = Returned
====
