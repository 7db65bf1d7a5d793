---- MODULE WebSocketServer ----
(***************************************************************************)
(* lib/websocket/WebSocket_Task.c: the server task, which serves one       *)
(* connection at a time, and WS_write_data, which the write task of        *)
(* webSocketServer.c calls meanwhile. They share the pointer WS_conn and   *)
(* no lock. The server's buffers are followed to where they are freed or   *)
(* lost; the payloads it queues are those of JsonQueues.                   *)
(***************************************************************************)
EXTENDS Naturals, Sequences, SequencesExt, FiniteSets

CONSTANTS
    Conns,      \* netconn structures; a deleted one may be allocated again
    NULL,
    MaxLost     \* where the history variable lost stops counting

ASSUME NullAssumption == NULL \notin Conns
ASSUME MaxLostAssumption == MaxLost \in Nat

VARIABLES
    backlog,    \* connections that wait to be accepted
    conn,       \* the connection the server task serves, or NULL
    spc,        \* where the server task is
    hungUp,     \* connections whose client has closed or gone
    WS_conn,    \* the pointer to the open WebSocket connection
    bufs,       \* live buffers: p_SHA1_Inp, p_SHA1_result, base64
    inbuf,      \* the pointer inbuf: "unset", NULL, or what it points to
    lost,       \* history: buffers lost while this connection is served
    bad,        \* history: a pointer was freed that malloc had not returned
    unmasked,   \* history: a client sent a text without a mask
    wpc,        \* where the write task is in WS_write_data
    result,     \* what WS_write_data returned
    heard       \* history: what the server last sent on each connection

memVars == <<bufs, inbuf, lost, bad, unmasked>>
serverVars == <<backlog, conn, spc, hungUp, WS_conn, memVars>>
writeVars == <<wpc, result>>
vars == <<serverVars, writeVars, heard>>

Init == /\ backlog = <<>>
        /\ conn = NULL
        /\ spc = "accept"
        /\ hungUp = {}
        /\ WS_conn = NULL
        /\ bufs = {}
        /\ inbuf = "unset"
        /\ lost = 0
        /\ bad = FALSE
        /\ unmasked = FALSE
        /\ wpc = "idle"
        /\ result = "none"
        /\ heard = [c \in Conns |-> "nothing"]

-----------------------------------------------------------------------------
(* Clients.                                                                *)

Connect(c) == /\ spc # "closed"
              /\ c \notin ToSet(backlog) \cup {conn}
              /\ backlog' = Append(backlog, c)
              /\ hungUp' = hungUp \ {c}
              /\ UNCHANGED <<conn, spc, WS_conn, memVars, writeVars, heard>>

(* A close frame, a reset, or a lost link.                                 *)
HangUp(c) == /\ c \in (ToSet(backlog) \cup {conn}) \ hungUp
             /\ hungUp' = hungUp \cup {c}
             /\ UNCHANGED <<backlog, conn, spc, WS_conn, memVars, writeVars,
                            heard>>

-----------------------------------------------------------------------------
(* The server task: ws_server and ws_server_netconn_serve.                 *)

Goto(there) == spc' = there

Loses(n) == lost' = IF lost + n < MaxLost THEN lost + n ELSE MaxLost

NotWriting == UNCHANGED writeVars

Accept == /\ spc = "accept"
          /\ backlog # <<>>
          /\ conn' = Head(backlog)
          /\ backlog' = Tail(backlog)
          /\ Goto("alloc")
          /\ inbuf' = "unset"
          /\ lost' = 0
          /\ UNCHANGED <<hungUp, WS_conn, bufs, bad, unmasked, heard>>
          /\ NotWriting

(* Any error of netconn_accept ends the loop: the listener is closed, with *)
(* whoever waits on it, and nothing opens it again.                        *)
AcceptFails == /\ spc = "accept"
               /\ backlog' = <<>>
               /\ Goto("closed")
               /\ UNCHANGED <<conn, hungUp, WS_conn, memVars, heard>>
               /\ NotWriting

ShaBufs == {"p_SHA1_Inp", "p_SHA1_result"}

(* Without memory for both, what was allocated is not freed.               *)
Alloc == /\ spc = "alloc"
         /\ bufs' \in SUBSET ShaBufs
         /\ Goto(IF bufs' = ShaBufs THEN "handshake" ELSE "release")
         /\ UNCHANGED <<backlog, conn, hungUp, WS_conn, inbuf, lost, bad,
                        unmasked, heard>>
         /\ NotWriting

(* The request is received, or netconn_recv fails, which makes inbuf NULL.  *)
Handshake == /\ spc = "handshake"
             /\ \/ inbuf' = "handshake" /\ Goto("key")
                \/ inbuf' = "NULL" /\ Goto("release")
             /\ UNCHANGED <<backlog, conn, hungUp, WS_conn, bufs, lost, bad,
                            unmasked, heard>>
             /\ NotWriting

(* Mutant: the pointer is set before the handshake is answered.            *)
FindKey_points == /\ spc = "key"
                  /\ bufs' = {"base64"}
                  /\ WS_conn' = conn
                  /\ Goto("answer")
                  /\ UNCHANGED <<backlog, conn, hungUp, inbuf, lost, bad,
                                 unmasked, heard>>
                  /\ NotWriting

(* Sec-WebSocket-Key is found or not; the base64 text of its hash may find *)
(* no memory, which is not looked at.                                      *)
FindKey == /\ spc = "key"
           /\ \/ bufs' \in {{}, {"base64"}} /\ Goto("answer")
              \/ Goto("release") /\ UNCHANGED bufs
           /\ UNCHANGED <<backlog, conn, hungUp, WS_conn, inbuf, lost, bad,
                          unmasked, heard>>
           /\ NotWriting

(* The handshake's write is not checked, so it also succeeds on a          *)
(* connection that was hung up after the request had come in.              *)
SendHandshake ==
    /\ spc = "answer"
    /\ \/ /\ bufs' = {}
          /\ WS_conn' = conn
          /\ heard' = [heard EXCEPT ![conn] = "answer"]
          /\ Goto("serve")
       \/ Goto("release") /\ UNCHANGED <<bufs, WS_conn, heard>>
    /\ UNCHANGED <<backlog, conn, hungUp, inbuf, lost, bad, unmasked>>
    /\ NotWriting

Held(buf) == IF buf \in {"handshake", "frame"} THEN 1 ELSE 0

(* Mutant: the frame's netbuf is not deleted.                              *)
ServeFrame_keeps ==
    /\ spc = "serve"
    /\ Loses(Held(inbuf))
    /\ inbuf' = "frame"
    /\ UNCHANGED <<backlog, conn, spc, hungUp, WS_conn, bufs, bad, unmasked,
                   heard>>
    /\ NotWriting

(* A frame of any opcode: netconn_recv overwrites inbuf, and the netbuf of *)
(* the frame is deleted at the end of the turn. What becomes of a masked   *)
(* payload is modelled in JsonQueues; of an unmasked text the read task    *)
(* frees a pointer into the deleted netbuf.                                *)
ServeFrame ==
    /\ spc = "serve"
    /\ Loses(Held(inbuf))
    /\ inbuf' = "deleted"
    /\ \/ UNCHANGED <<bad, unmasked>>
       \/ bad' = TRUE /\ unmasked' = TRUE
    /\ UNCHANGED <<backlog, conn, spc, hungUp, WS_conn, bufs, heard>>
    /\ NotWriting

(* Mutant: netconn_recv leaves inbuf as it is when it fails.               *)
StopServing_dangling ==
    /\ spc = "serve"
    /\ Goto("release")
    /\ UNCHANGED <<backlog, conn, hungUp, WS_conn, memVars, heard>>
    /\ NotWriting

(* netconn_recv fails, be the client still there or not (it needs memory   *)
(* for the netbuf), or a close frame arrives.                              *)
StopServing == /\ spc = "serve"
               /\ Loses(Held(inbuf))
               /\ \/ inbuf' = "NULL"
                  \/ inbuf' = "frame" /\ conn \in hungUp
               /\ Goto("release")
               /\ UNCHANGED <<backlog, conn, hungUp, WS_conn, bufs, bad,
                              unmasked, heard>>
               /\ NotWriting

(* Mutant: the pointer is left as it is.                                   *)
Release_keeps == /\ spc = "release"
                 /\ Goto("delete")
                 /\ UNCHANGED <<backlog, conn, hungUp, WS_conn, memVars, heard>>
                 /\ NotWriting

Release == /\ spc = "release"
           /\ WS_conn' = NULL
           /\ Goto("delete")
           /\ UNCHANGED <<backlog, conn, hungUp, memVars, heard>>
           /\ NotWriting

(* Mutant: the task ends with its first connection.                        *)
DeleteConn_ends == /\ spc = "delete"
                   /\ conn' = NULL
                   /\ Goto("ended")
                   /\ UNCHANGED <<backlog, hungUp, WS_conn, memVars, heard>>
                   /\ NotWriting

(* netbuf_delete(inbuf), close and delete; the locals are gone. What the   *)
(* uninitialised inbuf points to may happen to be NULL.                    *)
DeleteConn == /\ spc = "delete"
              /\ conn' = NULL
              /\ Goto("accept")
              /\ \/ bad' = (bad \/ inbuf \in {"unset", "deleted"})
                 \/ inbuf = "unset" /\ UNCHANGED bad
              /\ Loses(Cardinality(bufs))
              /\ bufs' = {}
              /\ heard' = [heard EXCEPT ![conn] = "nothing"]
              /\ UNCHANGED <<backlog, hungUp, WS_conn, inbuf, unmasked>>
              /\ NotWriting

-----------------------------------------------------------------------------
(* WS_write_data, which reads WS_conn for its check and for each write.    *)

Refuse(err) == wpc' = "done" /\ result' = err

BeginWrite ==
    /\ wpc = "idle"
    /\ IF WS_conn = NULL
         THEN Refuse("ERR_CONN")
         ELSE \/ Refuse("ERR_VAL")      \* longer than WS_STD_LEN
              \/ wpc' = "header" /\ UNCHANGED result
    /\ UNCHANGED <<serverVars, heard>>

(* netconn_write on WS_conn: it refuses NULL, and may fail on a connection *)
(* that is hung up.                                                        *)
Sends(part) == /\ WS_conn # NULL
               /\ heard' = [heard EXCEPT ![WS_conn] = part]

SendFails == /\ WS_conn = NULL \/ WS_conn \in hungUp
             /\ Refuse("failed")
             /\ UNCHANGED heard

WriteHeader ==
    /\ wpc = "header"
    /\ \/ Sends("header") /\ wpc' = "payload" /\ UNCHANGED result
       \/ SendFails
    /\ UNCHANGED serverVars

WritePayload ==
    /\ wpc = "payload"
    /\ \/ Sends("payload") /\ Refuse("ERR_OK")
       \/ SendFails
    /\ UNCHANGED serverVars

(* The write task reports an error and goes on with the next message.      *)
EndWrite ==
    /\ wpc = "done"
    /\ wpc' = "idle"
    /\ result' = "none"
    /\ UNCHANGED <<serverVars, heard>>

Server == Accept \/ AcceptFails \/ Alloc \/ Handshake \/ FindKey
          \/ SendHandshake \/ ServeFrame \/ StopServing \/ Release
          \/ DeleteConn
Write == BeginWrite \/ WriteHeader \/ WritePayload \/ EndWrite

Next == \/ \E c \in Conns : Connect(c) \/ HangUp(c)
        \/ Server
        \/ Write

(* A client that stays connected may keep the server waiting for its       *)
(* handshake or its next frame; one that has hung up does not. No error of *)
(* netconn_accept or netconn_recv has to come.                             *)
Spec == /\ Init
        /\ [][Next]_vars
        /\ WF_vars(Accept \/ Alloc \/ FindKey \/ SendHandshake \/ Release
                   \/ DeleteConn)
        /\ WF_vars(conn \in hungUp /\ StopServing)
        /\ WF_vars(conn \in hungUp /\ Handshake)
        /\ WF_vars(Write)

-----------------------------------------------------------------------------
(* Properties.                                                             *)

(* Every variable keeps its type, and no netconn is both served and queued. *)
TypeOK ==
    /\ ToSet(backlog) \subseteq Conns \ {conn}
    /\ IsInjective(backlog)
    /\ conn \in Conns \cup {NULL}
    /\ spc \in {"accept", "alloc", "handshake", "key", "answer", "serve",
               "release", "delete", "closed"}
    /\ bufs \subseteq ShaBufs \cup {"base64"}
    /\ inbuf \in {"unset", "NULL", "handshake", "frame", "deleted"}
    /\ lost \in 0..MaxLost
    /\ hungUp \subseteq Conns
    /\ WS_conn \in Conns \cup {NULL}
    /\ wpc \in {"idle", "header", "payload", "done"}
    /\ heard \in [Conns -> {"nothing", "answer", "header", "payload"}]

(* WS_conn is NULL or the connection the server task serves: it is set     *)
(* after the handshake and cleared before the connection is deleted, on    *)
(* every path out of ws_server_netconn_serve (lines 191, 267, 276).        *)
PointerIsTheServedConnection ==
    WS_conn # NULL => WS_conn = conn /\ spc \in {"serve", "release"}

(* If no client stays for ever, every client that waits is accepted, or    *)
(* the listener was closed for an error of netconn_accept (line 290): the  *)
(* server task comes back to netconn_accept from every other path,         *)
(* whatever the write task does with the connection meanwhile.             *)
WaitingClientIsAccepted ==
    (\A d \in Conns : []<>(conn # d \/ d \in hungUp))
        => \A c \in Conns :
              c \in ToSet(backlog) ~> conn = c \/ spc = "closed"

(* A client that is still there gets a header only after the answer to its *)
(* handshake or after a whole frame, and a payload only after its header,  *)
(* though WS_conn is read anew for each (lines 88, 95) and the server may  *)
(* turn to another client between the two. The one exception: the payload  *)
(* of a frame whose header went to the client before may be the first      *)
(* thing that follows the answer to the handshake.                         *)
PartsAlternate ==
    [][/\ wpc = "header" /\ wpc' = "payload" /\ WS_conn \notin hungUp
             => heard[WS_conn] \in {"answer", "payload"}
       /\ wpc = "payload" /\ result' = "ERR_OK"
             => heard[WS_conn] \in {"answer", "header"}]_vars

(* A pointer that malloc or netconn_recv did not return is freed only if   *)
(* there was no memory for the hash, which leaves inbuf uninitialised, or  *)
(* for a text without a mask (lines 133, 235, 270).                        *)
BadFreeIsExcused == bad' /\ ~bad => inbuf = "unset" \/ unmasked' # unmasked
NothingElseFreed == [][BadFreeIsExcused]_vars

(* A client whose handshake was answered costs the netbuf of its handshake *)
(* at most, which line 194 overwrites, however many frames of whatever     *)
(* kind it sends and however it leaves; one that was not answered costs at *)
(* most the two buffers of the hash.                                       *)
CostIsBounded ==
    conn # NULL /\ conn' = NULL
        => lost' <= IF heard[conn] = "nothing" THEN 2 ELSE 1
OneNetbufPerClient == [][CostIsBounded]_vars
====
