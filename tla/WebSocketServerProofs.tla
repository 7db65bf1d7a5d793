---- MODULE WebSocketServerProofs ----
(***************************************************************************)
(* Theorems about WebSocketServer for any number of connections: the       *)
(* shared pointer, the two parts of a frame, and the server's buffers.     *)
(***************************************************************************)
EXTENDS WebSocketServer, TLAPS, FiniteSetTheorems

(* The server task between two connections has none; from the acceptance   *)
(* to the deletion it has one, which is a connection.                      *)
ServedInv ==
    /\ backlog \in Seq(Conns)
    /\ spc \in {"accept", "closed"} <=> conn = NULL
    /\ conn # NULL => conn \in Conns

(* The pointer is set only while its connection is served, and was         *)
(* answered, and is cleared before the connection is deleted.              *)
PointerInv ==
    WS_conn # NULL => WS_conn = conn /\ spc \in {"serve", "release"}

LEMMA ServedStep == ServedInv /\ [Next]_vars => ServedInv'
<1> SUFFICES ASSUME ServedInv, [Next]_vars
             PROVE  ServedInv'
  OBVIOUS
<1> USE NullAssumption DEF ServedInv, NotWriting, Goto, serverVars, memVars
<1>1. ASSUME NEW c \in Conns, Connect(c)
      PROVE  ServedInv'
  BY <1>1 DEF Connect
<1>2. ASSUME NEW c \in Conns, HangUp(c)
      PROVE  ServedInv'
  BY <1>2 DEF HangUp
<1>3. CASE Accept \/ AcceptFails
  <2>1. CASE AcceptFails
    BY <2>1 DEF AcceptFails
  <2>2. CASE Accept
    <3>1. Head(backlog) \in Conns /\ Tail(backlog) \in Seq(Conns)
      BY <2>2 DEF Accept
    <3> QED
      BY <2>2, <3>1 DEF Accept
  <2> QED
    BY <1>3, <2>1, <2>2
<1>4. CASE Alloc \/ Handshake \/ FindKey \/ SendHandshake
  BY <1>4 DEF Alloc, Handshake, FindKey, SendHandshake
<1>5. CASE ServeFrame \/ StopServing \/ Release \/ DeleteConn
  BY <1>5 DEF ServeFrame, StopServing, Release, DeleteConn
<1>6. CASE Write \/ UNCHANGED vars
  BY <1>6 DEF Write, BeginWrite, WriteHeader, WritePayload, EndWrite, vars
<1> QED
  BY <1>1, <1>2, <1>3, <1>4, <1>5, <1>6 DEF Next, Server

LEMMA PointerStep == ServedInv /\ PointerInv /\ [Next]_vars => PointerInv'
<1> SUFFICES ASSUME ServedInv, PointerInv, [Next]_vars
             PROVE  PointerInv'
  OBVIOUS
<1> USE NullAssumption DEF ServedInv, PointerInv, NotWriting, Goto, serverVars
<1>1. ASSUME NEW c \in Conns, Connect(c)
      PROVE  PointerInv'
  BY <1>1 DEF Connect
<1>2. ASSUME NEW c \in Conns, HangUp(c)
      PROVE  PointerInv'
  BY <1>2 DEF HangUp
<1>3. CASE Accept \/ AcceptFails
  BY <1>3 DEF Accept, AcceptFails
<1>4. CASE Alloc \/ Handshake \/ FindKey \/ SendHandshake
  BY <1>4 DEF Alloc, Handshake, FindKey, SendHandshake
<1>5. CASE ServeFrame \/ StopServing \/ Release \/ DeleteConn
  BY <1>5 DEF ServeFrame, StopServing, Release, DeleteConn
<1>6. CASE Write \/ UNCHANGED vars
  BY <1>6 DEF Write, BeginWrite, WriteHeader, WritePayload, EndWrite, vars
<1> QED
  BY <1>1, <1>2, <1>3, <1>4, <1>5, <1>6 DEF Next, Server

LEMMA PointerHolds == Spec => [](ServedInv /\ PointerInv)
<1>1. Init => ServedInv /\ PointerInv
  BY DEF Init, ServedInv, PointerInv
<1> QED
  BY <1>1, ServedStep, PointerStep, PTL DEF Spec

(* WS_conn is NULL or the connection being served, in every interleaving   *)
(* of the server, the writer and the clients.                              *)
THEOREM PointerCorrect == Spec => []PointerIsTheServedConnection
<1>1. PointerInv => PointerIsTheServedConnection
  BY DEF PointerInv, PointerIsTheServedConnection
<1> QED
  BY <1>1, PointerHolds, PTL

-----------------------------------------------------------------------------
(* What each connection has heard: nothing before its handshake is         *)
(* answered and after it is deleted; between two calls of WS_write_data    *)
(* the served client, if it is there, has no header without its payload,   *)
(* and within one it has at most one header more.                          *)
HeardInv ==
    /\ heard \in [Conns -> {"nothing", "answer", "header", "payload"}]
    /\ \A c \in Conns \ {conn} : heard[c] = "nothing"
    /\ conn # NULL /\ spc \notin {"serve", "release", "delete"}
          => heard[conn] = "nothing"
    /\ spc = "serve" => heard[conn] # "nothing"
    /\ WS_conn # NULL => heard[WS_conn] # "nothing"
    /\ WS_conn # NULL /\ wpc # "payload" /\ WS_conn \notin hungUp
          => heard[WS_conn] # "header"
    /\ WS_conn # NULL /\ wpc = "payload" => heard[WS_conn] # "payload"
    /\ wpc # "done" => result = "none"

LEMMA HeardStep ==
    ServedInv /\ PointerInv /\ HeardInv /\ [Next]_vars => HeardInv'
<1> SUFFICES ASSUME ServedInv, PointerInv, HeardInv, [Next]_vars
             PROVE  HeardInv'
  OBVIOUS
<1> USE NullAssumption DEF ServedInv, PointerInv, HeardInv, NotWriting, Goto,
        serverVars, writeVars, memVars, Refuse, Sends, SendFails
<1>1. ASSUME NEW c \in Conns, Connect(c)
      PROVE  HeardInv'
  BY <1>1 DEF Connect
<1>2. ASSUME NEW c \in Conns, HangUp(c)
      PROVE  HeardInv'
  BY <1>2 DEF HangUp
<1>3. CASE Accept \/ AcceptFails
  BY <1>3 DEF Accept, AcceptFails
<1>4. CASE Alloc \/ Handshake \/ FindKey
  BY <1>4 DEF Alloc, Handshake, FindKey
<1>5. CASE SendHandshake
  BY <1>5 DEF SendHandshake
<1>6. CASE ServeFrame \/ StopServing \/ Release
  BY <1>6 DEF ServeFrame, StopServing, Release
<1>7. CASE DeleteConn
  BY <1>7 DEF DeleteConn
<1>8. CASE BeginWrite \/ EndWrite
  BY <1>8 DEF BeginWrite, EndWrite
<1>9. CASE WriteHeader
  BY <1>9 DEF WriteHeader
<1>10. CASE WritePayload
  BY <1>10 DEF WritePayload
<1>11. CASE UNCHANGED vars
  BY <1>11 DEF vars
<1> QED
  BY <1>1, <1>2, <1>3, <1>4, <1>5, <1>6, <1>7, <1>8, <1>9, <1>10, <1>11
  DEF Next, Server, Write

(* Headers and payloads alternate for a client that is there, whatever the *)
(* server does between the two writes; only the first payload after the    *)
(* answer to a handshake may lack its header.                              *)
THEOREM PartsCorrect == Spec => PartsAlternate
<1>1. Init => HeardInv
  BY DEF Init, HeardInv
<1>2. ServedInv /\ PointerInv /\ HeardInv =>
        /\ wpc = "header" /\ wpc' = "payload" /\ WS_conn \notin hungUp /\ Next
              => heard[WS_conn] \in {"answer", "payload"}
        /\ wpc = "payload" /\ result' = "ERR_OK" /\ Next
              => heard[WS_conn] \in {"answer", "header"}
  <2> SUFFICES ASSUME ServedInv, PointerInv, HeardInv, Next
               PROVE  /\ wpc = "header" /\ wpc' = "payload" /\ WS_conn \notin hungUp
                            => heard[WS_conn] \in {"answer", "payload"}
                      /\ wpc = "payload" /\ result' = "ERR_OK"
                            => heard[WS_conn] \in {"answer", "header"}
    OBVIOUS
  <2> USE DEF HeardInv, Refuse, Sends, SendFails, serverVars, writeVars, NotWriting
  <2>0. ASSUME WS_conn # NULL, ServedInv
        PROVE  heard[WS_conn] \in {"answer", "header", "payload"}
    BY <2>0 DEF PointerInv, ServedInv
  <2>1. CASE Write
    BY <2>0, <2>1 DEF Write, BeginWrite, WriteHeader, WritePayload, EndWrite
  <2>2. CASE \E c \in Conns : Connect(c) \/ HangUp(c)
    BY <2>2 DEF Connect, HangUp
  <2>3. CASE Server
    BY <2>3 DEF Server, Accept, AcceptFails, Alloc, Handshake, FindKey,
                SendHandshake, ServeFrame, StopServing, Release, DeleteConn
  <2> QED
    BY <2>1, <2>2, <2>3 DEF Next
<1> QED
  BY <1>1, <1>2, HeardStep, PointerHolds, PTL DEF Spec, PartsAlternate

-----------------------------------------------------------------------------
(* What the server holds and has lost at each place: before the answer     *)
(* nothing is lost and at most two buffers are held, after it none is held *)
(* and the netbuf of the handshake is lost with the first frame or with    *)
(* the end of the serving.                                                 *)
Answered == {"serve", "release", "delete"}

BuffersInv ==
    /\ lost \in Nat
    /\ spc \in {"accept", "closed", "alloc"} => bufs = {}
    /\ conn # NULL /\ heard[conn] = "nothing"
          => lost = 0 /\ (bufs \subseteq ShaBufs \/ bufs \subseteq {"base64"})
    /\ conn # NULL /\ heard[conn] # "nothing"
          => bufs = {} /\ (lost = 0 \/ (lost = 1 /\ inbuf # "handshake"))
    /\ spc = "alloc" => inbuf = "unset"
    /\ spc \in {"key", "answer"} => inbuf = "handshake"
    /\ spc = "serve" => inbuf \in {"handshake", "deleted"}
    /\ spc \in {"release", "delete"} => inbuf # "deleted"

LEMMA LosesAtMost ==
    ASSUME lost \in Nat, NEW n \in Nat, Loses(n)
    PROVE  lost' \in Nat /\ lost' <= lost + n
  BY MaxLostAssumption DEF Loses

LEMMA BuffersAreFew ==
    ASSUME NEW S, S \subseteq ShaBufs \cup {"base64"}
    PROVE  /\ Cardinality(S) \in Nat
           /\ S \subseteq ShaBufs \/ S \subseteq {"base64"} => Cardinality(S) <= 2
           /\ S = {} => Cardinality(S) = 0
<1>1. /\ IsFiniteSet({"base64"}) /\ Cardinality({"base64"}) = 1
      /\ IsFiniteSet({"p_SHA1_result"}) /\ Cardinality({"p_SHA1_result"}) = 1
  BY FS_Singleton
<1>2. /\ IsFiniteSet({"p_SHA1_result"} \cup {"p_SHA1_Inp"})
      /\ Cardinality({"p_SHA1_result"} \cup {"p_SHA1_Inp"}) = 2
  BY <1>1, FS_AddElement
<1>3. ShaBufs = {"p_SHA1_result"} \cup {"p_SHA1_Inp"}
  BY DEF ShaBufs
<1>4. IsFiniteSet(ShaBufs) /\ Cardinality(ShaBufs) = 2
  BY <1>2, <1>3
<1>5. IsFiniteSet(ShaBufs \cup {"base64"})
  BY <1>4, FS_AddElement
<1>6. IsFiniteSet(S)
  BY <1>5, FS_Subset
<1>7. Cardinality(S) \in Nat
  BY <1>6, FS_CardinalityType
<1>8. S \subseteq ShaBufs => Cardinality(S) <= 2
  BY <1>4, FS_Subset
<1>9. S \subseteq {"base64"} => Cardinality(S) <= 1
  <2>1. ASSUME S \subseteq {"base64"}
        PROVE  Cardinality(S) <= Cardinality({"base64"})
    BY <1>1, <2>1, FS_Subset
  <2> QED
    BY <1>1, <2>1
<1> QED
  BY <1>7, <1>8, <1>9, FS_EmptySet

LEMMA HeldNat == Held(inbuf) \in Nat
  BY DEF Held

LEMMA BuffersStep ==
    ServedInv /\ PointerInv /\ HeardInv /\ BuffersInv /\ [Next]_vars => BuffersInv'
<1> SUFFICES ASSUME ServedInv, PointerInv, HeardInv, BuffersInv, [Next]_vars
             PROVE  BuffersInv'
  OBVIOUS
<1> USE NullAssumption
    DEF ServedInv, BuffersInv, NotWriting, Goto, serverVars, memVars
<1>1. ASSUME NEW c \in Conns, Connect(c) \/ HangUp(c)
      PROVE  BuffersInv'
  BY <1>1 DEF Connect, HangUp
<1>2. CASE Accept \/ AcceptFails
  <2>1. CASE AcceptFails
    BY <2>1 DEF AcceptFails
  <2>2. CASE Accept
    <3>1. /\ conn' \in Conns
          /\ heard' = heard
          /\ \A c \in Conns : heard[c] = "nothing"
      BY <2>2 DEF Accept, HeardInv
    <3> QED
      BY <2>2, <3>1 DEF Accept
  <2> QED
    BY <1>2, <2>1, <2>2
<1>3. CASE Alloc
  BY <1>3 DEF Alloc, HeardInv
<1>4. CASE Handshake
  BY <1>4 DEF Handshake, HeardInv
<1>5. CASE FindKey
  BY <1>5 DEF FindKey, HeardInv
<1>6. CASE SendHandshake
  <2>1. conn \in Conns /\ conn # NULL /\ heard[conn] = "nothing" /\ lost = 0
    BY <1>6 DEF SendHandshake, HeardInv
  <2>2. CASE /\ bufs' = {}
             /\ heard' = [heard EXCEPT ![conn] = "answer"]
             /\ spc' = "serve"
    <3>1. heard'[conn] = "answer"
      BY <2>1, <2>2 DEF HeardInv
    <3> QED
      <4>1. lost' = lost /\ inbuf' = inbuf /\ conn' = conn /\ inbuf = "handshake"
        BY <1>6 DEF SendHandshake
      <4>2. conn' # NULL /\ heard'[conn'] = "answer"
        BY <2>1, <3>1, <4>1
      <4>3. spc' = "serve" /\ bufs' = {} /\ lost' = 0 /\ inbuf' = "handshake"
        BY <2>1, <2>2, <4>1
      <4> QED
        BY <4>2, <4>3
  <2>3. CASE spc' = "release" /\ UNCHANGED <<bufs, WS_conn, heard>>
    BY <1>6, <2>1, <2>3 DEF SendHandshake
  <2> QED
    BY <1>6, <2>2, <2>3 DEF SendHandshake
<1>7. CASE ServeFrame \/ StopServing
  <2>1. heard' = heard /\ conn' = conn /\ bufs' = bufs
    BY <1>7 DEF ServeFrame, StopServing
  <2>2. lost' \in Nat /\ lost' <= lost + Held(inbuf)
    BY <1>7, HeldNat, LosesAtMost DEF ServeFrame, StopServing
  <2>3. spc = "serve" /\ conn \in Conns /\ conn # NULL /\ heard[conn] # "nothing"
    BY <1>7 DEF ServeFrame, StopServing, HeardInv
  <2>4. lost = 0 \/ (lost = 1 /\ inbuf = "deleted")
    BY <2>3
  <2>5. lost + Held(inbuf) \in 0..1
    BY <2>3, <2>4 DEF Held
  <2>6. lost' = 0 \/ lost' = 1
    BY <2>2, <2>5, HeldNat
  <2>7. inbuf' # "handshake" /\ spc' \in {"serve", "release"}
    BY <1>7 DEF ServeFrame, StopServing
  <2>8. /\ spc' = "serve" => inbuf' = "deleted"
        /\ spc' = "release" => inbuf' # "deleted"
    BY <1>7 DEF ServeFrame, StopServing
  <2> QED
    BY <2>1, <2>3, <2>6, <2>7, <2>8
<1>8. CASE Release
  BY <1>8 DEF Release
<1>9. CASE DeleteConn
  <2>1. lost' \in Nat
    BY <1>9, BuffersAreFew, LosesAtMost DEF DeleteConn
  <2> QED
    BY <1>9, <2>1 DEF DeleteConn
<1>10. CASE Write \/ UNCHANGED vars
  <2>1. UNCHANGED serverVars
    BY <1>10 DEF Write, BeginWrite, WriteHeader, WritePayload, EndWrite, vars
  <2>2. conn # NULL => (heard'[conn] = "nothing" <=> heard[conn] = "nothing")
    <3>1. CASE heard' = heard
      BY <3>1
    <3>2. ASSUME NEW part \in {"header", "payload"}, WS_conn # NULL,
                 heard' = [heard EXCEPT ![WS_conn] = part]
          PROVE  heard'[conn] # "nothing" /\ heard[conn] # "nothing"
      BY <3>2 DEF HeardInv, PointerInv
    <3> QED
      BY <1>10, <3>1, <3>2 DEF Write, BeginWrite, WriteHeader, WritePayload,
         EndWrite, Sends, SendFails, vars
  <2> QED
    BY <2>1, <2>2
<1> QED
  BY <1>1, <1>2, <1>3, <1>4, <1>5, <1>6, <1>7, <1>8, <1>9, <1>10
  DEF Next, Server

LEMMA BuffersHold == Spec => [](ServedInv /\ HeardInv /\ BuffersInv)
<1>1. Init => HeardInv /\ BuffersInv
  BY DEF Init, HeardInv, BuffersInv
<1> QED
  BY <1>1, HeardStep, BuffersStep, PointerHolds, PTL DEF Spec

(* A client whose handshake was answered costs one netbuf at most, however *)
(* many frames it sends, of whatever kind, and however it leaves; any      *)
(* other costs two buffers at most.                                        *)
THEOREM OneNetbuf == Spec => OneNetbufPerClient
<1>1. ServedInv /\ BuffersInv /\ [Next]_vars => [CostIsBounded]_vars
  <2> SUFFICES ASSUME ServedInv, BuffersInv, Next, conn # NULL, conn' = NULL
               PROVE  lost' <= IF heard[conn] = "nothing" THEN 2 ELSE 1
    BY DEF CostIsBounded
  <2> USE NullAssumption
      DEF ServedInv, BuffersInv, NotWriting, Goto, serverVars, memVars
  <2>1. CASE DeleteConn
    <3>1. CASE heard[conn] = "nothing"
      <4>1. Cardinality(bufs) \in Nat /\ Cardinality(bufs) <= 2
        BY <3>1, BuffersAreFew
      <4>2. lost' <= lost + Cardinality(bufs)
        BY <2>1, <4>1, LosesAtMost DEF DeleteConn
      <4> QED
        BY <2>1, <3>1, <4>1, <4>2 DEF DeleteConn, Loses
    <3>2. CASE heard[conn] # "nothing"
      <4>1. Cardinality(bufs) = 0
        BY <3>2, FS_EmptySet
      <4>2. lost' <= lost + 0
        BY <2>1, <4>1, LosesAtMost DEF DeleteConn
      <4> QED
        <5>1. lost \in 0..1
          BY <3>2
        <5>2. lost' \in Nat
          BY <2>1, <4>1, LosesAtMost DEF DeleteConn
        <5> QED
          BY <3>2, <4>2, <5>1, <5>2
    <3> QED
      BY <3>1, <3>2
  <2>2. CASE Accept
    BY <2>2 DEF Accept
  <2>3. CASE AcceptFails \/ Alloc \/ Handshake \/ FindKey \/ SendHandshake
    BY <2>3 DEF AcceptFails, Alloc, Handshake, FindKey, SendHandshake
  <2>4. CASE ServeFrame \/ StopServing \/ Release
    BY <2>4 DEF ServeFrame, StopServing, Release
  <2>5. CASE Write \/ \E c \in Conns : Connect(c) \/ HangUp(c)
    BY <2>5 DEF Write, BeginWrite, WriteHeader, WritePayload, EndWrite, Connect, HangUp
  <2> QED
    BY <2>1, <2>2, <2>3, <2>4, <2>5 DEF Next, Server
<1> QED
  BY <1>1, BuffersHold, PTL DEF Spec, OneNetbufPerClient

(* No step frees a pointer that was not allocated, except where the hash   *)
(* had no memory or a text had no mask.                                    *)
THEOREM FreesAreExcused == Spec => NothingElseFreed
<1>1. BuffersInv /\ (bad \/ ~unmasked) /\ [Next]_vars => [BadFreeIsExcused]_vars
  <2> SUFFICES ASSUME BuffersInv, bad \/ ~unmasked, Next
               PROVE  BadFreeIsExcused
    OBVIOUS
  <2> USE DEF BadFreeIsExcused, NotWriting, Goto, serverVars, memVars
  <2>1. CASE DeleteConn
    BY <2>1 DEF DeleteConn, BuffersInv
  <2>2. CASE ServeFrame
    <3>1. CASE UNCHANGED <<bad, unmasked>>
      BY <3>1
    <3>2. CASE bad' = TRUE /\ unmasked' = TRUE
      <4>1. ~bad => unmasked' # unmasked
        BY <3>2, Zenon
      <4> QED
        BY <4>1
    <3> QED
      BY <2>2, <3>1, <3>2 DEF ServeFrame
  <2>3. CASE Accept \/ AcceptFails \/ Alloc \/ Handshake \/ FindKey \/ SendHandshake
    BY <2>3 DEF Accept, AcceptFails, Alloc, Handshake, FindKey, SendHandshake
  <2>4. CASE StopServing \/ Release
    BY <2>4 DEF StopServing, Release
  <2>5. CASE Write \/ \E c \in Conns : Connect(c) \/ HangUp(c)
    BY <2>5 DEF Write, BeginWrite, WriteHeader, WritePayload, EndWrite, Connect, HangUp
  <2> QED
    BY <2>1, <2>2, <2>3, <2>4, <2>5 DEF Next, Server
<1>2. Init => bad \/ ~unmasked
  BY DEF Init
<1>3. (bad \/ ~unmasked) /\ [Next]_vars => (bad \/ ~unmasked)'
  <2> SUFFICES ASSUME bad \/ ~unmasked, [Next]_vars
               PROVE  (bad \/ ~unmasked)'
    OBVIOUS
  <2> USE DEF NotWriting, Goto, serverVars, memVars
  <2>1. CASE DeleteConn \/ ServeFrame
    BY <2>1 DEF DeleteConn, ServeFrame
  <2>2. CASE Accept \/ AcceptFails \/ Alloc \/ Handshake \/ FindKey \/ SendHandshake
    BY <2>2 DEF Accept, AcceptFails, Alloc, Handshake, FindKey, SendHandshake
  <2>3. CASE StopServing \/ Release \/ UNCHANGED vars
    BY <2>3 DEF StopServing, Release, vars
  <2>4. CASE Write \/ \E c \in Conns : Connect(c) \/ HangUp(c)
    BY <2>4 DEF Write, BeginWrite, WriteHeader, WritePayload, EndWrite, Connect, HangUp
  <2> QED
    BY <2>1, <2>2, <2>3, <2>4 DEF Next, Server
<1> QED
  BY <1>1, <1>2, <1>3, BuffersHold, PTL DEF Spec, NothingElseFreed
-----------------------------------------------------------------------------
(* Queues of connections.                                                  *)

LEMMA Appended ==
    ASSUME NEW S, NEW q \in Seq(S), IsInjective(q), NEW x \in S, x \notin ToSet(q)
    PROVE  /\ ToSet(Append(q, x)) = ToSet(q) \cup {x}
           /\ IsInjective(Append(q, x))
<1>1. /\ Append(q, x) \in Seq(S)
      /\ Len(Append(q, x)) = Len(q) + 1
      /\ \A i \in 1..Len(q) : Append(q, x)[i] = q[i]
      /\ Append(q, x)[Len(q) + 1] = x
      /\ Len(q) \in Nat
  OBVIOUS
<1> DEFINE r == Append(q, x)
<1>2. DOMAIN q = 1..Len(q) /\ DOMAIN r = 1..Len(q) + 1
  BY <1>1
<1>3. DOMAIN r = DOMAIN q \cup {Len(q) + 1} /\ Len(q) + 1 \notin DOMAIN q
  BY <1>1, <1>2
<1>4. /\ \A i \in DOMAIN q : r[i] = q[i]
      /\ r[Len(q) + 1] = x
  BY <1>1, <1>2
<1> HIDE DEF r
<1>5. ToSet(r) = ToSet(q) \cup {x}
  BY <1>3, <1>4, Zenon DEF ToSet
<1>6. \A i \in DOMAIN q : q[i] # x
  BY Zenon DEF ToSet
<1>7. IsInjective(r)
  BY <1>3, <1>4, <1>6 DEF IsInjective
<1> QED
  BY <1>5, <1>7 DEF r

LEMMA Served ==
    ASSUME NEW S, NEW q \in Seq(S), IsInjective(q), q # <<>>
    PROVE  /\ ToSet(Tail(q)) \subseteq ToSet(q) \ {Head(q)}
           /\ IsInjective(Tail(q))
<1>1. /\ Len(q) \in Nat \ {0}
      /\ Tail(q) \in Seq(S)
      /\ DOMAIN Tail(q) = 1..Len(q) - 1
      /\ DOMAIN q = 1..Len(q)
      /\ \A i \in 1..Len(q) - 1 : Tail(q)[i] = q[i + 1]
      /\ Head(q) = q[1]
  OBVIOUS
<1>2. \A i \in DOMAIN Tail(q) : q[i + 1] # q[1] /\ i + 1 \in DOMAIN q
  BY <1>1 DEF IsInjective
<1>3. ToSet(Tail(q)) \subseteq ToSet(q) \ {Head(q)}
  BY <1>1, <1>2 DEF ToSet
<1>4. IsInjective(Tail(q))
  BY <1>1, <1>2 DEF IsInjective
<1> QED
  BY <1>3, <1>4

(* A connection waits once or is served, and every variable has its type.  *)
QueueInv == ToSet(backlog) \subseteq Conns \ {conn} /\ IsInjective(backlog)

LEMMA QueueStep == ServedInv /\ QueueInv /\ [Next]_vars => QueueInv'
<1> SUFFICES ASSUME ServedInv, QueueInv, [Next]_vars
             PROVE  QueueInv'
  OBVIOUS
<1> USE NullAssumption DEF QueueInv, NotWriting, Goto, serverVars, memVars
<1>1. ASSUME NEW c \in Conns, Connect(c)
      PROVE  QueueInv'
  BY <1>1, Appended DEF Connect, ServedInv
<1>2. ASSUME NEW c \in Conns, HangUp(c)
      PROVE  QueueInv'
  BY <1>2 DEF HangUp
<1>3. CASE Accept
  <2>1. /\ ToSet(Tail(backlog)) \subseteq ToSet(backlog) \ {Head(backlog)}
        /\ IsInjective(Tail(backlog))
    BY <1>3, Served DEF Accept, ServedInv
  <2> QED
    BY <1>3, <2>1 DEF Accept
<1>8. CASE AcceptFails
  BY <1>8 DEF AcceptFails, ToSet, IsInjective
<1>4. CASE Alloc \/ Handshake \/ FindKey \/ SendHandshake
  BY <1>4 DEF Alloc, Handshake, FindKey, SendHandshake
<1>5. CASE ServeFrame \/ StopServing \/ Release
  BY <1>5 DEF ServeFrame, StopServing, Release
<1>6. CASE DeleteConn
  BY <1>6 DEF DeleteConn
<1>7. CASE Write \/ UNCHANGED vars
  BY <1>7 DEF Write, BeginWrite, WriteHeader, WritePayload, EndWrite, vars
<1> QED
  BY <1>1, <1>2, <1>3, <1>4, <1>5, <1>6, <1>7, <1>8 DEF Next, Server

LEMMA TypeStep ==
    ServedInv /\ QueueInv /\ PointerInv /\ HeardInv' /\ TypeOK /\ [Next]_vars
        => TypeOK'
<1> SUFFICES ASSUME ServedInv, QueueInv, PointerInv, HeardInv', TypeOK, [Next]_vars
             PROVE  TypeOK'
  OBVIOUS
<1>0. QueueInv'
  BY QueueStep
<1>10. Cardinality(bufs) \in Nat
  BY BuffersAreFew DEF TypeOK
<1>11. heard' \in [Conns -> {"nothing", "answer", "header", "payload"}]
  BY DEF HeardInv
<1> USE <1>0, <1>11, MaxLostAssumption
    DEF QueueInv, TypeOK, NotWriting, Goto, serverVars, memVars, ShaBufs, Refuse,
        writeVars
<1>1. ASSUME NEW c \in Conns, Connect(c) \/ HangUp(c)
      PROVE  TypeOK'
  BY <1>1 DEF Connect, HangUp
<1>2. CASE Accept \/ AcceptFails
  <2>1. CASE Accept
    BY <2>1 DEF Accept, ServedInv
  <2>2. CASE AcceptFails
    BY <2>2 DEF AcceptFails
  <2> QED
    BY <1>2, <2>1, <2>2
<1>3. CASE Alloc \/ Handshake \/ FindKey
  BY <1>3 DEF Alloc, Handshake, FindKey
<1>4. CASE SendHandshake
  BY <1>4 DEF SendHandshake
<1>5. CASE ServeFrame
  BY <1>5, HeldNat DEF ServeFrame, Loses
<1>6. CASE StopServing
  BY <1>6, HeldNat DEF StopServing, Loses
<1>7. CASE Release
  BY <1>7 DEF Release
<1>8. CASE DeleteConn
  <2>1. lost' \in 0..MaxLost
    BY <1>8, <1>10 DEF DeleteConn, Loses
  <2> QED
    BY <1>8, <2>1 DEF DeleteConn
<1>9. CASE Write \/ UNCHANGED vars
  BY <1>9 DEF Write, BeginWrite, WriteHeader, WritePayload, EndWrite, vars, Sends,
              SendFails
<1> QED
  BY <1>1, <1>2, <1>3, <1>4, <1>5, <1>6, <1>7, <1>8, <1>9 DEF Next, Server

(* Every variable keeps its type, and no connection waits twice or while   *)
(* it is served.                                                           *)
THEOREM WebSocketTypeCorrect == Spec => []TypeOK
<1>1. Init => QueueInv /\ TypeOK
  BY MaxLostAssumption DEF Init, QueueInv, TypeOK, ToSet, IsInjective
<1> QED
  BY <1>1, QueueStep, TypeStep, PointerHolds, BuffersHold, PTL DEF Spec
====
