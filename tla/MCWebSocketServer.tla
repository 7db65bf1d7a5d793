---- MODULE MCWebSocketServer ----
(* Two connections: one served, one waiting, and either of them back again. *)
EXTENDS WebSocketServer

CONSTANTS c1, c2
MCConns == {c1, c2}
====
