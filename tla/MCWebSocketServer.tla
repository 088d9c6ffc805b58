-------------------------- MODULE MCWebSocketServer --------------------------
(***************************************************************************)
(* The server with two clients that ask for different things: of one the   *)
(* server handles everything, of the other it lacks a handler.             *)
(***************************************************************************)
EXTENDS WebSocketServer, TLC

CONSTANTS c1, c2

MCAsks == c1 :> {"frame"} @@ c2 :> {"metadata", "execute"}
=============================================================================
