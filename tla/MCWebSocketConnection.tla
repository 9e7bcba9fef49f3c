----------------------- MODULE MCWebSocketConnection -----------------------
(* Model-checking instance of WebSocketConnection: a descriptor that is used  *)
(* by two clients in turn while two calls, on any threads, hold connections.  *)
EXTENDS WebSocketConnection
=============================================================================
