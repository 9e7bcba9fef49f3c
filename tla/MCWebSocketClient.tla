-------------------------- MODULE MCWebSocketClient --------------------------
(* Model-checking instance of WebSocketClient: two threads that may both call *)
(* every operation, a second Connect, and a native client that reconnects.    *)
EXTENDS WebSocketClient
=============================================================================
