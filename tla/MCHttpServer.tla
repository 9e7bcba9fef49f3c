---------------------------- MODULE MCHttpServer ----------------------------
(* Model-checking instance of HttpServer: two threads that may both call the *)
(* server, an endpoint that is bound, unbound and bound again, and sockets   *)
(* that are used again.                                                      *)
EXTENDS HttpServer, TLC

Threads == Permutations(ServerThreads)
=============================================================================
