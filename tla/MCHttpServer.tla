---------------------------- MODULE MCHttpServer ----------------------------
(***************************************************************************)
(* An instance of HttpServer for TLC with a few connections.               *)
(***************************************************************************)
EXTENDS HttpServer

CONSTANTS c1, c2, c3  \* connections

=============================================================================
