--------------------------- MODULE MCHttpExchange ---------------------------
(***************************************************************************)
(* An instance of HttpExchange for TLC: small files, and ranges around     *)
(* their ends.                                                             *)
(***************************************************************************)
EXTENDS HttpExchange

=============================================================================
