--------------------------- MODULE MCPromiseServer --------------------------
(***************************************************************************)
(* PromiseServer for TLC: both programs, with a few connections.           *)
(***************************************************************************)
EXTENDS PromiseServer
CONSTANTS s1, s2, s3
=============================================================================
