---------------------------- MODULE MCEchoServer ----------------------------
(***************************************************************************)
(* EchoServer for TLC: handlers in any order.                              *)
(***************************************************************************)
EXTENDS EchoServer, TLC

Symmetry == Permutations(Session)
=============================================================================
