-------------------------- MODULE MCEchoServerFifo --------------------------
(***************************************************************************)
(* EchoServerFifo for TLC.                                                 *)
(***************************************************************************)
EXTENDS EchoServerFifo
=============================================================================
