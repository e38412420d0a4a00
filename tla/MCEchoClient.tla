---------------------------- MODULE MCEchoClient ----------------------------
(***************************************************************************)
(* EchoClient for TLC; the instances are in EchoClient*.cfg.               *)
(***************************************************************************)
EXTENDS EchoClient
=============================================================================
