--------------------------- MODULE MCEchoPrograms ---------------------------
(***************************************************************************)
(* EchoPrograms for TLC.                                                   *)
(***************************************************************************)
EXTENDS EchoPrograms
=============================================================================
