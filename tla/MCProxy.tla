------------------------------ MODULE MCProxy -------------------------------
(***************************************************************************)
(* Proxy for TLC: up to MaxChunks chunks in each direction.                *)
(***************************************************************************)
EXTENDS Proxy
=============================================================================
