--------------------------- MODULE MCHappyEyeballs --------------------------
(***************************************************************************)
(* HappyEyeballs for TLC: up to MaxEndpoints addresses of each family.     *)
(***************************************************************************)
EXTENDS HappyEyeballs
=============================================================================
