--------------------------- MODULE MCProcessRunner ---------------------------
(***************************************************************************)
(* ProcessRunner for TLC: two characters of output, one or two signals.    *)
(***************************************************************************)
EXTENDS ProcessRunner
=============================================================================
