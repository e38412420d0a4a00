----------------------------- MODULE MCPipeline -----------------------------
(***************************************************************************)
(* Pipeline for TLC: a range of more than a chunk, pipes of less.          *)
(***************************************************************************)
EXTENDS Pipeline
=============================================================================
