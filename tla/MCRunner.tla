------------------------------ MODULE MCRunner ------------------------------
(* Runner on a small instance: two messages and another line.              *)
EXTENDS Runner
=============================================================================
