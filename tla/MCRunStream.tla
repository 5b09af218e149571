----------------------------- MODULE MCRunStream -----------------------------
(* Instance of RunStream for TLC. *)
EXTENDS RunStream

CONSTANT q1
=============================================================================
