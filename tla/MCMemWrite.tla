----------------------------- MODULE MCMemWrite -----------------------------
(* MemWrite.tla on small instances. *)
EXTENDS MemWrite

CONSTANTS i1, i2
=============================================================================
