---------------------------- MODULE MCAxiControl ----------------------------
(* AxiControl.tla on small instances. *)
EXTENDS AxiControl

CONSTANTS k1, k2
=============================================================================
