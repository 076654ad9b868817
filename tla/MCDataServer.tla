---------------------------- MODULE MCDataServer ----------------------------
(* DataServer.tla on small instances. *)
EXTENDS DataServer, TLC

CONSTANTS c1, c2
=============================================================================
