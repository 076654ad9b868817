---------------------------- MODULE MCCmdServer ----------------------------
(* CmdServer.tla on small instances. *)
EXTENDS CmdServer, TLC

CONSTANTS c1, c2, k1, k2
=============================================================================
