---------------------------- MODULE MCSingleton ----------------------------
(* Singleton.tla on small instances. *)
EXTENDS Singleton, TLC

CONSTANTS k1, k2, k3, p1

OneProject == [k \in Cli |-> p1]

\* Two processes that start daemons, and one that removes what is there.
StartAndRemove ==
  [k \in Cli |-> IF k = k3 THEN {"kill", "clean"} ELSE {"info", "run", "serve"}]

\* The two processes that start daemons are interchangeable.
CliSymmetry == Permutations({k1, k2})
=============================================================================
