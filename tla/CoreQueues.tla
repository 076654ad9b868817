----------------------------- MODULE CoreQueues -----------------------------
(***************************************************************************)
(* What CmdServer.tla assumes of everything behind the command server: each *)
(* core answers the commands it is given that ask for a response, each     *)
(* once, in the order in which they were given.  Commands are numbered in   *)
(* that order.                                                             *)
(***************************************************************************)
EXTENDS Integers

CONSTANT Core

VARIABLES
  newest,   \* the number of the command given last
  pending   \* per core, the commands it has still to answer

vars == << newest, pending >>

Init == newest = 0 /\ pending = [k \in Core |-> {}]

Submit(k, xd) ==
  /\ newest' = newest + 1
  /\ pending' = IF xd THEN [pending EXCEPT ![k] = @ \cup {newest + 1}] ELSE pending

Respond(k) ==
  /\ \E i \in pending[k] :
       /\ \A j \in pending[k] : i <= j
       /\ pending' = [pending EXCEPT ![k] = @ \ {i}]
  /\ UNCHANGED newest

Next == \E k \in Core : Respond(k) \/ \E xd \in BOOLEAN : Submit(k, xd)

Spec == Init /\ [][Next]_vars
=============================================================================
