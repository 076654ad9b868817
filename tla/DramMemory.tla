----------------------------- MODULE DramMemory -----------------------------
(***************************************************************************)
(* What the memory controller of the runtime relies on of the DRAM         *)
(* simulator: it answers every transaction it took, once, with a callback  *)
(* that names its address, and answers nothing else.  MemRead.tla and      *)
(* MemWrite.tla pair a callback with the oldest transaction of its address.*)
(***************************************************************************)
EXTENDS Integers

CONSTANTS Kind    \* what an answer tells apart: address, and read or write

VARIABLES unanswered   \* per kind, the transactions taken and not answered

MemoryInit == unanswered = [k \in Kind |-> 0]

\* AddTransaction
Take(k) == unanswered' = [unanswered EXCEPT ![k] = @ + 1]

\* A clock tick calls back for some of the transactions.
Answer ==
  /\ \A k \in Kind : unanswered'[k] \in 0 .. unanswered[k]
  /\ unanswered' = [k \in Kind |-> unanswered'[k]]

MemoryNext == Answer \/ \E k \in Kind : Take(k)

Memory == MemoryInit /\ [][MemoryNext]_unanswered
=============================================================================
