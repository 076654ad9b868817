-------------------------- MODULE MCDramController --------------------------
(* DramController.tla on small instances. *)
EXTENDS DramController

At(k, b, r, c) == [rank |-> k, bank |-> b, row |-> r, col |-> c]

\* One rank of two banks; of one bank two rows are in use, of one row two
\* columns.
TwoBanks == {At(0, 0, 0, 0), At(0, 0, 0, 1), At(0, 0, 1, 0), At(0, 1, 0, 0)}
=============================================================================
