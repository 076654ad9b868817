----------------------------- MODULE MCMemRead -----------------------------
(* MemRead.tla on small instances. *)
EXTENDS MemRead

CONSTANTS i1, i2

\* An AXI beat is two DRAM bursts, which the DRAM completes in any order; or
\* a DRAM burst is two AXI beats, and reads are of one beat or whole bursts.
WideAndNarrow ==
  {[mult |-> 2, burst |-> 1, lens |-> {1, 2}], [mult |-> 1, burst |-> 2, lens |-> {1, 4}]}
=============================================================================
