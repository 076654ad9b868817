---------------------------- MODULE MCRemotePtr ----------------------------
(* Two threads; four handles, enough for a count to wrap at 4. *)
EXTENDS RemotePtr, TLC
CONSTANTS h1, h2, h3, h4, t1, t2
Owners == (h1 :> t1) @@ (h2 :> t1) @@ (h3 :> t1) @@ (h4 :> t2)
Swaps == Permutations({h1, h2, h3})
=============================================================================
