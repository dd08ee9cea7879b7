----------------------------- MODULE MCOrderPath -----------------------------
(***************************************************************************)
(* Model checking of OrderPath: two concurrent calls and one crash.        *)
(***************************************************************************)
EXTENDS OrderPath, TLC

CallSymmetry == Permutations(Calls)
=============================================================================
