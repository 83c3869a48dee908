----------------------------- MODULE MCCleanup -----------------------------
(* A small instance of Cleanup for TLC.                                    *)
EXTENDS Cleanup, TLC

Symmetry == Permutations(Requests)
=============================================================================
