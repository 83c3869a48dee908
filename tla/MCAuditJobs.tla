---------------------------- MODULE MCAuditJobs ----------------------------
(* A small instance of AuditJobs for TLC.                                  *)
EXTENDS AuditJobs, TLC

Symmetry == Permutations(Workers) \cup Permutations(AsyncCalls)
            \cup Permutations(SyncCalls)
=============================================================================
