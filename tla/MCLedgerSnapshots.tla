-------------------------- MODULE MCLedgerSnapshots --------------------------
(***************************************************************************)
(* Instances of LedgerSnapshots: one or two overlapping runs of the job.   *)
(* Two events make a snapshot due instead of fifty.                        *)
(***************************************************************************)
EXTENDS LedgerSnapshots, TLC

CONSTANTS j1, j2

Symmetry == Permutations(SnapshotJobs)
=============================================================================
