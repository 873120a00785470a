----------------------------- MODULE MCJobBatch -----------------------------
(* Instances of JobBatch for TLC. *)
EXTENDS JobBatch, TLC

MCSymmetry == Permutations(Workers) \cup Permutations(BatchJobs)

=============================================================================
