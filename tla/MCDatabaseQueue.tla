-------------------------- MODULE MCDatabaseQueue ---------------------------
(* Instances of DatabaseQueue for TLC. *)
EXTENDS DatabaseQueue, TLC

CONSTANTS a, b

\* a chain of two jobs
MCChain == (a :> b) @@ (b :> NoJob)

\* a single job
MCSingle == a :> NoJob

MCSymmetry == Permutations(Workers) \cup Permutations(Operators)

=============================================================================
