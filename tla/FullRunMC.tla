----------------------------- MODULE FullRunMC -----------------------------
(* Instances of FullRun for TLC. *)
EXTENDS FullRun, TLC

\* Processes, jobs and requests are interchangeable (safety runs only).
Symmetry == Permutations(Workers) \cup Permutations(Jobs) \cup Permutations(Clients)

\* A bound for the run with three jobs: no further step is taken from a state
\* in which the document is gone or a job has left the registries.
Kept == indexed /\ \A j \in Jobs : job[j] # "expired"

=============================================================================
