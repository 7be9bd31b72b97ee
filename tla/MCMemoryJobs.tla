---------------------------- MODULE MCMemoryJobs ----------------------------
(* Instances of MemoryJobs for TLC. *)
EXTENDS MemoryJobs, TLC

\* Processes and threads are interchangeable.
Symmetry == Permutations(Workers) \cup Permutations(Threads)
=============================================================================
