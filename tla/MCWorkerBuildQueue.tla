------------------------ MODULE MCWorkerBuildQueue ------------------------
(* Instances of the scheduler's build queue for TLC. *)
EXTENDS WorkerBuildQueue, TLC

\* Clients, workers and keys are interchangeable: nothing in the code compares
\* them.  Used for safety only.
Symmetry == Permutations(Clients) \cup Permutations(Workers) \cup Permutations(Keys)
===========================================================================
