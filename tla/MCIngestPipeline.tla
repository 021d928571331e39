-------------------------- MODULE MCIngestPipeline --------------------------
(* Small instances of IngestPipeline for TLC.                               *)
EXTENDS IngestPipeline, TLC

AllFaults    == FaultKinds

\* Faults the queue and the worker recover from by redelivery, without sealing
\* anything twice.
Recoverable  == FaultKinds \ {"age", "open", "rebuild"}

Symmetry == Permutations(Jobs) \cup Permutations(Subjects)
=============================================================================
