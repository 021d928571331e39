--------------------------- MODULE MCSubjectAdmin ---------------------------
(* Small instances of SubjectAdmin for TLC.                                 *)
EXTENDS SubjectAdmin, TLC

AllFaults == FaultKinds

Symmetry == Permutations(Registrations) \cup Permutations(Modifications) \cup Permutations(Lists)
=============================================================================
