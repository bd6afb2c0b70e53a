------------------------------ MODULE MCJobRuns ------------------------------
(* Instances of JobRuns for TLC. *)
EXTENDS JobRuns, TLC

CONSTANTS j1, j2, d1

\* The first job profiles, any other one validates, the same dataset.
MCBothKinds    == [j \in Job |-> IF j = j1 THEN "PROFILE_RUN" ELSE "VALIDATION_RUN"]
MCValidations  == [j \in Job |-> "VALIDATION_RUN"]
MCOneDataset   == [j \in Job |-> d1]

Symmetry == Permutations(Caller) \cup Permutations(Worker)
=============================================================================
