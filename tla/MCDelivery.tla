------------------------------ MODULE MCDelivery ------------------------------
(* Instances of Delivery for TLC. *)
EXTENDS Delivery, TLC

Symmetry ==
  Permutations(Caller) \cup Permutations(Worker)
    \cup Permutations(StagingRun) \cup Permutations(PublishRun)
=============================================================================
