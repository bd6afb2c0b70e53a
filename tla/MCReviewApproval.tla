-------------------------- MODULE MCReviewApproval --------------------------
(* Instances of ReviewApproval for TLC. *)
EXTENDS ReviewApproval, TLC

CONSTANTS r1, r2, i1, i2, s1, s2

\* One run with both issues; a second run, where there is one, has no issue.
MCRunOf == [i \in Issue |-> r1]

\* Suggestions are for the first issue, all of a generator or all of the model:
\* an issue that has one gets no other kind.
MCIssueOf == [s \in Suggestion |-> i1]
MCGenerators == [s \in Suggestion |-> "RULE_BASED"]
MCModel == [s \in Suggestion |-> "AI"]
MCSuggestedValue == [s \in Suggestion |-> CHOOSE v \in Value : TRUE]

\* s1 sorts before s2.
MCKeyOf == [s \in Suggestion |-> IF s = s1 THEN 1 ELSE 2]

CallerSymmetry == Permutations(Caller)
=============================================================================
