-------------------------------- MODULE Rules --------------------------------
(***************************************************************************)
(* One rule, its versions and its assignments to a dataset: RulesService   *)
(* and RuleAssignmentService.  A request reads, and writes what it has     *)
(* decided in a later transaction step; rows other requests have committed *)
(* in between are not read again, but the constraints of the tables hold.  *)
(***************************************************************************)
EXTENDS Naturals

CONSTANTS
  Manager,      \* concurrent requests
  RuleOrigin,   \* the origins rules are created with
  Scope,        \* the scopes assignments are made for
  MaxVersions,  \* bound: versions of the rule
  NoRule        \* the rule is not created yet, or a request is not there

ASSUME RulesConstants ==
  /\ RuleOrigin \subseteq {"BUILT_IN", "CUSTOM", "AI_RECOMMENDED", "PATTERN_DETECTED"}
  /\ {"SINGLE_COLUMN", "DATASET_LEVEL"} \subseteq Scope
  /\ Scope \subseteq {"SINGLE_COLUMN", "DATASET_LEVEL", "CROSS_COLUMN"}
  /\ MaxVersions \in Nat \ {0}

VARIABLES
  rule,         \* rules: type, origin and status
  versions,     \* rule_versions
  assignments,  \* rule_assignments
  change        \* per request: what it is about to commit

rulesVars == <<rule, versions, assignments, change>>

-----------------------------------------------------------------------------
(* Types *)

RuleStatus == {"PENDING_REVIEW", "ACTIVE", "DISABLED"}

ReviewRequiredOrigins == {"AI_RECOMMENDED", "PATTERN_DETECTED"}

\* type: one of those evaluated on one column, or what it is.
\* patched: a PATCH has written the status.
Rule ==
  [type : {"column", "DUPLICATE", "CROSS_COLUMN"}, origin : RuleOrigin,
   status : RuleStatus, patched : BOOLEAN]

\* detected: the definition names the dataset and the column it was detected for.
Version == [number : 1..MaxVersions, current : BOOLEAN, detected : BOOLEAN]

\* The column, the columns and the template of an assignment are one each.
Assignment == [version : 1..MaxVersions, scope : Scope, enabled : BOOLEAN, promoted : BOOLEAN]

Change ==
  [op : {"status"}, seen : RuleStatus, to : RuleStatus]
  \cup [op : {"publish"}, current : 1..MaxVersions, detected : BOOLEAN]
  \cup [op : {"promote", "assign"}, version : 1..MaxVersions, scope : Scope]
  \cup [op : {"dismiss"}]

\* None is neither a row nor a decision.
ASSUME NoRuleIsNoRow == NoRule \notin Rule \cup Change

RulesTypeOK ==
  /\ rule \in Rule \cup {NoRule}
  /\ versions \subseteq Version
  /\ assignments \subseteq Assignment
  /\ change \in [Manager -> Change \cup {NoRule}]

-----------------------------------------------------------------------------
(* Reading and checking *)

Begin(m, work) ==
  /\ rule # NoRule /\ change[m] = NoRule
  /\ change' = [change EXCEPT ![m] = work]
  /\ UNCHANGED <<rule, versions, assignments>>

\* create_rule, whoever calls it: the API, or detect_for_dataset for a pattern
\* it has matched or a rule a model recommends.
CreateRule(type, origin, detected) ==
  /\ rule = NoRule
  /\ rule' = [type |-> type, origin |-> origin, patched |-> FALSE,
              status |-> IF origin \in ReviewRequiredOrigins THEN "PENDING_REVIEW" ELSE "ACTIVE"]
  /\ versions' = {[number |-> 1, current |-> TRUE, detected |-> detected]}
  /\ UNCHANGED <<assignments, change>>

\* Any status is accepted.  Bound: no PATCH begins once one has written the status.
UpdateRule(m, to) ==
  /\ rule # NoRule /\ ~rule.patched
  /\ Begin(m, [op |-> "status", seen |-> rule.status, to |-> to])

PublishVersion(m, detected) ==
  \E v \in versions : v.current /\ Begin(m, [op |-> "publish", current |-> v.number, detected |-> detected])

\* _resolve_promotion_assignment; a CROSS_COLUMN rule, and one that was not
\* detected, is refused.
PromoteRule(m) ==
  /\ rule # NoRule /\ rule.status = "PENDING_REVIEW" /\ rule.type # "CROSS_COLUMN"
  /\ \E v \in versions :
       /\ v.current /\ v.detected
       /\ Begin(m, [op |-> "promote", version |-> v.number,
                    scope |-> IF rule.type = "DUPLICATE" THEN "DATASET_LEVEL" ELSE "SINGLE_COLUMN"])

DismissRule(m) ==
  /\ rule # NoRule /\ rule.status = "PENDING_REVIEW"
  /\ Begin(m, [op |-> "dismiss"])

\* Any version, whatever the status of the rule and whether or not the scope
\* fits its type.
CreateAssignment(m, scope) ==
  \E v \in versions : Begin(m, [op |-> "assign", version |-> v.number, scope |-> scope])

SoftDisable ==
  /\ \E a \in assignments : assignments' = (assignments \ {a}) \cup {[a EXCEPT !.enabled = FALSE]}
  /\ UNCHANGED <<rule, versions, change>>

-----------------------------------------------------------------------------
(* Writing: a request that a constraint refuses is rolled back. *)

Done(m) == change' = [change EXCEPT ![m] = NoRule]

\* The status is written when it differs from the one that was loaded.
CommitStatus(m) ==
  /\ change[m] # NoRule /\ change[m].op = "status"
  /\ rule' = IF change[m].seen = change[m].to THEN rule
             ELSE [rule EXCEPT !.status = change[m].to, !.patched = TRUE]
  /\ Done(m)
  /\ UNCHANGED <<versions, assignments>>

\* uq_rule_versions_rule_id_version_number, uq_rule_versions_current.
CommitVersion(m) ==
  LET work == change[m]
      new  == [number |-> work.current + 1, current |-> TRUE, detected |-> work.detected]
      rest == {IF v.number = work.current THEN [v EXCEPT !.current = FALSE] ELSE v : v \in versions}
  IN /\ work # NoRule /\ work.op = "publish" /\ work.current < MaxVersions
     /\ versions' = IF \E v \in rest : v.current \/ v.number = new.number THEN versions ELSE rest \cup {new}
     /\ Done(m)
     /\ UNCHANGED <<rule, assignments>>

\* The partial unique indexes of the scopes.
Assigned(work) == \E a \in assignments : a.version = work.version /\ a.scope = work.scope

NewAssignment(work) ==
  [version |-> work.version, scope |-> work.scope, enabled |-> TRUE, promoted |-> work.op = "promote"]

\* (Broken variant: the status is all that changes.)
CommitPromotedStatus(m) ==
  /\ change[m] # NoRule /\ change[m].op = "promote"
  /\ rule' = [rule EXCEPT !.status = "ACTIVE"]
  /\ Done(m)
  /\ UNCHANGED <<versions, assignments>>

\* Status and assignment are flushed together.
CommitPromotion(m) ==
  /\ change[m] # NoRule /\ change[m].op = "promote"
  /\ IF Assigned(change[m])
       THEN UNCHANGED <<rule, assignments>>
       ELSE /\ rule' = [rule EXCEPT !.status = "ACTIVE"]
            /\ assignments' = assignments \cup {NewAssignment(change[m])}
  /\ Done(m)
  /\ UNCHANGED versions

CommitDismissal(m) ==
  /\ change[m] # NoRule /\ change[m].op = "dismiss"
  /\ rule' = [rule EXCEPT !.status = "DISABLED"]
  /\ Done(m)
  /\ UNCHANGED <<versions, assignments>>

CommitAssignment(m) ==
  /\ change[m] # NoRule /\ change[m].op = "assign"
  /\ assignments' = IF Assigned(change[m]) THEN assignments ELSE assignments \cup {NewAssignment(change[m])}
  /\ Done(m)
  /\ UNCHANGED <<rule, versions>>

-----------------------------------------------------------------------------

RulesInit ==
  /\ rule = NoRule
  /\ versions = {}
  /\ assignments = {}
  /\ change = [m \in Manager |-> NoRule]

RulesNext ==
  \/ \E r \in Rule, detected \in BOOLEAN : CreateRule(r.type, r.origin, detected)
  \/ \E m \in Manager :
       \/ \E to \in RuleStatus : UpdateRule(m, to)
       \/ \E detected \in BOOLEAN : PublishVersion(m, detected)
       \/ PromoteRule(m) \/ DismissRule(m)
       \/ \E scope \in Scope : CreateAssignment(m, scope)
       \/ CommitStatus(m) \/ CommitVersion(m) \/ CommitPromotion(m) \/ CommitDismissal(m) \/ CommitAssignment(m)
  \/ SoftDisable

-----------------------------------------------------------------------------
(* Properties *)

\* Promotion is whole: while no PATCH has written the status, a rule that had
\* to be reviewed is active only with an assignment promotion has made, and one
\* with such an assignment is no longer pending, whatever versions, assignments
\* and dismissals are made at the same time (rules/service.py, promote_rule).
PromotionIsWhole ==
  rule # NoRule /\ ~rule.patched =>
    /\ rule.status = "ACTIVE" /\ rule.origin \in ReviewRequiredOrigins => \E a \in assignments : a.promoted
    /\ rule.status = "PENDING_REVIEW" => \A a \in assignments : ~a.promoted

=============================================================================
