------------------------------ MODULE RuleChecks ------------------------------
(***************************************************************************)
(* The evaluators of src/app/modules/validation/engine.py: the rows on     *)
(* which a rule fails, among those that were read.                         *)
(*                                                                         *)
(* A rule has a type, the columns it is assigned to, and what its          *)
(* definition says for its type: tolerated, a percentage; min and max, or  *)
(* Null; matching, the values its pattern matches.                         *)
(***************************************************************************)
EXTENDS SourceRows

RuleTypes == {"COMPLETENESS", "UNIQUENESS", "DUPLICATE", "RANGE", "PATTERN", "CROSS_COLUMN"}

\* Rules that are evaluated on a full scan.
Exact == RuleTypes \ {"RANGE", "PATTERN"}

\* Rules that ask for the aggregates of their column.
PushedDown == {"COMPLETENESS", "UNIQUENESS"}

\* The aggregates say that no row is to be flagged.
Tolerated(rule, stats, bad) == stats # NoStats /\ stats.total > 0 /\ 100 * bad <= rule.tolerated * stats.total

\* Every row of a repeated value, or of a repeated row, is flagged.
Failures(rule, rows, stats) ==
  LET c        == CHOOSE x \in rule.columns : TRUE
      v(r)     == rows[r][c]
      Twice(S, f(_)) == {r \in S : \E q \in S \ {r} : f(q) = f(r)}
      Whole(r) == rows[r]
  IN CASE rule.type = "COMPLETENESS" ->
            IF Tolerated(rule, stats, stats.nulls) THEN {} ELSE DOMAIN rows \ Given(rows, c)
       [] rule.type = "UNIQUENESS" ->
            IF Tolerated(rule, stats, Max({0, stats.total - stats.nulls - stats.distinct})) THEN {}
            ELSE Twice(Given(rows, c), v)
       [] rule.type = "DUPLICATE" -> Twice(DOMAIN rows, Whole)
       [] rule.type = "RANGE" ->
            {r \in Given(rows, c) : \/ rule.min # Null /\ v(r) < rule.min
                                    \/ rule.max # Null /\ v(r) > rule.max}
       [] rule.type = "PATTERN" -> {r \in Given(rows, c) : v(r) \notin rule.matching}
       [] rule.type = "CROSS_COLUMN" ->
            {r \in DOMAIN rows : Cardinality({rows[r][x] : x \in rule.columns}) > 1}
=============================================================================
