----------------------------- MODULE Inference -----------------------------
(***************************************************************************)
(* From the rows read of a source to what is suggested for one of them: the*)
(* engines that apply, their ranking (src/app/modules/ai/candidates.py) and*)
(* what is kept of the language model's answer                             *)
(* (src/app/modules/ai/suggestion_service.py).                             *)
(*                                                                         *)
(* Evidence is [best |-> S], S holding the recommended candidate or        *)
(* nothing, or NoEvidence when none could be gathered.                     *)
(***************************************************************************)
EXTENDS Relationships, Progressions, Templates

CONSTANTS NoEvidence,   \* gathering is off, or failed
          Wrong         \* an answer no engine would give

Target == "target"

GapLike == {"COMPLETENESS"}

NextValueLike == {"UNIQUENESS", "DUPLICATE"}

Applicable(type, rule) ==
    {s \in {"RELATIONSHIP", "SEQUENCE", "TEMPORAL", "TEMPLATE"} :
       CASE s = "RELATIONSHIP" -> /\ type \in Numeric
                                  /\ rule \in {"RANGE", "PATTERN", "CROSS_COLUMN"}
         [] s = "SEQUENCE" -> /\ type \in {"INTEGER", "STRING"}
                              /\ rule \in GapLike \union NextValueLike
         [] s = "TEMPORAL" -> /\ type \in {"DATE", "DATETIME"}
                              /\ rule \in GapLike \union NextValueLike
         [] s = "TEMPLATE" -> /\ type \in {"STRING", "TEXT"}
                              /\ rule \in {"COMPLETENESS", "PATTERN"}}

\* A gap answers a missing value, a next value answers a repeated one.
StrategyMatchesRule(strategy, rule) ==
    \/ strategy = "GAP" /\ rule \in GapLike
    \/ strategy = "NEXT_VALUE" /\ rule \in NextValueLike

\* (Broken variant: a candidate close to the best one never disputes it.)
TopCandidate(candidates) ==
    LET Best == {c \in candidates :
                   \A d \in candidates : c.confidence >= d.confidence}
    IN IF candidates = {} THEN {} ELSE {CHOOSE c \in Best : TRUE}

\* The most confident candidate, unless one within 0.03 of it disagrees.
\* Equal candidates differ in their strategy's name only.
Aggregate(candidates) ==
    LET Best == {c \in candidates :
                   \A d \in candidates : c.confidence >= d.confidence}
        top == CHOOSE c \in Best : TRUE
    IN IF \/ candidates = {}
          \/ \E c \in candidates : /\ top.confidence - c.confidence <= 30
                                   /\ c.value # top.value
       THEN {} ELSE {top}

\* The values of the target column: at <<k>> that of another row k, at <<>>
\* the failing row's own, counted exactly once.
OwnValues(rows, failing) ==
    LET others == {k \in DOMAIN rows : rows[k] # failing}
        Value(at) == IF at = <<>> THEN failing[Target] ELSE rows[at[1]][Target]
    IN [at \in {i \in {<<>>} \union {<<k>> : k \in others} : Value(i) # Null}
          |-> Value(at)]

\* Every other text column is tried as the source; a row under review for
\* the target column itself is never a training row.
TemplateCandidates(columns, rows, failing, siblings) ==
    LET training == {k \in DOMAIN rows \ siblings :
                       rows[k] # failing /\ rows[k][Target] # Null}
        Cells(c) == [k \in training |-> rows[k][c]]
    IN UNION {TemplateEvidence(Cells(c), Cells(Target), failing[c]) :
                c \in {d \in DOMAIN columns \ {Target} :
                         columns[d].type \in {"STRING", "TEXT"}}}

AdvancedEvidence(columns, rule, rows, failing, siblings) ==
    LET engines == Applicable(columns[Target].type, rule)
        own == OwnValues(rows, failing)
        Matching(S) == {c \in S : StrategyMatchesRule(c.strategy, rule)}
    IN [best |-> Aggregate(
          (IF "RELATIONSHIP" \in engines
             THEN RelationshipEvidence(columns, Target, rows, failing) ELSE {})
          \union (IF "SEQUENCE" \in engines
                    THEN Matching(SequenceEvidence(own)) ELSE {})
          \union (IF "TEMPORAL" \in engines
                    THEN Matching(TemporalEvidence(own)) ELSE {})
          \union (IF "TEMPLATE" \in engines
                    THEN TemplateCandidates(columns, rows, failing, siblings)
                    ELSE {}))]

----------------------------------------------------------------------------
(* What is kept of an answer [category, value, confidence].                *)

CannotInfer == [category |-> "CANNOT_INFER", value |-> Null, confidence |-> Null]

NeedsReview == [category |-> "NEEDS_REVIEW", value |-> Null, confidence |-> Null]

\* Only a confident answer keeps a value, and none is confident without one.
Parse(answer) ==
    CASE answer.category = "AI_HIGH_CONFIDENCE" ->
           IF answer.value = Null THEN NeedsReview ELSE answer
      [] answer.category \in {"NEEDS_REVIEW", "CANNOT_INFER"} ->
           [NeedsReview EXCEPT !.category = answer.category]
      [] OTHER -> NeedsReview

Capped(answer, c) ==
    [category |-> "AI_HIGH_CONFIDENCE", value |-> c.value,
     confidence |-> IF answer.confidence = Null THEN c.confidence
                    ELSE Min({answer.confidence, c.confidence})]

ApplyEvidenceSafety(answer, evidence) ==
    IF evidence = NoEvidence \/ answer.category # "AI_HIGH_CONFIDENCE"
    THEN answer
    ELSE LET agreed == {c \in evidence.best : c.value = answer.value}
         IN IF agreed = {} THEN NeedsReview
            ELSE Capped(answer, CHOOSE c \in agreed : TRUE)

\* (Broken variant: a confident answer that disagrees is kept.)
TrustTheAnswer(answer, evidence) ==
    CASE evidence = NoEvidence \/ answer.category = "AI_HIGH_CONFIDENCE" ->
           answer
      [] evidence # NoEvidence /\ evidence.best = {} -> answer
      [] OTHER -> [NeedsReview EXCEPT
                     !.value = (CHOOSE c \in evidence.best : TRUE).value]

\* With a candidate its value is always the one stored; confidence needs an
\* answer that agrees with it.
ApplyAdvancedSafety(answer, evidence) ==
    IF evidence = NoEvidence THEN answer
    ELSE LET confident == answer.category = "AI_HIGH_CONFIDENCE"
         IN IF evidence.best = {}
            THEN IF confident THEN NeedsReview
                 ELSE [NeedsReview EXCEPT !.category = answer.category]
            ELSE LET c == CHOOSE d \in evidence.best : TRUE
                 IN IF confident /\ answer.value = c.value
                    THEN Capped(answer, c)
                    ELSE [NeedsReview EXCEPT !.value = c.value]
=============================================================================
