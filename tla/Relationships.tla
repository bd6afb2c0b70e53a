--------------------------- MODULE Relationships ---------------------------
(***************************************************************************)
(* The relationship evidence of src/app/modules/ai/evidence.py: what the   *)
(* other columns of comparable rows say a number should be.                *)
(*                                                                         *)
(* A row is a function from column names to cells; a column is a type,     *)
(* whether it is the primary key, and the share of distinct values its     *)
(* latest profile counted, or Null without one.  Numbers are small         *)
(* integers; means, fits and confidences are counted in thousandths, and a *)
(* ratio in hundredths, so that the arithmetic stays within 32 bits.       *)
(* Every operator returns the set of what it found: empty when the code's  *)
(* status is not CANDIDATE, a singleton when it is.                        *)
(***************************************************************************)
EXTENDS CellValues

CONSTANT PromotionSample   \* _MIN_SAMPLE_FOR_NUMERIC_IDENTIFIER_PROMOTION

Numeric == {"INTEGER", "DECIMAL"}

Categorical == {"STRING", "TEXT", "BOOLEAN"}

MinGroup == 3

\* Values so rarely repeated that the column looks like an identifier.  What
\* the latest profile says of the whole table, at whatever time it was made,
\* goes before what the rows read now would say.
MostlyDistinct(columns, rows, c) ==
    LET given == {k \in DOMAIN rows : rows[k][c] # Null}
    IN IF columns[c].distinct # Null THEN columns[c].distinct >= 95
       ELSE /\ given # {}
            /\ 100 * Cardinality({rows[k][c] : k \in given})
                  >= 95 * Cardinality(given)

Role(columns, rows, c) ==
    LET type == columns[c].type
    IN CASE columns[c].pk -> "IDENTIFIER"
         [] type \in Numeric ->
              IF MostlyDistinct(columns, rows, c)
                   /\ Cardinality(DOMAIN rows) >= PromotionSample
              THEN "IDENTIFIER" ELSE "MEASURE"
         [] type \in Categorical ->
              IF MostlyDistinct(columns, rows, c) THEN "IDENTIFIER" ELSE "DIMENSION"
         [] OTHER -> "OTHER"

IsNumber(columns, row, c) == columns[c].type \in Numeric /\ row[c] # Null

Number(row, c) == row[c].text[1].n

\* (Broken variant: the failing row is left among the comparable ones.)
GroupWithSelf(columns, target, rows, failing) ==
    LET dims == {c \in DOMAIN columns \ {target} :
                   Role(columns, rows, c) = "DIMENSION"}
    IN {k \in DOMAIN rows : \A c \in dims : rows[k][c] = failing[c]}

\* The rows to compare with: never the failing one, and equal to it in every
\* dimension.  No dimension: the whole pool.
Group(columns, target, rows, failing) ==
    LET dims == {c \in DOMAIN columns \ {target} :
                   Role(columns, rows, c) = "DIMENSION"}
    IN {k \in DOMAIN rows : /\ rows[k] # failing
                            /\ \A c \in dims : rows[k][c] = failing[c]}

\* The square root, up to 100.
Root(x) == Cardinality({r \in 1 .. 100 : r * r <= x})

\* 1 - |stdev / mean| in thousandths; 0 stands for every fit below the
\* minimum of 900.
SpreadFit(xs) ==
    LET n   == Cardinality(DOMAIN xs)
        sum == SumFunction(xs)
        dev == n * SumFunction([k \in DOMAIN xs |-> xs[k] * xs[k]]) - sum * sum
    IN IF dev > (sum * sum) \div 100 THEN 0
       ELSE 1000 - Root((1000 * dev) \div Max({1, (sum * sum) \div 1000}))

\* 1 - the mean relative error of xs against ys in thousandths.
DerivedFit(xs, ys) ==
    LET Abs(a) == IF a < 0 THEN -a ELSE a
        errors == [k \in DOMAIN xs |-> (1000 * Abs(xs[k] - ys[k]))
                                         \div Max({Abs(xs[k]), Abs(ys[k]), 1})]
    IN Max({0, 1000 - SumFunction(errors) \div Cardinality(DOMAIN xs)})

Confidence(fit, n, enough) == (fit * Min({n, 2 * enough})) \div (2 * enough)

Fitted(kind, value, fit, n) ==
    [strategy |-> kind, value |-> [milli |-> value], fit |-> fit,
     confidence |-> Confidence(fit, n, MinGroup)]

Constants(group, columns, target, rows) ==
    LET S   == {k \in group : IsNumber(columns, rows[k], target)}
        xs  == [k \in S |-> 100 * Number(rows[k], target)]
        sum == SumFunction(xs)
    IN IF Cardinality(S) < MinGroup \/ sum = 0 THEN {}
       ELSE {Fitted("constant_within_group", (10 * sum) \div Cardinality(S),
                    SpreadFit(xs), Cardinality(S))}

Ratios(group, columns, target, rows, failing, m) ==
    LET S   == {k \in group : /\ IsNumber(columns, rows[k], target)
                              /\ IsNumber(columns, rows[k], m)
                              /\ Number(rows[k], m) # 0}
        xs  == [k \in S |-> (100 * Number(rows[k], target)) \div Number(rows[k], m)]
        sum == SumFunction(xs)
    IN IF \/ Cardinality(S) < MinGroup \/ sum = 0
          \/ ~IsNumber(columns, failing, m) \/ Number(failing, m) = 0
       THEN {}
       ELSE {Fitted("ratio_consistency",
                    (10 * sum * Number(failing, m)) \div Cardinality(S),
                    SpreadFit(xs), Cardinality(S))}

Apply(kind, a, b) == CASE kind = "product_consistency" -> a * b
                       [] kind = "sum_consistency" -> a + b
                       [] kind = "difference_consistency" -> a - b

Derivations(group, columns, target, rows, failing, m1, m2) ==
    LET S == {k \in group :
                \A c \in {target, m1, m2} : IsNumber(columns, rows[k], c)}
        xs == [k \in S |-> Number(rows[k], target)]
        Of(kind) ==
           LET ys == [k \in S |-> Apply(kind, Number(rows[k], m1),
                                         Number(rows[k], m2))]
           IN Fitted(kind, 1000 * Apply(kind, Number(failing, m1),
                                        Number(failing, m2)),
                     DerivedFit(xs, ys), Cardinality(S))
    IN IF \/ Cardinality(S) < MinGroup
          \/ \E c \in {m1, m2} : ~IsNumber(columns, failing, c)
       THEN {}
       ELSE {Of(kind) : kind \in {"product_consistency", "sum_consistency",
                                  "difference_consistency"}}

\* math.isclose(rel_tol=0.01)
Close(a, b) == LET Abs(x) == IF x < 0 THEN -x ELSE x
               IN 100 * Abs(a - b) <= Max({Abs(a), Abs(b)})

\* The best fitting shape, when no shape that fits as well (within 0.03)
\* says another value.  Shapes that fit equally and agree are alike, so that
\* the order in which the code tries them does not matter.
RelationshipEvidence(columns, target, rows, failing) ==
    LET group == Group(columns, target, rows, failing)
        measures == {c \in DOMAIN columns \ {target} :
                       Role(columns, rows, c) = "MEASURE"}
        pairs == {p \in measures \X measures : p[1] # p[2]}
        ratios == UNION {Ratios(group, columns, target, rows, failing, m) :
                           m \in measures}
        derivations == UNION {Derivations(group, columns, target, rows,
                                          failing, p[1], p[2]) : p \in pairs}
        shapes == Constants(group, columns, target, rows)
                    \union ratios \union derivations
        fitting == {s \in shapes : s.fit >= 900}
        top == CHOOSE s \in fitting : \A r \in fitting : s.fit >= r.fit
    IN IF \/ Cardinality(group) < MinGroup \/ fitting = {}
          \/ \E s \in fitting : /\ top.fit - s.fit <= 30
                                /\ ~Close(s.value.milli, top.value.milli)
       THEN {}
       ELSE {top}
=============================================================================
