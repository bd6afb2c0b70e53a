---------------------------- MODULE Progressions ----------------------------
(***************************************************************************)
(* The progression evidence of src/app/modules/ai/evidence_sequence.py and *)
(* evidence_temporal.py: what a column's own values say is missing from    *)
(* them, or comes after them.                                              *)
(*                                                                         *)
(* The values are a function from wherever they stand to cells: nothing    *)
(* depends on the order in which they were read.  A candidate instant is   *)
(* [at, z], in hours since the start of 2000.  The zero padding of an      *)
(* identifier is left out.                                                 *)
(***************************************************************************)
EXTENDS CellValues

CONSTANT MaxSlots      \* _MAX_EXPECTED_RANGE_SLOTS and its calendar kin

----------------------------------------------------------------------------
(* What both engines do with integers.                                     *)

Observations(xs) == Cardinality(DOMAIN xs)

Example(xs) == xs[CHOOSE i \in DOMAIN xs : TRUE]

\* range(lo, end, step)
Slots(lo, end, step) == {lo + k * step : k \in 0 .. (end - 1 - lo) \div step}

\* Distinct values in order, how often the commonest difference occurs, that
\* difference (the first of the commonest, as Counter.most_common), and the
\* number of excess occurrences.
Shape(xs) ==
    LET all    == Range(xs)
        n      == Cardinality(all)
        asc    == [i \in 1 .. n |->
                     CHOOSE x \in all :
                       Cardinality({y \in all : y < x}) = i - 1]
        diffs  == [i \in 1 .. n - 1 |-> asc[i + 1] - asc[i]]
        Often(d) == Cardinality({i \in DOMAIN diffs : diffs[i] = d})
        mode   == CHOOSE i \in DOMAIN diffs :
                    \A j \in DOMAIN diffs :
                       \/ Often(diffs[j]) < Often(diffs[i])
                       \/ Often(diffs[j]) = Often(diffs[i]) /\ i <= j
    IN [distinct |-> n, lo |-> Min(all), hi |-> Max(all),
        step |-> diffs[mode], supporting |-> Often(diffs[mode]),
        transitions |-> n - 1, repeats |-> Observations(xs) - n]

MinObservations == 5

MinSupporting == 3

\* One absent slot is proposed; with none absent and one repeat, the next one.
Propose(missing, repeats, supporting, next) ==
    IF \/ missing = {} /\ repeats = 0
       \/ Cardinality(missing) > 1
       \/ repeats > 1
       \/ supporting < MinSupporting
    THEN {}
    ELSE {[strategy |-> IF missing # {} THEN "GAP" ELSE "NEXT_VALUE",
           slot     |-> IF missing # {} THEN Min(missing) ELSE next]}

Filled(p, value, conf) ==
    [strategy |-> p.strategy, value |-> value, confidence |-> conf]

----------------------------------------------------------------------------
(* Sequences of identifiers.                                               *)

\* Prefix, signed digits, suffix: one number, and no other dash.
IsIdentifier(v) ==
    /\ Cardinality({i \in DOMAIN v.text : v.text[i].n # NoNumber}) = 1
    /\ \A i \in DOMAIN v.text : v.text[i].w # "-"

NumberAt(v) == CHOOSE i \in DOMAIN v.text : v.text[i].n # NoNumber

Prefixed(v, n) == [v EXCEPT !.text[NumberAt(v)].n = n]

\* `template' is any identifier of the dominant family.
FamilySequence(template, numbers) ==
    LET s == Shape(numbers)
        missing == Slots(s.lo, s.hi + s.step, s.step) \ Range(numbers)
        conf == (1000 * s.supporting * Min({s.distinct, 2 * MinObservations}))
                  \div (2 * MinObservations * s.transitions)
    IN IF \/ s.distinct < 2
          \/ 2 * s.supporting < s.transitions
          \/ (s.hi - s.lo) \div s.step + 1 > MaxSlots
       THEN {}
       ELSE {Filled(p, Prefixed(template, p.slot), conf) :
               p \in Propose(missing, s.repeats, s.supporting, s.hi + s.step)}

SequenceEvidence(given) ==
    LET parsed == {i \in DOMAIN given : IsIdentifier(given[i])}
        Family(f) == {i \in parsed : Prefixed(given[i], 0) = f}
        Dominant(f) == 10 * Cardinality(Family(f)) >= 9 * Observations(given)
    IN IF Observations(given) < MinObservations THEN {}
       ELSE UNION {FamilySequence(f, [i \in Family(f) |->
                                        given[i].text[NumberAt(f)].n]) :
                     f \in {g \in {Prefixed(given[i], 0) : i \in parsed} :
                              Dominant(g)}}

----------------------------------------------------------------------------
(* Progressions of dates.                                                  *)

MonthLength == <<31, 28, 31, 30, 31, 30, 31, 31, 30, 31, 30, 31>>

LastDay(m) == IF (m % 12) = 1 /\ ((m \div 12) % 4) = 0 THEN 29
              ELSE MonthLength[(m % 12) + 1]

\* Days before month m (2000 .. 2099).
DaysBefore(m) ==
    LET y == m \div 12
    IN 365 * y + (y + 3) \div 4
         + MapThenSumSet(LastDay, (12 * y) .. (m - 1))

At(m, d, t) == 24 * (DaysBefore(m) + d - 1) + t

Instant(v) == At(v.m, v.d, v.t)

TemporalConfidence(xs) ==
    (1000 * Min({Cardinality(Range(xs)), 2 * MinSupporting}))
       \div (2 * MinSupporting)

FixedInterval(given) ==
    LET hours == [i \in DOMAIN given |-> Instant(given[i])]
        s == Shape(hours)
        z == Example(given).z
        missing == Slots(s.lo, s.hi + 1, s.step) \ Range(hours)
    IN IF \/ 2 * s.supporting < s.transitions
          \/ (s.hi - s.lo) \div s.step + 1 > MaxSlots
       THEN {}
       ELSE {Filled(p, [at |-> p.slot, z |-> z], TemporalConfidence(hours)) :
               p \in Propose(missing, s.repeats, s.supporting, s.hi + s.step)}

\* A calendar progression counts units: months or years.
CalendarInterval(units) ==
    LET s == Shape(units)
        missing == Slots(s.lo, s.hi + s.step, s.step) \ Range(units)
    IN IF (s.hi - s.lo) \div s.step > MaxSlots \/ s.step > MaxSlots THEN {}
       ELSE Propose(missing, s.repeats, s.distinct, s.hi + s.step)

Written(v, m, d) == [at |-> At(m, d, v.t), z |-> v.z]

IsNew(given, v) == \A i \in DOMAIN given : Instant(given[i]) # v.at

\* Every date on one day of the month, or every one on the last: a short
\* month takes its last day in both conventions.
MonthInterval(given) ==
    LET v == Example(given)
        months == [i \in DOMAIN given |-> given[i].m]
        endOfMonth == \A i \in DOMAIN given :
                        given[i].d = LastDay(given[i].m)
        Date(m) == Written(v, m, IF endOfMonth THEN LastDay(m)
                                 ELSE Min({v.d, LastDay(m)}))
    IN IF ~endOfMonth /\ \E i \in DOMAIN given : given[i].d # v.d THEN {}
       ELSE {Filled(p, Date(p.slot), TemporalConfidence(months)) :
               p \in {q \in CalendarInterval(months) : IsNew(given, Date(q.slot))}}

\* One month and day every year; a year without that day has no value.
YearInterval(given) ==
    LET v == Example(given)
        years == [i \in DOMAIN given |-> given[i].m \div 12]
        Month(y) == 12 * y + (v.m % 12)
        Date(y) == Written(v, Month(y), v.d)
    IN IF \E i \in DOMAIN given : (given[i].m % 12) # (v.m % 12) \/ given[i].d # v.d
       THEN {}
       ELSE {Filled(p, Date(p.slot), TemporalConfidence(years)) :
               p \in {q \in CalendarInterval(years) :
                        v.d <= LastDay(Month(q.slot)) /\ IsNew(given, Date(q.slot))}}

\* The first strategy that finds a candidate: a fixed step, then, when every
\* value has one time of day, years and months.  Values of several zones are
\* not comparable.
TemporalEvidence(given) ==
    LET Same(X(_)) == \A i, j \in DOMAIN given : X(given[i]) = X(given[j])
        Zone(v) == v.z
        Hour(v) == v.t
    IN IF \/ ~Same(Zone) \/ Observations(given) < MinObservations \/ Same(Instant)
       THEN {}
       ELSE LET fixed == FixedInterval(given)
                year  == IF Same(Hour) THEN YearInterval(given) ELSE {}
            IN IF fixed # {} THEN fixed
               ELSE IF year # {} THEN year
               ELSE IF Same(Hour) THEN MonthInterval(given) ELSE {}
=============================================================================
