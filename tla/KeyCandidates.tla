----------------------------- MODULE KeyCandidates -----------------------------
(***************************************************************************)
(* discover_business_key_candidates of                                     *)
(* src/app/modules/datasets/business_key_discovery.py: the narrowest       *)
(* combinations of columns that identify every row that was read.          *)
(***************************************************************************)
EXTENDS SourceRows

CONSTANT Eligible   \* the columns whose type allows for a key

MaxWidth == 3

MinObservations == 2

\* (Broken variant: rows without a value in the combination are passed over.)
IdentifiesOthers(combo, rows) ==
  \A r, q \in {x \in DOMAIN rows : \A c \in combo : rows[x][c] # Null} :
    (\A c \in combo : rows[r][c] = rows[q][c]) => r = q

\* No null in the combination, and no value of it twice.
Identifies(combo, rows) ==
  /\ \A r \in DOMAIN rows, c \in combo : rows[r][c] # Null
  /\ \A r, q \in DOMAIN rows : (\A c \in combo : rows[r][c] = rows[q][c]) => r = q

\* Wider combinations are tried only when no narrower one identifies the rows.
Candidates(rows) ==
  LET keys  == {k \in SUBSET Eligible : Cardinality(k) \in 1..MaxWidth /\ Identifies(k, rows)}
      width == Min({Cardinality(k) : k \in keys})
  IN IF Cardinality(DOMAIN rows) < MinObservations \/ keys = {} THEN {}
     ELSE {k \in keys : Cardinality(k) = width}

KeyStatus(rows, full) ==
  CASE Candidates(rows) = {} -> "NO_CANDIDATE"
    [] Cardinality(Candidates(rows)) > 1 -> "AMBIGUOUS"
    [] OTHER -> IF full THEN "VERIFIED_UNIQUE" ELSE "SAMPLE_CANDIDATE"
=============================================================================
