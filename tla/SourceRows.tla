------------------------------ MODULE SourceRows ------------------------------
(***************************************************************************)
(* What a source answers: sample_rows, get_dataset_column_stats and        *)
(* fetch_rows_by_keys of the PostgreSQL provider.                          *)
(*                                                                         *)
(* A table is a function from physical rows to [column |-> value].  Values *)
(* are positive numbers or Null; a text that no cell holds is a number     *)
(* that is not positive.                                                   *)
(***************************************************************************)
EXTENDS Integers, FiniteSets, Sequences, FiniteSetsExt

CONSTANTS Null, NoStats

\* The rows that SELECT * [TABLESAMPLE] [LIMIT size] may return, and whether
\* they are known to be all of them.  The estimate is as old as the last
\* discovery; the LIMIT is left out when it says that all rows fit.
Samples(table, size, estimate) ==
  LET some == {S \in SUBSET DOMAIN table : Cardinality(S) <= size}
      most == {S \in some : Cardinality(S) = Min({size, Cardinality(DOMAIN table)})}
  IN CASE estimate # Null /\ estimate \in 1..size -> {[of |-> DOMAIN table, full |-> TRUE]}
       [] estimate # Null /\ estimate > 10 * size -> {[of |-> S, full |-> FALSE] : S \in some}
       [] OTHER -> {[of |-> S, full |-> FALSE] : S \in most}

Restricted(table, S) == [r \in S |-> table[r]]

Given(rows, c) == {r \in DOMAIN rows : rows[r][c] # Null}

\* The exact aggregates of a column.
Aggregates(table, c) ==
  [total    |-> Cardinality(DOMAIN table),
   nulls    |-> Cardinality(DOMAIN table \ Given(table, c)),
   distinct |-> Cardinality({table[r][c] : r \in Given(table, c)})]

\* WHERE (columns) IN (keys): nothing equals NULL.
FetchedRows(table, keys) ==
  {r \in DOMAIN table :
     \E k \in keys : \A c \in DOMAIN k : k[c] # Null /\ table[r][c] = k[c]}
=============================================================================
