----------------------------- MODULE StagedRecords -----------------------------
(***************************************************************************)
(* Record references (src/app/modules/validation/record_ref.py) and the    *)
(* records of a staging run (src/app/modules/staging/record_builder.py and *)
(* _build_records): how a row that was validated is found again in the     *)
(* source, and what is staged for it.                                      *)
(*                                                                         *)
(* A key is a sequence of columns, empty for ROW_INDEX_FALLBACK; one column*)
(* is the strategy SINGLE_COLUMN, several are COMPOSITE.  A reference is   *)
(* the sequence of the texts that the separator joins.                     *)
(***************************************************************************)
EXTENDS SourceRows

CONSTANTS NoColumn,   \* the column of an issue that is about the whole row
          NoKey       \* a reference that cannot be parsed

\* generate_record_ref; "ROWIDX:n" is no cell's text.
Ref(key, row, index) ==
  IF key = << >> THEN <<-index>> ELSE [n \in DOMAIN key |-> row[key[n]]]

\* parse_record_ref_to_key_dict.  A single column takes the whole text, which
\* no cell holds when it was joined; zip stops at the shorter of two lists.
KeyDict(ref, key) ==
  CASE key = << >> -> NoKey
    [] Len(key) = 1 -> [c \in {key[1]} |-> IF Len(ref) = 1 THEN ref[1] ELSE 0]
    [] OTHER -> LET n == Min({Len(key), Len(ref)})
                IN [c \in {key[i] : i \in 1..n} |-> ref[CHOOSE i \in 1..n : key[i] = c]]

\* (Broken variant: the rows are taken in the order in which they come back.)
FoundInAnyOrder(ref, refs, key, table) ==
  FetchedRows(table, {KeyDict(x, key) : x \in refs} \ {NoKey})

\* The rows that one batched query returns for all references, and of them
\* those whose own reference is this one.  There is more than one where the
\* key does not identify rows: the last one returned is kept.
Found(ref, refs, key, table) ==
  {r \in FetchedRows(table, {KeyDict(x, key) : x \in refs} \ {NoKey}) :
     Ref(key, table[r], 0) = ref}

\* (Broken variant: the last correction of a column is kept, without a trace.)
NeverConflicting(items) == FALSE

\* Two corrections of one column of a record that do not agree.
Conflicting(items) ==
  \E x, y \in items : x.column # NoColumn /\ x.column = y.column /\ x.final # y.final

\* The corrected fields that are not what they were at validation.  Nothing is
\* said of a field without a column, nor of columns that were not corrected.
Drifted(items, row) == {c \in {x.column : x \in items} \ {NoColumn} :
                          \E x \in items : x.column = c /\ row[c] # x.original}

\* The final values over the row.  Fields of one column agree; of those without
\* a column the one that is read last is kept.
Snapshot(row, items) ==
  [c \in DOMAIN row \cup {x.column : x \in items} |->
     IF \E x \in items : x.column = c THEN (CHOOSE x \in items : x.column = c).final
     ELSE row[c]]

NotFound(ref, items) ==
  [ref |-> ref, items |-> items, status |-> "RECORD_NOT_FOUND",
   snapshot |-> Snapshot([c \in {} |-> Null], items)]

Staged(ref, items, row) ==
  [ref |-> ref, items |-> items, snapshot |-> Snapshot(row, items),
   status |-> IF Drifted(items, row) = {} THEN "UNCHANGED" ELSE "VALUE_CHANGED"]

\* group_by_record_ref: one record for all approved issues of a reference.
Group(items, ref) == {x \in items : x.ref = ref}

\* What may be staged for a reference.
RecordsFor(ref, items, key, table) ==
  LET found == Found(ref, {x.ref : x \in items}, key, table)
      group == Group(items, ref)
  IN IF found = {} THEN {NotFound(ref, group)}
     ELSE {Staged(ref, group, table[r]) : r \in found}
=============================================================================
