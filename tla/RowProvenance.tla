----------------------------- MODULE RowProvenance -----------------------------
(***************************************************************************)
(* One dataset, from its source through validation and approval to its     *)
(* staged records, row by row: whether what is staged is still about the   *)
(* rows that were validated, while the source and the configured key       *)
(* change.  The requests and jobs that carry the data are the subject of   *)
(* other modules; here each is the steps between its queries.              *)
(***************************************************************************)
EXTENDS RuleChecks, KeyCandidates, StagedRecords

CONSTANTS
  Row,          \* physical rows: positive numbers
  Sources,      \* the tables a behaviour may start with
  Value,        \* what an edit writes, and approved corrections say
  Estimates,    \* datasets.row_count_estimate
  RuleSets,     \* the rules that may be enabled together
  Keys,         \* the keys that are asked for
  SampleSize,   \* PROFILING_DEFAULT_SAMPLE_SIZE, BUSINESS_KEY_DISCOVERY_SAMPLE_SIZE
  FullScanSize, \* PROFILING_MAX_FULL_SCAN_ROWS
  MaxApproved,  \* bound: issues that are approved
  MaxEdits,     \* bound: changes of the source
  MaxKeys       \* bound: times a key is configured

\* A cell holds a number, or nothing.
Cell == (Nat \ {0}) \cup {Null}

KeyColumns == UNION {Range(k) : k \in Keys}

\* Every row has the columns that keys are made of.
IsTable(t) ==
  /\ DOMAIN t \subseteq Row /\ IsFiniteSet(DOMAIN t)
  /\ \A r \in DOMAIN t :
       /\ Eligible \cup KeyColumns \subseteq DOMAIN t[r] /\ NoColumn \notin DOMAIN t[r]
       /\ \A c \in DOMAIN t[r] : t[r][c] \in Cell

\* No column is named twice in a key (set_key_columns refuses that).
ASSUME RowsAndKeys ==
  /\ Row \subseteq Nat \ {0}
  /\ \A t \in Sources : IsTable(t)
  /\ Value \subseteq Cell
  /\ \A k \in Keys : k \in Seq(KeyColumns) /\ k # << >> /\ IsInjective(k)
  /\ \A rules \in RuleSets : \A rule \in rules : rule.type \in RuleTypes

\* What is said in place of a value, or of a key's values, is neither.
ASSUME NothingIsNoValue ==
  /\ Null \notin Int
  /\ \A C \in SUBSET KeyColumns : NoKey \notin [C -> Int \cup {Null}]

VARIABLES
  source,   \* the rows of the source
  estimate,
  key,      \* the configured key
  confirm,  \* a confirmation: what it has read, and the key it has adopted
  run,      \* the validation run: its key, the rules, the rows it has read, the failures
  approved, \* the corrections of the approved issues
  staged,   \* the last staging attempt
  edits, configs

vars == <<source, estimate, key, confirm, run, approved, staged, edits, configs>>

NoConfirm == [step |-> "idle", rows |-> << >>, full |-> FALSE]

NoRun == [step |-> "none", rules |-> {}, key |-> << >>, rows |-> << >>, failures |-> {}]

NotStaged == [status |-> "NONE", key |-> << >>, table |-> << >>, records |-> {}]

Init ==
  /\ source \in Sources
  /\ estimate \in Estimates
  /\ key \in Keys \cup {<< >>}
  /\ confirm = NoConfirm
  /\ run = NoRun
  /\ approved = {}
  /\ staged = NotStaged
  /\ edits = 0
  /\ configs = 0

-----------------------------------------------------------------------------
(* The key *)

\* PUT key-columns: whether the columns identify rows is not asked.
SetKey ==
  /\ configs < MaxKeys
  /\ configs' = configs + 1
  /\ key' \in Keys
  /\ UNCHANGED <<source, estimate, confirm, run, approved, staged, edits>>

\* confirm samples the source.
SampleForKey ==
  /\ key = << >>
  /\ confirm.step = "idle"
  /\ \E sample \in Samples(source, SampleSize, estimate) :
       confirm' = [step |-> "sampled", rows |-> Restricted(source, sample.of), full |-> sample.full]
  /\ UNCHANGED <<source, estimate, key, run, approved, staged, edits, configs>>

\* The one candidate, when the sample was the table; its columns are in the
\* order of the catalogue, which the numbers of the columns stand for.
AdoptKey ==
  /\ confirm.step = "sampled"
  /\ configs < MaxKeys
  /\ IF KeyStatus(confirm.rows, confirm.full) = "VERIFIED_UNIQUE"
       THEN /\ \E k \in Keys : /\ {k[i] : i \in DOMAIN k} \in Candidates(confirm.rows)
                               /\ key' = k
            /\ confirm' = [confirm EXCEPT !.step = "adopted"]
            /\ configs' = configs + 1
       ELSE confirm' = NoConfirm /\ UNCHANGED <<key, configs>>
  /\ UNCHANGED <<source, estimate, run, approved, staged, edits>>

-----------------------------------------------------------------------------
(* run_validation *)

\* The rules, the key, and the first query.
ReadRows ==
  /\ run.step = "none"
  /\ \E rules \in RuleSets :
       LET exact == \E rule \in rules : rule.type \in Exact
           size  == IF ~exact THEN SampleSize ELSE IF estimate \in {Null, 0} THEN FullScanSize ELSE estimate
       IN \E sample \in Samples(source, size, estimate) :
            run' = [run EXCEPT !.step = "read", !.rules = rules, !.key = key,
                               !.rows = Restricted(source, sample.of)]
  /\ UNCHANGED <<source, estimate, key, confirm, approved, staged, edits, configs>>

\* What validation_failures say of a row, and the issue that is opened on it.
Failure(rule, r) ==
  LET c == CHOOSE x \in rule.columns : TRUE
  IN [rule |-> rule.type, row |-> r, ref |-> Ref(run.key, run.rows[r], r),
      column |-> IF rule.type \in {"DUPLICATE", "CROSS_COLUMN"} THEN NoColumn ELSE c,
      original |-> CASE rule.type \in {"COMPLETENESS", "DUPLICATE"} -> Null
                     [] rule.type = "CROSS_COLUMN" -> 0
                     [] OTHER -> run.rows[r][c]]

\* The second query, which a provider may not implement or not answer in time,
\* and the evaluation.
Evaluate ==
  /\ run.step = "read"
  /\ \E answered \in BOOLEAN :
       run' = [run EXCEPT !.step = "evaluated",
         !.failures = UNION
           {LET c     == CHOOSE x \in rule.columns : TRUE
                stats == IF answered /\ rule.type \in PushedDown THEN Aggregates(source, c) ELSE NoStats
            IN {Failure(rule, r) : r \in Failures(rule, run.rows, stats)} : rule \in run.rules}]
  /\ UNCHANGED <<source, estimate, key, confirm, approved, staged, edits, configs>>

-----------------------------------------------------------------------------
(* Approval and staging *)

\* Review gives some of the issues a final value, and they are approved.
Approve ==
  /\ run.step = "evaluated"
  /\ staged = NotStaged
  /\ \E issues \in SUBSET run.failures :
       /\ Cardinality(issues) \in 1..MaxApproved
       /\ \E final \in [issues -> Value] :
            approved' = {[rule |-> x.rule, row |-> x.row, ref |-> x.ref, column |-> x.column,
                          original |-> x.original, final |-> final[x]] : x \in issues}
  /\ run' = [run EXCEPT !.step = "approved"]
  /\ UNCHANGED <<source, estimate, key, confirm, staged, edits, configs>>

\* One query for all references, and the records made of what it returned.
Stage ==
  /\ run.step = "approved"
  /\ LET refs == {x.ref : x \in approved}
         attempt == [status |-> "READY", key |-> key, table |-> source, records |-> {}]
     IN IF \E ref \in refs : Conflicting(Group(approved, ref))
          THEN staged' = [attempt EXCEPT !.status = "FAILED"]
          ELSE \E pick \in [refs -> UNION {RecordsFor(ref, approved, key, source) : ref \in refs}] :
                 /\ \A ref \in refs : pick[ref] \in RecordsFor(ref, approved, key, source)
                 /\ staged' = [attempt EXCEPT !.records = {pick[ref] : ref \in refs}]
  /\ UNCHANGED <<source, estimate, key, confirm, run, approved, edits, configs>>

-----------------------------------------------------------------------------
(* The source's owner *)

SourceChanges ==
  /\ edits < MaxEdits
  /\ edits' = edits + 1
  /\ \/ \E r \in DOMAIN source : source' = Restricted(source, DOMAIN source \ {r})
     \/ \E r \in DOMAIN source, v \in Value \cup {Null} :
          \E c \in DOMAIN source[r] : source' = [source EXCEPT ![r][c] = v]
     \/ \E r \in Row \ DOMAIN source, q \in DOMAIN source :
          source' = [x \in DOMAIN source \cup {r} |-> IF x = r THEN source[q] ELSE source[x]]
  /\ UNCHANGED <<estimate, key, confirm, run, approved, staged, configs>>

Next ==
  \/ SetKey \/ SampleForKey \/ AdoptKey
  \/ ReadRows \/ Evaluate \/ Approve \/ Stage
  \/ SourceChanges

Spec == Init /\ [][Next]_vars

-----------------------------------------------------------------------------
(* Properties *)

KeyOf(row, k) == [i \in DOMAIN k |-> row[k[i]]]

Whole(row, k) == \A i \in DOMAIN k : row[k[i]] # Null

\* A row has the key that was read of it, and no other row has or had it.
KeysKept(k) ==
  /\ \A r \in DOMAIN run.rows, q \in DOMAIN run.rows \cup DOMAIN staged.table :
       LET other == IF q \in DOMAIN staged.table THEN staged.table[q] ELSE run.rows[q]
       IN r = q <=> KeyOf(run.rows[r], k) = KeyOf(other, k)
  /\ \A r \in DOMAIN run.rows : Whole(run.rows[r], k)

\* A staged record is about the row that was validated: when the key is the one
\* of the validation and identifies rows, every issue of a record was raised on
\* that row, the record holds the row as it is with the approved values over
\* it, and it says whether the row is gone and whether a value under correction
\* is not what it was; when there was no key then, no record finds a row
\* (staging/record_builder.py, validation/record_ref.py).
RecordsAreOfTheirRows ==
  staged.status = "READY" =>
    /\ run.key = << >> \/ staged.key = << >> =>
         \A x \in staged.records : x.status = "RECORD_NOT_FOUND"
    /\ run.key # << >> /\ run.key = staged.key /\ KeysKept(run.key) =>
         \A x \in staged.records : \E r \in DOMAIN run.rows :
           /\ \A i \in x.items : i.row = r
           /\ x.status = "RECORD_NOT_FOUND" <=> r \notin DOMAIN staged.table
           /\ r \in DOMAIN staged.table =>
                LET row == staged.table[r]
                    fixed == {i.column : i \in x.items} \ {NoColumn}
                IN /\ \A c \in DOMAIN row \ fixed : x.snapshot[c] = row[c]
                   /\ x.status = "UNCHANGED" <=> \A c \in fixed : row[c] = run.rows[r][c]

\* Nothing that was approved is lost or overruled: an attempt that is READY has
\* every approved issue in one record, and each of its corrections under its
\* column, also where a key that does not identify rows puts issues of several
\* rows into one record (staging/record_builder.py, build_corrected_fields).
NothingIsOverruled ==
  staged.status = "READY" =>
    /\ \A i \in approved : Cardinality({x \in staged.records : i \in x.items}) = 1
    /\ \A x \in staged.records : \A i \in x.items :
         i \in approved /\ (i.column # NoColumn => x.snapshot[i.column] = i.final)

\* A key that was confirmed finds every row of the table it was verified on,
\* and no other row, by the row's reference, and no column of it is idle
\* (datasets/business_key_discovery.py, "Uniqueness bar", "minimality").
ConfirmedKeyFindsRows ==
  confirm.step = "adopted" /\ configs = 1 =>
    /\ \A r \in DOMAIN confirm.rows :
         LET ref == Ref(key, confirm.rows[r], r)
         IN FetchedRows(confirm.rows, {KeyDict(ref, key)}) = {r}
    /\ \A i \in DOMAIN key : \E r, q \in DOMAIN confirm.rows :
         /\ r # q
         /\ \A j \in DOMAIN key \ {i} : confirm.rows[r][key[j]] = confirm.rows[q][key[j]]
=============================================================================
