-------------------------- MODULE RowProvenanceProofs --------------------------
(***************************************************************************)
(* Theorems about RowProvenance.  An issue carries the reference and the   *)
(* value that its row had under the key of the validation; the records of  *)
(* an attempt are made of the issues alone, so nothing that was approved   *)
(* can be lost on the way; and a reference under the same key finds the    *)
(* row it was made of.                                                     *)
(***************************************************************************)
EXTENDS RowProvenance, FiniteSetTheorems, WellFoundedInduction, TLAPS

-----------------------------------------------------------------------------
(* Operators: what fails, and what finds a row.                            *)

\* Rules fail on rows that were read, and on a missing value where the type of
\* the rule says so.
LEMMA FailuresAreRows ==
  ASSUME NEW rule, rule.type \in RuleTypes, NEW rows, NEW stats,
         NEW r \in Failures(rule, rows, stats)
  PROVE  /\ r \in DOMAIN rows
         /\ rule.type = "COMPLETENESS" => rows[r][CHOOSE x \in rule.columns : TRUE] = Null
  BY DEF Failures, RuleTypes, Given

LEMMA CellsAreNoReferences ==
  ASSUME NEW x \in Cell, NEW r \in Row
  PROVE  x # -r
<1>1. r \in Nat \ {0} /\ -r \in Int /\ -r < 0
  BY RowsAndKeys
<1> QED
  BY <1>1, NothingIsNoValue DEF Cell

\* A row's reference under a key is the sequence of its values in the columns
\* of the key.
LEMMA RefIsValues ==
  ASSUME NEW k \in Keys, NEW row, NEW n
  PROVE  /\ Ref(k, row, n) = [i \in 1..Len(k) |-> row[k[i]]]
         /\ Len(k) \in Nat \ {0} /\ DOMAIN k = 1..Len(k)
         /\ Len(Ref(k, row, n)) = Len(k)
<1>1. k \in Seq(KeyColumns) /\ k # << >>
  BY RowsAndKeys
<1>2. Len(k) \in Nat \ {0} /\ DOMAIN k = 1..Len(k)
  BY <1>1
<1>3. Ref(k, row, n) = [i \in 1..Len(k) |-> row[k[i]]]
  BY <1>1, <1>2 DEF Ref
<1>4. [i \in 1..Len(k) |-> row[k[i]]] \in Seq({row[k[i]] : i \in 1..Len(k)})
      /\ Len([i \in 1..Len(k) |-> row[k[i]]]) = Len(k)
  BY <1>2
<1> QED
  BY <1>2, <1>3, <1>4

\* What a reference is parsed to says of every column of the key what the row
\* had in it.
LEMMA KeyDictIsValues ==
  ASSUME NEW k \in Keys, NEW row, NEW n
  PROVE  LET d == KeyDict(Ref(k, row, n), k)
         IN d = [c \in {k[i] : i \in 1..Len(k)} |-> row[c]]
<1> DEFINE ref == Ref(k, row, n)
           N   == Len(k)
<1>1. N \in Nat \ {0} /\ DOMAIN k = 1..N /\ Len(ref) = N /\ k # << >>
  BY RefIsValues, RowsAndKeys
<1>2. \A i \in 1..N : ref[i] = row[k[i]]
  BY RefIsValues
<1> HIDE DEF ref, N
<1>3. CASE N = 1
  <2>1. KeyDict(ref, k) = [c \in {k[1]} |-> ref[1]]
    BY <1>1, <1>3 DEF KeyDict, N
  <2>2. {k[1]} = {k[i] : i \in 1..N} /\ 1 \in 1..N
    BY <1>3
  <2> QED
    BY <1>2, <2>1, <2>2 DEF ref, N
<1>4. CASE N # 1
  <2>1. Min({Len(k), Len(ref)}) = N
    <3>1. {Len(k), Len(ref)} = {N} /\ N \in Nat
      BY <1>1 DEF N
    <3>2. Min({N}) = N
      BY <3>1 DEF Min
    <3> QED
      BY <3>1, <3>2
  <2>2. KeyDict(ref, k) = [c \in {k[i] : i \in 1..N} |-> ref[CHOOSE i \in 1..N : k[i] = c]]
    <3>1. k # << >> /\ Len(k) # 1
      BY <1>1, <1>4 DEF N
    <3> DEFINE m == Min({Len(k), Len(ref)})
    <3>3. KeyDict(ref, k) = [c \in {k[i] : i \in 1..m} |-> ref[CHOOSE i \in 1..m : k[i] = c]]
      BY <3>1 DEF KeyDict
    <3> HIDE DEF m
    <3>4. m = N
      BY <2>1 DEF m
    <3> QED
      BY <3>3, <3>4
  <2>3. \A c \in {k[i] : i \in 1..N} : ref[CHOOSE i \in 1..N : k[i] = c] = row[c]
    BY <1>2
  <2> QED
    BY <2>2, <2>3 DEF ref, N
<1> QED
  BY <1>3, <1>4

\* A key of a row of a table is a set of values.
LEMMA KeyDictIsNoNoKey ==
  ASSUME NEW k \in Keys, NEW t, IsTable(t), NEW r \in DOMAIN t, NEW n
  PROVE  KeyDict(Ref(k, t[r], n), k) # NoKey
<1> DEFINE C == {k[i] : i \in 1..Len(k)}
<1>1. k \in Seq(KeyColumns)
  BY RowsAndKeys
<1>2. C \subseteq KeyColumns
  BY <1>1
<1>3. \A c \in C : t[r][c] \in Int \cup {Null}
  BY <1>2 DEF IsTable, Cell
<1>4. [c \in C |-> t[r][c]] \in [C -> Int \cup {Null}]
  BY <1>3
<1>5. KeyDict(Ref(k, t[r], n), k) = [c \in C |-> t[r][c]]
  BY KeyDictIsValues
<1> HIDE DEF C
<1> QED
  BY <1>2, <1>4, <1>5, NothingIsNoValue

-----------------------------------------------------------------------------
(* An attempt is made of the approved issues.                              *)

\* What Stage leaves behind, and what it is made of.
LEMMA StageMakesRecords ==
  ASSUME Stage, staged'.status = "READY"
  PROVE  /\ staged'.key = key /\ staged'.table = source
         /\ \A x \in staged'.records : \E ref \in {i.ref : i \in approved} :
              x \in RecordsFor(ref, approved, key, source)
         /\ \A ref \in {i.ref : i \in approved} :
              /\ ~Conflicting(Group(approved, ref))
              /\ \E x \in staged'.records :
                   /\ x \in RecordsFor(ref, approved, key, source)
                   /\ \A y \in staged'.records : y \in RecordsFor(ref, approved, key, source) => x = y
<1> DEFINE refs    == {x.ref : x \in approved}
           attempt == [status |-> "READY", key |-> key, table |-> source, records |-> {}]
<1>1. \A ref \in refs : ~Conflicting(Group(approved, ref))
  BY DEF Stage
<1>2. PICK pick \in [refs -> UNION {RecordsFor(ref, approved, key, source) : ref \in refs}] :
        /\ \A ref \in refs : pick[ref] \in RecordsFor(ref, approved, key, source)
        /\ staged' = [attempt EXCEPT !.records = {pick[ref] : ref \in refs}]
  BY <1>1 DEF Stage
<1>3. staged'.key = key /\ staged'.table = source /\ staged'.records = {pick[ref] : ref \in refs}
  BY <1>2
<1>4. \A ref, x : x \in RecordsFor(ref, approved, key, source) => x.ref = ref
  BY DEF RecordsFor, NotFound, Staged
<1> HIDE DEF refs
<1>5. ASSUME NEW ref \in refs
      PROVE  \E x \in staged'.records :
               /\ x \in RecordsFor(ref, approved, key, source)
               /\ \A y \in staged'.records : y \in RecordsFor(ref, approved, key, source) => x = y
  <2>1. pick[ref] \in staged'.records /\ pick[ref] \in RecordsFor(ref, approved, key, source)
    BY <1>2, <1>3
  <2>2. ASSUME NEW y \in staged'.records, y \in RecordsFor(ref, approved, key, source)
        PROVE  pick[ref] = y
    <3>1. PICK other \in refs : y = pick[other]
      BY <1>3
    <3>2. y.ref = other /\ y.ref = ref
      BY <1>2, <1>4, <2>2, <3>1
    <3> QED
      BY <3>1, <3>2
  <2> QED
    BY <2>1, <2>2
<1>6. \A x \in staged'.records : \E ref \in refs : x \in RecordsFor(ref, approved, key, source)
  BY <1>2, <1>3
<1> QED
  BY <1>1, <1>3, <1>5, <1>6 DEF refs

\* A record has the issues of its reference and their values.
LEMMA RecordHoldsItsGroup ==
  ASSUME NEW ref, NEW items, NEW k, NEW t, NEW x \in RecordsFor(ref, items, k, t),
         ~Conflicting(Group(items, ref))
  PROVE  /\ x.items = Group(items, ref)
         /\ \A i \in x.items : i.column # NoColumn => x.snapshot[i.column] = i.final
<1> DEFINE group == Group(items, ref)
<1>1. ASSUME NEW row, NEW i \in group, i.column # NoColumn
      PROVE  Snapshot(row, group)[i.column] = i.final
  <2> DEFINE c == i.column
             j == CHOOSE y \in group : y.column = c
  <2>1. \E y \in group : y.column = c
    OBVIOUS
  <2>2. j \in group /\ j.column = c
    BY <2>1
  <2>3. j.final = i.final
    BY <1>1, <2>2 DEF Conflicting
  <2>4. c \in DOMAIN row \cup {y.column : y \in group}
    OBVIOUS
  <2>5. Snapshot(row, group)[c] = j.final
    BY <2>1, <2>4 DEF Snapshot
  <2> QED
    BY <2>3, <2>5
<1> HIDE DEF group
<1>2. \/ x = NotFound(ref, group)
      \/ \E r \in Found(ref, {y.ref : y \in items}, k, t) : x = Staged(ref, group, t[r])
  BY DEF RecordsFor, group
<1>3. x.items = group /\ \E row : x.snapshot = Snapshot(row, group)
  <2>1. CASE x = NotFound(ref, group)
    BY <2>1 DEF NotFound
  <2>2. ASSUME NEW r, x = Staged(ref, group, t[r])
        PROVE  x.items = group /\ x.snapshot = Snapshot(t[r], group)
    BY <2>2 DEF Staged
  <2> QED
    BY <1>2, <2>1, <2>2
<1> QED
  BY <1>1, <1>3 DEF group

LEMMA StageOverrulesNothing ==
  ASSUME Stage
  PROVE  NothingIsOverruled'
<1> SUFFICES ASSUME staged'.status = "READY"
             PROVE  /\ \A i \in approved' : Cardinality({x \in staged'.records : i \in x.items}) = 1
                    /\ \A x \in staged'.records : \A i \in x.items :
                         i \in approved' /\ (i.column # NoColumn => x.snapshot[i.column] = i.final)
  BY DEF NothingIsOverruled
<1>1. approved' = approved
  BY DEF Stage
<1>2. ASSUME NEW x \in staged'.records
      PROVE  \E ref \in {i.ref : i \in approved} :
               /\ x \in RecordsFor(ref, approved, key, source)
               /\ x.items = Group(approved, ref)
               /\ \A i \in x.items : i.column # NoColumn => x.snapshot[i.column] = i.final
  <2>1. PICK ref \in {i.ref : i \in approved} : x \in RecordsFor(ref, approved, key, source)
    BY StageMakesRecords
  <2>2. ~Conflicting(Group(approved, ref))
    BY StageMakesRecords
  <2> QED
    BY <2>1, <2>2, RecordHoldsItsGroup
<1>3. ASSUME NEW i \in approved
      PROVE  Cardinality({x \in staged'.records : i \in x.items}) = 1
  <2>1. PICK x \in staged'.records :
          /\ x \in RecordsFor(i.ref, approved, key, source)
          /\ \A y \in staged'.records : y \in RecordsFor(i.ref, approved, key, source) => x = y
    BY StageMakesRecords
  <2>2. x.items = Group(approved, i.ref)
    BY <2>1, StageMakesRecords, RecordHoldsItsGroup
  <2>3. i \in x.items
    BY <2>2 DEF Group
  <2>4. ASSUME NEW y \in staged'.records, i \in y.items
        PROVE  y = x
    <3>1. PICK ref : y \in RecordsFor(ref, approved, key, source) /\ y.items = Group(approved, ref)
      BY <1>2
    <3>2. ref = i.ref
      BY <2>4, <3>1 DEF Group
    <3> QED
      BY <2>1, <3>1, <3>2
  <2>5. {y \in staged'.records : i \in y.items} = {x}
    BY <2>3, <2>4
  <2> QED
    BY <2>5, FS_Singleton
<1>4. ASSUME NEW x \in staged'.records, NEW i \in x.items
      PROVE  i \in approved /\ (i.column # NoColumn => x.snapshot[i.column] = i.final)
  BY <1>2 DEF Group
<1> QED
  BY <1>1, <1>3, <1>4

-----------------------------------------------------------------------------
(* The invariant.                                                          *)

\* An issue names its row by the reference the row had, and has the value the
\* row had in its column.
IsOfItsRow(i) ==
  /\ i.row \in DOMAIN run.rows
  /\ i.ref = Ref(run.key, run.rows[i.row], i.row)
  /\ i.column # NoColumn => i.original = run.rows[i.row][i.column]

TablesInv ==
  /\ IsTable(source)
  /\ key \in Keys \cup {<< >>}
  /\ IsTable(run.rows)
  /\ run.key \in Keys \cup {<< >>}
  /\ run.step \in {"none", "read", "evaluated", "approved"}
  /\ {"step", "rules", "key", "rows", "failures"} \subseteq DOMAIN run
  /\ \A rule \in run.rules : rule.type \in RuleTypes

\* A validation is staged once it has been approved, and not repeated.
StagedInv ==
  /\ staged.status # "NONE" => run.step = "approved"
  /\ run.step = "evaluated" => \A f \in run.failures : IsOfItsRow(f)
  /\ run.step = "approved" => \A i \in approved : IsOfItsRow(i)

\* The first key that is configured is the one that was confirmed.
ConfirmInv ==
  /\ IsTable(confirm.rows)
  /\ confirm.step \in {"idle", "sampled", "adopted"}
  /\ {"step", "rows", "full"} \subseteq DOMAIN confirm
  /\ configs \in Nat
  /\ confirm.step = "adopted" => configs > 0

ProvenanceInv == TablesInv /\ StagedInv /\ ConfirmInv

-----------------------------------------------------------------------------
(* Tables.                                                                 *)

LEMMA NoRowsAreATable == IsTable(<< >>)
  BY FS_EmptySet DEF IsTable

LEMMA PartsAreTables ==
  ASSUME NEW t, IsTable(t), NEW S \in SUBSET DOMAIN t
  PROVE  IsTable(Restricted(t, S))
<1>1. IsFiniteSet(S)
  BY FS_Subset DEF IsTable
<1> QED
  BY <1>1 DEF IsTable, Restricted

LEMMA SamplesArePartsOfIt ==
  ASSUME NEW t, NEW size, NEW est, NEW sample \in Samples(t, size, est)
  PROVE  sample.of \in SUBSET DOMAIN t
<1> DEFINE some == {S \in SUBSET DOMAIN t : Cardinality(S) <= size}
           most == {S \in some : Cardinality(S) = Min({size, Cardinality(DOMAIN t)})}
<1>1. \/ sample \in {[of |-> DOMAIN t, full |-> TRUE]}
      \/ sample \in {[of |-> S, full |-> FALSE] : S \in some}
      \/ sample \in {[of |-> S, full |-> FALSE] : S \in most}
  BY DEF Samples
<1>2. \A S \in some \cup most : S \in SUBSET DOMAIN t
  OBVIOUS
<1> HIDE DEF some, most
<1> QED
  BY <1>1, <1>2

LEMMA SourceStaysATable ==
  ASSUME IsTable(source), SourceChanges
  PROVE  IsTable(source')
<1>1. \A v \in Value \cup {Null} : v \in Cell
  BY RowsAndKeys DEF Cell
<1>2. ASSUME NEW r \in DOMAIN source, source' = Restricted(source, DOMAIN source \ {r})
      PROVE  IsTable(source')
  <2>1. IsTable(Restricted(source, DOMAIN source \ {r}))
    BY PartsAreTables
  <2> QED
    BY <1>2, <2>1
<1>3. ASSUME NEW r \in DOMAIN source, NEW v \in Value \cup {Null}, NEW c \in DOMAIN source[r],
             source' = [source EXCEPT ![r][c] = v]
      PROVE  IsTable(source')
  <2>1. DOMAIN source' = DOMAIN source
    BY <1>3
  <2>2. \A q \in DOMAIN source : DOMAIN source'[q] = DOMAIN source[q]
    BY <1>3
  <2>3. \A q \in DOMAIN source : \A d \in DOMAIN source[q] :
          source'[q][d] \in {source[q][d], v}
    BY <1>3
  <2> QED
    BY <1>1, <2>1, <2>2, <2>3 DEF IsTable
<1>4. ASSUME NEW r \in Row \ DOMAIN source, NEW q \in DOMAIN source,
             source' = [x \in DOMAIN source \cup {r} |-> IF x = r THEN source[q] ELSE source[x]]
      PROVE  IsTable(source')
  <2>1. DOMAIN source' = DOMAIN source \cup {r}
    BY <1>4
  <2>2. IsFiniteSet(DOMAIN source')
    BY <2>1, FS_AddElement DEF IsTable
  <2>3. \A x \in DOMAIN source' : \E y \in DOMAIN source : source'[x] = source[y]
    BY <1>4, <2>1
  <2> QED
    BY <2>1, <2>2, <2>3 DEF IsTable
<1> QED
  BY <1>2, <1>3, <1>4 DEF SourceChanges

-----------------------------------------------------------------------------
(* The steps.                                                              *)

LEMMA EvaluationNamesRows ==
  ASSUME ProvenanceInv, Evaluate
  PROVE  /\ run'.step = "evaluated" /\ run'.key = run.key /\ run'.rows = run.rows /\ run'.rules = run.rules
         /\ {"step", "rules", "key", "rows", "failures"} \subseteq DOMAIN run'
         /\ \A f \in run'.failures : IsOfItsRow(f)'
<1> DEFINE F(answered) == UNION
             {LET c     == CHOOSE x \in rule.columns : TRUE
                  stats == IF answered /\ rule.type \in PushedDown THEN Aggregates(source, c) ELSE NoStats
              IN {Failure(rule, r) : r \in Failures(rule, run.rows, stats)} : rule \in run.rules}
<1>1. {"step", "rules", "key", "rows", "failures"} \subseteq DOMAIN run
  BY DEF ProvenanceInv, TablesInv
<1>2. PICK answered \in BOOLEAN : run' = [run EXCEPT !.step = "evaluated", !.failures = F(answered)]
  BY DEF Evaluate
<1>3. \A f \in F(answered) : \E rule \in run.rules : \E stats : \E r \in Failures(rule, run.rows, stats) :
        f = Failure(rule, r)
  OBVIOUS
<1> HIDE DEF F
<1>4. /\ run'.step = "evaluated" /\ run'.key = run.key /\ run'.rows = run.rows /\ run'.rules = run.rules
      /\ {"step", "rules", "key", "rows", "failures"} \subseteq DOMAIN run'
      /\ run'.failures = F(answered)
  BY <1>1, <1>2
<1>5. ASSUME NEW rule \in run.rules, NEW stats, NEW r \in Failures(rule, run.rows, stats)
      PROVE  /\ Failure(rule, r).row = r /\ r \in DOMAIN run.rows
             /\ Failure(rule, r).ref = Ref(run.key, run.rows[r], r)
             /\ Failure(rule, r).column # NoColumn =>
                  Failure(rule, r).original = run.rows[r][Failure(rule, r).column]
  <2> DEFINE c == CHOOSE x \in rule.columns : TRUE
  <2>1. rule.type \in RuleTypes
    BY DEF ProvenanceInv, TablesInv
  <2>2. r \in DOMAIN run.rows /\ (rule.type = "COMPLETENESS" => run.rows[r][c] = Null)
    BY <2>1, FailuresAreRows
  <2>3. /\ Failure(rule, r).row = r
        /\ Failure(rule, r).ref = Ref(run.key, run.rows[r], r)
        /\ Failure(rule, r).column = IF rule.type \in {"DUPLICATE", "CROSS_COLUMN"} THEN NoColumn ELSE c
    BY DEF Failure
  <2>4. rule.type \notin {"DUPLICATE", "CROSS_COLUMN"} =>
          Failure(rule, r).original = IF rule.type = "COMPLETENESS" THEN Null ELSE run.rows[r][c]
    BY <2>1 DEF Failure, RuleTypes
  <2> HIDE DEF c
  <2> QED
    BY <2>2, <2>3, <2>4
<1>6. ASSUME NEW f \in run'.failures
      PROVE  IsOfItsRow(f)'
  <2>1. PICK rule \in run.rules : \E stats : \E r \in Failures(rule, run.rows, stats) : f = Failure(rule, r)
    BY <1>3, <1>4
  <2>2. PICK stats : \E r \in Failures(rule, run.rows, stats) : f = Failure(rule, r)
    BY <2>1
  <2>3. PICK r \in Failures(rule, run.rows, stats) : f = Failure(rule, r)
    BY <2>2
  <2>4. /\ f.row \in DOMAIN run.rows
        /\ f.ref = Ref(run.key, run.rows[f.row], f.row)
        /\ f.column # NoColumn => f.original = run.rows[f.row][f.column]
    BY <1>5, <2>3
  <2> QED
    BY <1>4, <2>4 DEF IsOfItsRow
<1> QED
  BY <1>4, <1>6

LEMMA ProvenanceHolds == Spec => []ProvenanceInv
<1>1. Init => ProvenanceInv
  BY NoRowsAreATable, RowsAndKeys
  DEF Init, ProvenanceInv, TablesInv, StagedInv, ConfirmInv, NoConfirm, NoRun, NotStaged
<1>2. ProvenanceInv /\ [Next]_vars => ProvenanceInv'
  <2> SUFFICES ASSUME ProvenanceInv, [Next]_vars
               PROVE  ProvenanceInv'
    OBVIOUS
  <2> USE DEF ProvenanceInv
  <2>1. UNCHANGED <<run, source, key>> => TablesInv'
    BY DEF TablesInv
  <2>2. UNCHANGED <<run, approved, staged>> => StagedInv'
    BY DEF StagedInv, IsOfItsRow
  <2>3. UNCHANGED <<confirm, configs>> => ConfirmInv'
    BY DEF ConfirmInv
  <2>4. CASE SetKey
    BY <2>2, <2>4 DEF SetKey, TablesInv, ConfirmInv
  <2>5. CASE SampleForKey
    <3>1. PICK sample \in Samples(source, SampleSize, estimate) :
            confirm' = [step |-> "sampled", rows |-> Restricted(source, sample.of), full |-> sample.full]
      BY <2>5 DEF SampleForKey
    <3>2. IsTable(Restricted(source, sample.of))
      BY SamplesArePartsOfIt, PartsAreTables DEF TablesInv
    <3>3. ConfirmInv'
      BY <2>5, <3>1, <3>2 DEF SampleForKey, ConfirmInv
    <3> QED
      BY <2>1, <2>2, <2>5, <3>3 DEF SampleForKey
  <2>6. CASE AdoptKey
    <3>1. CASE KeyStatus(confirm.rows, confirm.full) = "VERIFIED_UNIQUE"
      <4>1. key' \in Keys /\ configs' = configs + 1 /\ confirm' = [confirm EXCEPT !.step = "adopted"]
        BY <2>6, <3>1 DEF AdoptKey
      <4>2. ConfirmInv'
        BY <4>1 DEF ConfirmInv
      <4>3. TablesInv'
        BY <2>6, <4>1 DEF AdoptKey, TablesInv
      <4> QED
        BY <2>2, <2>6, <4>2, <4>3 DEF AdoptKey
    <3>2. CASE KeyStatus(confirm.rows, confirm.full) # "VERIFIED_UNIQUE"
      <4>1. confirm' = NoConfirm /\ UNCHANGED <<key, configs>>
        BY <2>6, <3>2 DEF AdoptKey
      <4>2. ConfirmInv'
        BY <4>1, NoRowsAreATable DEF ConfirmInv, NoConfirm
      <4> QED
        BY <2>1, <2>2, <2>6, <4>1, <4>2 DEF AdoptKey
    <3> QED
      BY <3>1, <3>2
  <2>7. CASE ReadRows
    <3>1. PICK rules \in RuleSets : \E size : \E sample \in Samples(source, size, estimate) :
            run' = [run EXCEPT !.step = "read", !.rules = rules, !.key = key,
                               !.rows = Restricted(source, sample.of)]
      BY <2>7 DEF ReadRows
    <3>2. PICK size : \E sample \in Samples(source, size, estimate) :
            run' = [run EXCEPT !.step = "read", !.rules = rules, !.key = key,
                               !.rows = Restricted(source, sample.of)]
      BY <3>1
    <3>3. PICK sample \in Samples(source, size, estimate) :
            run' = [run EXCEPT !.step = "read", !.rules = rules, !.key = key,
                               !.rows = Restricted(source, sample.of)]
      BY <3>2
    <3>4. IsTable(Restricted(source, sample.of))
      BY SamplesArePartsOfIt, PartsAreTables DEF TablesInv
    <3>5. \A rule \in rules : rule.type \in RuleTypes
      BY RowsAndKeys
    <3>6. TablesInv'
      BY <2>7, <3>3, <3>4, <3>5 DEF ReadRows, TablesInv
    <3>7. run.step = "none" /\ staged.status = "NONE" /\ run'.step = "read"
      BY <2>7, <3>3 DEF ReadRows, StagedInv, TablesInv
    <3>8. StagedInv'
      BY <2>7, <3>7 DEF ReadRows, StagedInv
    <3> QED
      BY <2>3, <2>7, <3>6, <3>8 DEF ReadRows
  <2>8. CASE Evaluate
    <3>1. /\ run'.step = "evaluated" /\ run'.key = run.key /\ run'.rows = run.rows /\ run'.rules = run.rules
          /\ {"step", "rules", "key", "rows", "failures"} \subseteq DOMAIN run'
          /\ \A f \in run'.failures : IsOfItsRow(f)'
      BY <2>8, EvaluationNamesRows
    <3>2. TablesInv'
      BY <2>8, <3>1 DEF Evaluate, TablesInv
    <3>3. StagedInv'
      BY <2>8, <3>1 DEF Evaluate, StagedInv
    <3> QED
      BY <2>3, <2>8, <3>2, <3>3 DEF Evaluate
  <2>9. CASE Approve
    <3>1. PICK issues \in SUBSET run.failures : \E final \in [issues -> Value] :
            approved' = {[rule |-> x.rule, row |-> x.row, ref |-> x.ref, column |-> x.column,
                          original |-> x.original, final |-> final[x]] : x \in issues}
      BY <2>9 DEF Approve
    <3>2. run' = [run EXCEPT !.step = "approved"] /\ run.step = "evaluated"
      BY <2>9 DEF Approve
    <3>3. /\ run'.step = "approved" /\ run'.key = run.key /\ run'.rows = run.rows /\ run'.rules = run.rules
          /\ {"step", "rules", "key", "rows", "failures"} \subseteq DOMAIN run'
      BY <3>2 DEF TablesInv
    <3>4. TablesInv'
      BY <2>9, <3>3 DEF Approve, TablesInv
    <3>5. \A i \in approved' : \E x \in run.failures :
            i.row = x.row /\ i.ref = x.ref /\ i.column = x.column /\ i.original = x.original
      BY <3>1
    <3>6. \A x \in run.failures : IsOfItsRow(x)
      BY <3>2 DEF StagedInv
    <3>7. \A i \in approved' : IsOfItsRow(i)'
      BY <3>3, <3>5, <3>6 DEF IsOfItsRow
    <3>8. StagedInv'
      BY <2>9, <3>3, <3>7 DEF Approve, StagedInv
    <3> QED
      BY <2>3, <2>9, <3>4, <3>8 DEF Approve
  <2>10. CASE Stage
    <3>1. run.step = "approved" /\ UNCHANGED <<source, key, run, approved, confirm, configs>>
      BY <2>10 DEF Stage
    <3>2. StagedInv'
      BY <3>1 DEF StagedInv, IsOfItsRow
    <3> QED
      BY <2>1, <2>3, <3>1, <3>2
  <2>11. CASE SourceChanges
    <3>1. IsTable(source')
      BY <2>11, SourceStaysATable DEF TablesInv
    <3>2. TablesInv'
      BY <2>11, <3>1 DEF SourceChanges, TablesInv
    <3> QED
      BY <2>2, <2>3, <2>11, <3>2 DEF SourceChanges
  <2>12. CASE UNCHANGED vars
    BY <2>1, <2>2, <2>3, <2>12 DEF vars
  <2> QED
    BY <2>4, <2>5, <2>6, <2>7, <2>8, <2>9, <2>10, <2>11, <2>12 DEF Next
<1> QED
  BY <1>1, <1>2, PTL DEF Spec

\* Nothing that was approved is lost or overruled: whatever key puts the issues
\* of whatever rows under one reference, each is in one record of an attempt
\* that is READY, with its value (_build_records, build_corrected_fields).
THEOREM ApprovedIsStaged == Spec => []NothingIsOverruled
<1>1. Init => NothingIsOverruled
  BY DEF Init, NotStaged, NothingIsOverruled
<1>2. ProvenanceInv /\ NothingIsOverruled /\ [Next]_vars => NothingIsOverruled'
  <2> SUFFICES ASSUME ProvenanceInv, NothingIsOverruled, [Next]_vars
               PROVE  NothingIsOverruled'
    OBVIOUS
  <2>1. UNCHANGED <<approved, staged>> => NothingIsOverruled'
    BY DEF NothingIsOverruled
  <2>2. CASE Approve
    BY <2>2 DEF Approve, NotStaged, NothingIsOverruled
  <2>3. CASE Stage
    BY <2>3, StageOverrulesNothing
  <2>4. CASE SetKey \/ SampleForKey \/ AdoptKey \/ ReadRows \/ Evaluate \/ SourceChanges \/ UNCHANGED vars
    BY <2>1, <2>4 DEF SetKey, SampleForKey, AdoptKey, ReadRows, Evaluate, SourceChanges, vars
  <2> QED
    BY <2>2, <2>3, <2>4 DEF Next
<1> QED
  BY <1>1, <1>2, ProvenanceHolds, PTL DEF Spec

-----------------------------------------------------------------------------
(* References find their rows.                                             *)

\* One reference finds, by a key that is complete in it, every row that has it.
LEMMA RowIsFetched ==
  ASSUME NEW k \in Keys, NEW t, IsTable(t), NEW r \in DOMAIN t, NEW n, Whole(t[r], k),
         NEW refs, Ref(k, t[r], n) \in refs
  PROVE  r \in FetchedRows(t, {KeyDict(x, k) : x \in refs} \ {NoKey})
<1> DEFINE d == KeyDict(Ref(k, t[r], n), k)
<1>1. d = [c \in {k[i] : i \in 1..Len(k)} |-> t[r][c]] /\ d # NoKey
  <2>1. d = [c \in {k[i] : i \in 1..Len(k)} |-> t[r][c]]
    BY KeyDictIsValues
  <2>2. d # NoKey
    BY KeyDictIsNoNoKey
  <2> QED
    BY <2>1, <2>2
<1>2. DOMAIN k = 1..Len(k)
  BY RefIsValues
<1>3. d \in {KeyDict(x, k) : x \in refs} \ {NoKey}
  BY <1>1
<1> HIDE DEF d
<1>4. \A c \in DOMAIN d : d[c] # Null /\ t[r][c] = d[c]
  BY <1>1, <1>2 DEF Whole
<1> QED
  BY <1>3, <1>4 DEF FetchedRows

LEMMA RefIsKeyOf ==
  ASSUME NEW k \in Keys, NEW row, NEW n
  PROVE  Ref(k, row, n) = KeyOf(row, k)
  BY RefIsValues DEF KeyOf

\* Where there was no key at the validation, or there is none now, no reference
\* finds a row.
LEMMA WithoutKeyNothingIsFound ==
  ASSUME ProvenanceInv, run.step = "approved", run.key = << >> \/ key = << >>,
         NEW ref \in {i.ref : i \in approved}
  PROVE  Found(ref, {i.ref : i \in approved}, key, source) = {}
<1> DEFINE refs == {i.ref : i \in approved}
<1>1. CASE key = << >>
  <2>1. {KeyDict(x, key) : x \in refs} \subseteq {NoKey}
    BY <1>1 DEF KeyDict
  <2>2. {KeyDict(x, key) : x \in refs} \ {NoKey} = {}
    BY <2>1
  <2> QED
    BY <2>2 DEF Found, FetchedRows
<1>2. CASE run.key = << >> /\ key # << >>
  <2>1. key \in Keys /\ IsTable(source) /\ IsTable(run.rows)
    BY <1>2 DEF ProvenanceInv, TablesInv
  <2>2. PICK i \in approved : ref = i.ref
    OBVIOUS
  <2>3. i.row \in DOMAIN run.rows /\ ref = Ref(run.key, run.rows[i.row], i.row)
    BY <2>2 DEF ProvenanceInv, StagedInv, IsOfItsRow
  <2>4. ref = <<-i.row>> /\ i.row \in Row
    BY <1>2, <2>1, <2>3 DEF Ref, IsTable
  <2>5. ASSUME NEW q \in DOMAIN source
        PROVE  Ref(key, source[q], 0) # ref
    <3>1. /\ Ref(key, source[q], 0) = [n \in 1..Len(key) |-> source[q][key[n]]]
          /\ 1 \in 1..Len(key)
      BY <2>1, RefIsValues
    <3>2. Ref(key, source[q], 0)[1] = source[q][key[1]]
      BY <3>1
    <3>3. key[1] \in KeyColumns
      BY <2>1, <3>1, RowsAndKeys
    <3>4. source[q][key[1]] \in Cell
      BY <2>1, <3>3 DEF IsTable
    <3>5. source[q][key[1]] # -i.row
      BY <2>4, <3>4, CellsAreNoReferences
    <3>6. ref[1] = -i.row
      BY <2>4
    <3> QED
      BY <3>2, <3>5, <3>6
  <2> QED
    BY <2>5 DEF Found, FetchedRows
<1> QED
  BY <1>1, <1>2

\* Under the key of the validation a reference finds its row, if it is still
\* there, and no other one.
LEMMA KeptKeyFindsTheRow ==
  ASSUME ProvenanceInv, run.step = "approved", run.key # << >>, run.key = key,
         \A r \in DOMAIN run.rows, q \in DOMAIN run.rows \cup DOMAIN source :
           LET other == IF q \in DOMAIN source THEN source[q] ELSE run.rows[q]
           IN r = q <=> KeyOf(run.rows[r], key) = KeyOf(other, key),
         \A r \in DOMAIN run.rows : Whole(run.rows[r], key),
         NEW i \in approved
  PROVE  /\ i.row \in DOMAIN run.rows
         /\ \A j \in Group(approved, i.ref) : j.row = i.row
         /\ Found(i.ref, {j.ref : j \in approved}, key, source) = {i.row} \cap DOMAIN source
<1> DEFINE refs == {j.ref : j \in approved}
<1>1. key \in Keys /\ IsTable(source) /\ IsTable(run.rows)
  BY DEF ProvenanceInv, TablesInv
<1>2. \A j \in approved : j.row \in DOMAIN run.rows /\ j.ref = KeyOf(run.rows[j.row], key)
  BY <1>1, RefIsKeyOf DEF ProvenanceInv, StagedInv, IsOfItsRow
<1>3. \A q \in DOMAIN run.rows :
        KeyOf(run.rows[q], key) = KeyOf(IF q \in DOMAIN source THEN source[q] ELSE run.rows[q], key)
  OBVIOUS
<1>4. \A r, q \in DOMAIN run.rows : KeyOf(run.rows[r], key) = KeyOf(run.rows[q], key) => r = q
  BY <1>3
<1>5. \A j \in Group(approved, i.ref) : j.row = i.row
  BY <1>2, <1>4 DEF Group
<1>6. ASSUME NEW q \in Found(i.ref, refs, key, source)
      PROVE  q = i.row /\ q \in DOMAIN source
  <2>1. q \in DOMAIN source /\ Ref(key, source[q], 0) = i.ref
    BY DEF Found, FetchedRows
  <2>2. KeyOf(source[q], key) = KeyOf(run.rows[i.row], key)
    BY <1>1, <1>2, <2>1, RefIsKeyOf
  <2> QED
    BY <1>2, <2>1, <2>2
<1>7. ASSUME i.row \in DOMAIN source
      PROVE  i.row \in Found(i.ref, refs, key, source)
  <2> DEFINE r == i.row
  <2>1. KeyOf(source[r], key) = KeyOf(run.rows[r], key)
    BY <1>2, <1>7
  <2>2. Ref(key, source[r], 0) = i.ref
    BY <1>1, <1>2, <2>1, RefIsKeyOf
  <2>3. Whole(source[r], key)
    <3>1. \A n \in DOMAIN key : source[r][key[n]] = run.rows[r][key[n]]
      <4> TAKE n \in DOMAIN key
      <4>1. KeyOf(source[r], key)[n] = source[r][key[n]] /\ KeyOf(run.rows[r], key)[n] = run.rows[r][key[n]]
        BY DEF KeyOf
      <4> QED
        BY <2>1, <4>1
    <3>2. Whole(run.rows[r], key)
      BY <1>2
    <3> QED
      BY <3>1, <3>2 DEF Whole
  <2>4. Ref(key, source[r], 0) \in refs
    BY <2>2
  <2>5. r \in FetchedRows(source, {KeyDict(x, key) : x \in refs} \ {NoKey})
    BY <1>1, <1>7, <2>3, <2>4, RowIsFetched
  <2> QED
    BY <1>7, <2>2, <2>5 DEF Found
<1> QED
  BY <1>2, <1>5, <1>6, <1>7

\* A record of a row that was found is that row with the corrections over it.
LEMMA StagedIsTheRow ==
  ASSUME ProvenanceInv, run.step = "approved", NEW ref, NEW r \in DOMAIN source \cap DOMAIN run.rows,
         \A j \in Group(approved, ref) : j.row = r
  PROVE  LET x     == Staged(ref, Group(approved, ref), source[r])
             row   == source[r]
             fixed == {i.column : i \in x.items} \ {NoColumn}
         IN /\ x.status # "RECORD_NOT_FOUND"
            /\ \A c \in DOMAIN row \ fixed : x.snapshot[c] = row[c]
            /\ x.status = "UNCHANGED" <=> \A c \in fixed : row[c] = run.rows[r][c]
<1> DEFINE group == Group(approved, ref)
           x     == Staged(ref, group, source[r])
           row   == source[r]
           fixed == {i.column : i \in x.items} \ {NoColumn}
<1>1. /\ x.items = group /\ x.snapshot = Snapshot(row, group)
      /\ x.status = IF Drifted(group, row) = {} THEN "UNCHANGED" ELSE "VALUE_CHANGED"
  BY DEF Staged
<1>2. fixed = {i.column : i \in group} \ {NoColumn}
  BY <1>1
<1>3. NoColumn \notin DOMAIN row
  BY DEF ProvenanceInv, TablesInv, IsTable
<1> HIDE DEF x, fixed
<1>4. ASSUME NEW c \in DOMAIN row \ fixed
      PROVE  x.snapshot[c] = row[c]
  <2>1. ~\E i \in group : i.column = c
    BY <1>2, <1>3
  <2> QED
    BY <1>1, <2>1 DEF Snapshot
<1>5. \A i \in group : i.column # NoColumn => i.original = run.rows[r][i.column]
  BY DEF ProvenanceInv, StagedInv, IsOfItsRow, Group
<1>6. Drifted(group, row) = {c \in fixed : row[c] # run.rows[r][c]}
  <2>1. \A c \in fixed : (\E i \in group : i.column = c /\ row[c] # i.original) <=> row[c] # run.rows[r][c]
    BY <1>2, <1>5
  <2> QED
    BY <1>2, <2>1 DEF Drifted
<1>7. x.status = "UNCHANGED" <=> \A c \in fixed : row[c] = run.rows[r][c]
  BY <1>1, <1>6
<1>8. x.status # "RECORD_NOT_FOUND"
  BY <1>1
<1> QED
  BY <1>4, <1>7, <1>8 DEF x, fixed

LEMMA StageKeepsRows ==
  ASSUME ProvenanceInv, Stage
  PROVE  RecordsAreOfTheirRows'
<1> SUFFICES ASSUME staged'.status = "READY"
             PROVE  RecordsAreOfTheirRows'
  BY DEF RecordsAreOfTheirRows
<1> DEFINE refs == {i.ref : i \in approved}
<1>1. run' = run /\ run.step = "approved" /\ staged'.key = key /\ staged'.table = source
  BY StageMakesRecords DEF Stage
<1>2. ASSUME NEW x \in staged'.records
      PROVE  \E i \in approved :
               \/ /\ Found(i.ref, refs, key, source) = {}
                  /\ x = NotFound(i.ref, Group(approved, i.ref))
               \/ \E r \in Found(i.ref, refs, key, source) :
                    x = Staged(i.ref, Group(approved, i.ref), source[r])
  <2>1. PICK ref \in refs : x \in RecordsFor(ref, approved, key, source)
    BY StageMakesRecords
  <2>2. PICK i \in approved : ref = i.ref
    BY <2>1
  <2> QED
    BY <2>1, <2>2 DEF RecordsFor
<1>3. ASSUME run.key = << >> \/ key = << >>
      PROVE  \A x \in staged'.records : x.status = "RECORD_NOT_FOUND"
  <2>1. \A i \in approved : Found(i.ref, refs, key, source) = {}
    BY <1>1, <1>3, WithoutKeyNothingIsFound
  <2> TAKE x \in staged'.records
  <2>2. PICK i \in approved :
          \/ x = NotFound(i.ref, Group(approved, i.ref))
          \/ \E r \in Found(i.ref, refs, key, source) :
               x = Staged(i.ref, Group(approved, i.ref), source[r])
    BY <1>2
  <2>3. x = NotFound(i.ref, Group(approved, i.ref))
    BY <2>1, <2>2
  <2> QED
    BY <2>3 DEF NotFound
<1>4. ASSUME run.key # << >>, run.key = key,
             \A r \in DOMAIN run.rows, q \in DOMAIN run.rows \cup DOMAIN source :
               LET other == IF q \in DOMAIN source THEN source[q] ELSE run.rows[q]
               IN r = q <=> KeyOf(run.rows[r], key) = KeyOf(other, key),
             \A r \in DOMAIN run.rows : Whole(run.rows[r], key),
             NEW x \in staged'.records
      PROVE  \E r \in DOMAIN run.rows :
               /\ \A i \in x.items : i.row = r
               /\ x.status = "RECORD_NOT_FOUND" <=> r \notin DOMAIN source
               /\ r \in DOMAIN source =>
                    LET row == source[r]
                        fixed == {i.column : i \in x.items} \ {NoColumn}
                    IN /\ \A c \in DOMAIN row \ fixed : x.snapshot[c] = row[c]
                       /\ x.status = "UNCHANGED" <=> \A c \in fixed : row[c] = run.rows[r][c]
  <2>1. PICK i \in approved :
          \/ /\ Found(i.ref, refs, key, source) = {}
             /\ x = NotFound(i.ref, Group(approved, i.ref))
          \/ \E r \in Found(i.ref, refs, key, source) :
               x = Staged(i.ref, Group(approved, i.ref), source[r])
    BY <1>2
  <2>2. /\ i.row \in DOMAIN run.rows
        /\ \A j \in Group(approved, i.ref) : j.row = i.row
        /\ Found(i.ref, refs, key, source) = {i.row} \cap DOMAIN source
    BY <1>1, <1>4, KeptKeyFindsTheRow
  <2>3. CASE i.row \notin DOMAIN source
    <3>1. x = NotFound(i.ref, Group(approved, i.ref))
      BY <2>1, <2>2, <2>3
    <3>2. x.items = Group(approved, i.ref) /\ x.status = "RECORD_NOT_FOUND"
      BY <3>1 DEF NotFound
    <3> QED
      BY <2>2, <2>3, <3>2
  <2>4. CASE i.row \in DOMAIN source
    <3>1. x = Staged(i.ref, Group(approved, i.ref), source[i.row])
      BY <2>1, <2>2, <2>4
    <3>2. x.items = Group(approved, i.ref)
      BY <3>1 DEF Staged
    <3>3. LET row == source[i.row]
              fixed == {j.column : j \in x.items} \ {NoColumn}
          IN /\ x.status # "RECORD_NOT_FOUND"
             /\ \A c \in DOMAIN row \ fixed : x.snapshot[c] = row[c]
             /\ x.status = "UNCHANGED" <=> \A c \in fixed : row[c] = run.rows[i.row][c]
      BY <1>1, <2>2, <2>4, <3>1, StagedIsTheRow
    <3> QED
      BY <2>2, <2>4, <3>2, <3>3
  <2> QED
    BY <2>3, <2>4
<1>5. ASSUME run'.key # << >> /\ run'.key = staged'.key /\ KeysKept(run.key)'
      PROVE  \A x \in staged'.records : \E r \in DOMAIN run'.rows :
               /\ \A i \in x.items : i.row = r
               /\ x.status = "RECORD_NOT_FOUND" <=> r \notin DOMAIN staged'.table
               /\ r \in DOMAIN staged'.table =>
                    LET row == staged'.table[r]
                        fixed == {i.column : i \in x.items} \ {NoColumn}
                    IN /\ \A c \in DOMAIN row \ fixed : x.snapshot[c] = row[c]
                       /\ x.status = "UNCHANGED" <=> \A c \in fixed : row[c] = run'.rows[r][c]
  <2>1. run.key # << >> /\ run.key = key
    BY <1>1, <1>5
  <2>2. /\ \A r \in DOMAIN run.rows, q \in DOMAIN run.rows \cup DOMAIN source :
             LET other == IF q \in DOMAIN source THEN source[q] ELSE run.rows[q]
             IN r = q <=> KeyOf(run.rows[r], key) = KeyOf(other, key)
        /\ \A r \in DOMAIN run.rows : Whole(run.rows[r], key)
    BY <1>1, <1>5, <2>1 DEF KeysKept
  <2>3. \A x \in staged'.records : \E r \in DOMAIN run.rows :
          /\ \A i \in x.items : i.row = r
          /\ x.status = "RECORD_NOT_FOUND" <=> r \notin DOMAIN source
          /\ r \in DOMAIN source =>
               LET row == source[r]
                   fixed == {i.column : i \in x.items} \ {NoColumn}
               IN /\ \A c \in DOMAIN row \ fixed : x.snapshot[c] = row[c]
                  /\ x.status = "UNCHANGED" <=> \A c \in fixed : row[c] = run.rows[r][c]
    BY <1>4, <2>1, <2>2
  <2> QED
    BY <1>1, <2>3
<1> QED
  BY <1>1, <1>3, <1>5 DEF RecordsAreOfTheirRows

\* A staged record is about the row that was validated: under the key of the
\* validation, if it still tells the rows apart, whatever was changed, deleted
\* or copied in between; without one, a record is about no row at all
\* (generate_record_ref, _build_records).
THEOREM RecordsFindTheirRows == Spec => []RecordsAreOfTheirRows
<1>1. Init => RecordsAreOfTheirRows
  BY DEF Init, NotStaged, RecordsAreOfTheirRows
<1>2. ProvenanceInv /\ RecordsAreOfTheirRows /\ [Next]_vars => RecordsAreOfTheirRows'
  <2> SUFFICES ASSUME ProvenanceInv, RecordsAreOfTheirRows, [Next]_vars
               PROVE  RecordsAreOfTheirRows'
    OBVIOUS
  <2>1. UNCHANGED <<run, staged>> => RecordsAreOfTheirRows'
    BY DEF RecordsAreOfTheirRows, KeysKept
  <2>2. CASE ReadRows \/ Evaluate \/ Approve
    <3>1. run.step # "approved" /\ staged' = staged
      BY <2>2 DEF ReadRows, Evaluate, Approve
    <3>2. staged'.status # "READY"
      BY <3>1 DEF ProvenanceInv, StagedInv
    <3> QED
      BY <3>2 DEF RecordsAreOfTheirRows
  <2>3. CASE Stage
    BY <2>3, StageKeepsRows
  <2>4. CASE SetKey \/ SampleForKey \/ AdoptKey \/ SourceChanges \/ UNCHANGED vars
    BY <2>1, <2>4 DEF SetKey, SampleForKey, AdoptKey, SourceChanges, vars
  <2> QED
    BY <2>2, <2>3, <2>4 DEF Next
<1> QED
  BY <1>1, <1>2, ProvenanceHolds, PTL DEF Spec

-----------------------------------------------------------------------------
(* The key that was confirmed.                                             *)

\* A set of natural numbers that is not empty has a least element.
LEMMA MinIsLeast ==
  ASSUME NEW W \in SUBSET Nat, W # {}
  PROVE  Min(W) \in W /\ \A n \in W : Min(W) <= n
<1> DEFINE R == OpToRel(<, Nat)
<1>1. IsWellFoundedOn(R, Nat)
  BY NatLessThanWellFounded
<1>2. \A m, n \in Nat : <<m, n>> \in R <=> m < n
  BY DEF OpToRel
<1> HIDE DEF R
<1>3. PICK n \in W : \A m \in W : <<m, n>> \notin R
  BY <1>1, WFMin
<1>4. \A m \in W : ~(m < n)
  BY <1>2, <1>3
<1>5. \A m \in W : n <= m
  BY <1>4
<1> QED
  BY <1>5 DEF Min

LEMMA CandidatesAreMinimal ==
  ASSUME NEW rows, NEW combo \in Candidates(rows)
  PROVE  /\ combo \subseteq Eligible /\ Identifies(combo, rows)
         /\ Cardinality(combo) \in 1..MaxWidth
         /\ ~(Cardinality(DOMAIN rows) < MinObservations)
         /\ \A rest \in SUBSET Eligible :
              Cardinality(rest) \in 1..MaxWidth /\ Cardinality(rest) < Cardinality(combo) => ~Identifies(rest, rows)
<1> DEFINE keys  == {k \in SUBSET Eligible : Cardinality(k) \in 1..MaxWidth /\ Identifies(k, rows)}
           width == Min({Cardinality(k) : k \in keys})
<1>1. /\ ~(Cardinality(DOMAIN rows) < MinObservations)
      /\ combo \in keys /\ Cardinality(combo) = width
  BY DEF Candidates
<1>2. {Cardinality(k) : k \in keys} \in SUBSET Nat /\ {Cardinality(k) : k \in keys} # {}
  BY <1>1 DEF MaxWidth
<1>3. \A n \in {Cardinality(k) : k \in keys} : width <= n
  BY <1>2, MinIsLeast
<1> HIDE DEF width
<1>4. \A rest \in keys : width <= Cardinality(rest)
  BY <1>3
<1>5. ASSUME NEW rest \in SUBSET Eligible,
             Cardinality(rest) \in 1..MaxWidth /\ Cardinality(rest) < Cardinality(combo), Identifies(rest, rows)
      PROVE  FALSE
  <2>1. rest \in keys
    BY <1>5
  <2>2. width <= Cardinality(rest) /\ Cardinality(rest) < width /\ Cardinality(rest) \in Nat /\ width \in Nat
    BY <1>1, <1>4, <1>5, <2>1 DEF MaxWidth
  <2> QED
    BY <2>2
<1> QED
  BY <1>1, <1>5

\* The columns of the key that was confirmed.
Combo(k) == {k[i] : i \in 1..Len(k)}

LEMMA ConfirmedKeyFinds ==
  ASSUME NEW k \in Keys, NEW rows, IsTable(rows), Identifies(Combo(k), rows), NEW r \in DOMAIN rows
  PROVE  FetchedRows(rows, {KeyDict(Ref(k, rows[r], r), k)}) = {r}
<1> DEFINE d == KeyDict(Ref(k, rows[r], r), k)
<1>1. d = [c \in Combo(k) |-> rows[r][c]]
  BY KeyDictIsValues DEF Combo
<1> HIDE DEF d
<1>2. FetchedRows(rows, {d}) = {q \in DOMAIN rows : \A c \in Combo(k) : rows[r][c] # Null /\ rows[q][c] = rows[r][c]}
  BY <1>1 DEF FetchedRows
<1>3. \A c \in Combo(k) : rows[r][c] # Null
  BY DEF Identifies
<1>4. \A q \in DOMAIN rows : (\A c \in Combo(k) : rows[q][c] = rows[r][c]) => q = r
  BY DEF Identifies
<1> QED
  BY <1>2, <1>3, <1>4 DEF d

LEMMA ConfirmedKeyIsMinimal ==
  ASSUME NEW k \in Keys, NEW rows, IsTable(rows), Combo(k) \in Candidates(rows), NEW i \in DOMAIN k
  PROVE  \E r, q \in DOMAIN rows : r # q /\ \A j \in DOMAIN k \ {i} : rows[r][k[j]] = rows[q][k[j]]
<1> DEFINE rest == Combo(k) \ {k[i]}
<1>1. /\ Combo(k) \subseteq Eligible /\ Identifies(Combo(k), rows)
      /\ Cardinality(Combo(k)) \in 1..MaxWidth
      /\ ~(Cardinality(DOMAIN rows) < MinObservations)
      /\ \A x \in SUBSET Eligible :
           Cardinality(x) \in 1..MaxWidth /\ Cardinality(x) < Cardinality(Combo(k)) => ~Identifies(x, rows)
  BY CandidatesAreMinimal
<1>2. Len(k) \in Nat /\ DOMAIN k = 1..Len(k) /\ IsInjective(k)
  BY RefIsValues, RowsAndKeys
<1>3. IsFiniteSet(Combo(k))
  <2>1. IsFiniteSet(1..Len(k))
    BY <1>2, FS_Interval
  <2>2. k \in [1..Len(k) -> Combo(k)]
    <3>1. k = [j \in 1..Len(k) |-> k[j]]
      BY <1>2, RefIsValues, RowsAndKeys
    <3>2. \A j \in 1..Len(k) : k[j] \in Combo(k)
      BY DEF Combo
    <3> QED
      BY <3>1, <3>2
  <2>3. k \in Surjection(1..Len(k), Combo(k))
    BY <2>2 DEF Surjection, Combo
  <2> QED
    BY <2>1, <2>3, FS_Surjection
<1>4. k[i] \in Combo(k)
  BY <1>2 DEF Combo
<1>5. IsFiniteSet(rest) /\ Cardinality(rest) = Cardinality(Combo(k)) - 1
  BY <1>3, <1>4, FS_RemoveElement
<1>6. \A j \in DOMAIN k \ {i} : k[j] \in rest
  BY <1>2 DEF Combo, IsInjective
<1>7. CASE rest = {}
  <2>1. DOMAIN k \ {i} = {}
    BY <1>6, <1>7
  <2>2. \E r, q \in DOMAIN rows : r # q
    <3> SUFFICES ASSUME \A r, q \in DOMAIN rows : r = q
                 PROVE  FALSE
      OBVIOUS
    <3>1. DOMAIN rows = {} \/ \E r : DOMAIN rows = {r}
      OBVIOUS
    <3>2. Cardinality(DOMAIN rows) \in {0, 1}
      BY <3>1, FS_EmptySet, FS_Singleton
    <3> QED
      BY <1>1, <3>2 DEF MinObservations
  <2> QED
    BY <2>1, <2>2
<1>8. CASE rest # {}
  <2>1. Cardinality(rest) \in 1..MaxWidth /\ Cardinality(rest) < Cardinality(Combo(k))
    <3>1. Cardinality(rest) \in Nat /\ Cardinality(rest) # 0
      BY <1>5, <1>8, FS_CardinalityType, FS_EmptySet
    <3> QED
      BY <1>1, <1>5, <3>1 DEF MaxWidth
  <2>2. ~Identifies(rest, rows)
    BY <1>1, <2>1
  <2>3. \A r \in DOMAIN rows, c \in rest : rows[r][c] # Null
    BY <1>1 DEF Identifies
  <2>4. \E r, q \in DOMAIN rows : (\A c \in rest : rows[r][c] = rows[q][c]) /\ r # q
    BY <2>2, <2>3 DEF Identifies
  <2> QED
    BY <1>6, <2>4
<1> QED
  BY <1>7, <1>8

\* A key that was confirmed, and is the only one that was configured, finds every
\* row of the table it was verified on by its reference, and no other row, and
\* needs every column it has: for tables of every size and keys of one, two or
\* three columns (_evaluate_combo, discover_business_key_candidates).
THEOREM ConfirmedKeyIdentifies == Spec => []ConfirmedKeyFindsRows
<1>1. Init => ConfirmedKeyFindsRows
  BY DEF Init, NoConfirm, ConfirmedKeyFindsRows
<1>2. ProvenanceInv /\ ConfirmedKeyFindsRows /\ [Next]_vars => ConfirmedKeyFindsRows'
  <2> SUFFICES ASSUME ProvenanceInv, ConfirmedKeyFindsRows, [Next]_vars
               PROVE  ConfirmedKeyFindsRows'
    OBVIOUS
  <2>1. UNCHANGED <<key, confirm, configs>> => ConfirmedKeyFindsRows'
    BY DEF ConfirmedKeyFindsRows
  <2>2. CASE SetKey
    <3>1. configs' = configs + 1 /\ confirm' = confirm /\ configs \in Nat
      BY <2>2 DEF SetKey, ProvenanceInv, ConfirmInv
    <3>2. ~(confirm'.step = "adopted" /\ configs' = 1)
      BY <3>1 DEF ProvenanceInv, ConfirmInv
    <3> QED
      BY <3>2 DEF ConfirmedKeyFindsRows
  <2>3. CASE SampleForKey
    <3>1. confirm'.step = "sampled"
      BY <2>3 DEF SampleForKey
    <3> QED
      BY <3>1 DEF ConfirmedKeyFindsRows
  <2>4. CASE AdoptKey
    <3>1. CASE KeyStatus(confirm.rows, confirm.full) # "VERIFIED_UNIQUE"
      <4>1. confirm'.step = "idle"
        BY <2>4, <3>1 DEF AdoptKey, NoConfirm
      <4> QED
        BY <4>1 DEF ConfirmedKeyFindsRows
    <3>2. CASE KeyStatus(confirm.rows, confirm.full) = "VERIFIED_UNIQUE"
      <4>1. PICK k \in Keys : {k[i] : i \in DOMAIN k} \in Candidates(confirm.rows) /\ key' = k
        BY <2>4, <3>2 DEF AdoptKey
      <4>2. Combo(k) \in Candidates(confirm.rows)
        BY <4>1, RefIsValues DEF Combo
      <4>3. confirm'.rows = confirm.rows /\ IsTable(confirm.rows)
        BY <2>4, <3>2 DEF AdoptKey, ProvenanceInv, ConfirmInv
      <4>4. Identifies(Combo(k), confirm.rows)
        BY <4>2, CandidatesAreMinimal
      <4>5. \A r \in DOMAIN confirm.rows :
              FetchedRows(confirm.rows, {KeyDict(Ref(k, confirm.rows[r], r), k)}) = {r}
        BY <4>3, <4>4, ConfirmedKeyFinds
      <4>6. \A i \in DOMAIN k : \E r, q \in DOMAIN confirm.rows :
              r # q /\ \A j \in DOMAIN k \ {i} : confirm.rows[r][k[j]] = confirm.rows[q][k[j]]
        BY <4>2, <4>3, ConfirmedKeyIsMinimal
      <4> QED
        BY <4>1, <4>3, <4>5, <4>6 DEF ConfirmedKeyFindsRows
    <3> QED
      BY <3>1, <3>2
  <2>5. CASE ReadRows \/ Evaluate \/ Approve \/ Stage \/ SourceChanges \/ UNCHANGED vars
    BY <2>1, <2>5 DEF ReadRows, Evaluate, Approve, Stage, SourceChanges, vars
  <2> QED
    BY <2>2, <2>3, <2>4, <2>5 DEF Next
<1> QED
  BY <1>1, <1>2, ProvenanceHolds, PTL DEF Spec

==============================================================================
