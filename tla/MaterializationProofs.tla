------------------------ MODULE MaterializationProofs ------------------------
(***************************************************************************)
(* Theorems about Materialization.  One task at a time is executed, which  *)
(* alone touches the table; what it has copied by now are the first rows   *)
(* of the source in key order, as long as the source is what it was when   *)
(* its rows were counted.                                                  *)
(***************************************************************************)
EXTENDS Materialization, FiniteSetTheorems, SequenceTheorems, TLAPS

-----------------------------------------------------------------------------
(* Operators: the rows in key order, their pages, and the keys a row goes  *)
(* through.                                                                *)

\* A set of natural numbers that is not empty has a least element.
LEMMA LeastExists ==
  ASSUME NEW A \in SUBSET Nat, A # {}
  PROVE  \E n \in A : \A m \in A : n <= m
<1> DEFINE R == OpToRel(<, Nat)
<1>1. IsWellFoundedOn(R, Nat)
  BY NatLessThanWellFounded
<1>2. \A m, n \in Nat : <<m, n>> \in R <=> m < n
  BY DEF OpToRel
<1> HIDE DEF R
<1>3. PICK n \in A : \A m \in A : <<m, n>> \notin R
  BY <1>1, WFMin
<1>4. \A m \in A : ~(m < n)
  BY <1>2, <1>3
<1> QED
  BY <1>4

LEMMA RowsAreFinite ==
  ASSUME NEW rows \in SUBSET Row
  PROVE  IsFiniteSet(rows) /\ Cardinality(rows) \in 0..MaxRow
<1>1. MaxRow \in Nat
  BY MaterializationConstants
<1>2. IsFiniteSet(1..MaxRow) /\ Cardinality(1..MaxRow) = MaxRow
  BY <1>1, FS_Interval
<1>3. IsFiniteSet(rows) /\ Cardinality(rows) <= MaxRow
  BY <1>2, FS_Subset DEF Row
<1>4. Cardinality(rows) \in Nat
  BY <1>3, FS_CardinalityType
<1> QED
  BY <1>1, <1>3, <1>4

\* InKeyOrder lists every row once.
LEMMA KeyOrderIsBijective ==
  ASSUME NEW rows \in SUBSET Row
  PROVE  /\ InKeyOrder(rows) \in [1..Cardinality(rows) -> rows]
         /\ {InKeyOrder(rows)[n] : n \in 1..Cardinality(rows)} = rows
         /\ \A m, n \in 1..Cardinality(rows) : InKeyOrder(rows)[m] = InKeyOrder(rows)[n] => m = n
<1> DEFINE N       == Cardinality(rows)
           upto(r) == {q \in rows : q <= r}
           rank    == [r \in rows |-> Cardinality(upto(r))]
           s       == InKeyOrder(rows)
<1>1. IsFiniteSet(rows) /\ N \in Nat
  BY RowsAreFinite
<1>2. \A r \in rows : r \in Nat
  BY MaterializationConstants DEF Row
<1>3. ASSUME NEW r \in rows
      PROVE  IsFiniteSet(upto(r)) /\ Cardinality(upto(r)) \in 1..N
  <2>1. IsFiniteSet(upto(r)) /\ Cardinality(upto(r)) <= N
    BY <1>1, FS_Subset
  <2>2. r \in upto(r)
    BY <1>2
  <2>3. Cardinality(upto(r)) \in Nat /\ Cardinality(upto(r)) # 0
    BY <2>1, <2>2, FS_CardinalityType, FS_EmptySet
  <2> QED
    BY <1>1, <2>1, <2>3
<1>4. ASSUME NEW q \in rows, NEW r \in rows, q < r
      PROVE  Cardinality(upto(q)) < Cardinality(upto(r))
  <2>1. upto(q) \subseteq upto(r) /\ r \in upto(r) /\ r \notin upto(q)
    BY <1>2, <1>4
  <2>2. Cardinality(upto(q)) <= Cardinality(upto(r)) /\ Cardinality(upto(q)) # Cardinality(upto(r))
    BY <1>3, <2>1, FS_Subset
  <2>3. Cardinality(upto(q)) \in Nat /\ Cardinality(upto(r)) \in Nat
    BY <1>1, <1>3
  <2> QED
    BY <2>2, <2>3
<1>5. \A q, r \in rows : Cardinality(upto(q)) = Cardinality(upto(r)) => q = r
  <2> SUFFICES ASSUME NEW q \in rows, NEW r \in rows, Cardinality(upto(q)) = Cardinality(upto(r)), q # r
               PROVE  FALSE
    OBVIOUS
  <2>1. q < r \/ r < q
    BY <1>2
  <2>2. Cardinality(upto(q)) \in Nat /\ Cardinality(upto(r)) \in Nat
    BY <1>1, <1>3
  <2> QED
    BY <1>4, <2>1, <2>2
<1>6. rank \in Injection(rows, 1..N)
  <2>1. rank \in [rows -> 1..N]
    BY <1>3
  <2>2. \A q, r \in rows : rank[q] = rank[r] => q = r
    BY <1>5
  <2> HIDE DEF rank
  <2> QED
    BY <2>1, <2>2 DEF Injection, IsInjective
<1>7. IsFiniteSet(1..N) /\ Cardinality(1..N) = N
  BY <1>1, FS_Interval
<1>8. rank \in Surjection(rows, 1..N)
  BY <1>1, <1>6, <1>7, FS_Injection
<1>9. \A n \in 1..N : \E r \in rows : Cardinality(upto(r)) = n
  <2>1. \A n \in 1..N : \E r \in rows : rank[r] = n
    BY <1>8 DEF Surjection
  <2> QED
    BY <2>1
<1>10. s = [n \in 1..N |-> CHOOSE r \in rows : Cardinality(upto(r)) = n]
  BY DEF InKeyOrder
<1>11. \A n \in 1..N : s[n] \in rows /\ Cardinality(upto(s[n])) = n
  BY <1>9, <1>10
<1>12. s \in [1..N -> rows]
  BY <1>10, <1>11
<1>13. \A r \in rows : \E n \in 1..N : s[n] = r
  <2> TAKE r \in rows
  <2>1. Cardinality(upto(r)) \in 1..N
    BY <1>3
  <2>2. s[Cardinality(upto(r))] = r
    BY <1>5, <1>11, <2>1
  <2> QED
    BY <2>1, <2>2
<1>14. \A m, n \in 1..N : s[m] = s[n] => m = n
  BY <1>11
<1> QED
  BY <1>11, <1>12, <1>13, <1>14

\* The order of the pages is that of the rows.
Ordered == Keyed => KeysIdentify

LEMMA OrderedStays ==
  ASSUME data' = data
  PROVE  (Ordered' <=> Ordered) /\ (KeysAreKept' <=> KeysAreKept) /\ Records' = Records
  BY DEF Ordered, Keyed, KeysIdentify, KeysAreKept, Records

\* The ordered rows behind the offset.
Window(offset) ==
  LET rows == InKeyOrder(source)
      last == IF offset + BatchSize < Len(rows) THEN offset + BatchSize ELSE Len(rows)
  IN SubSeq(rows, offset + 1, last)

LEMMA WindowIsOrdered ==
  ASSUME source \subseteq Row, NEW offset \in Nat
  PROVE  LET N == Cardinality(source) IN
         /\ Window(offset) \in Seq(Row)
         /\ offset >= N => Len(Window(offset)) = 0
         /\ offset < N => Len(Window(offset)) = IF offset + BatchSize < N THEN BatchSize ELSE N - offset
         /\ \A i \in 1..Len(Window(offset)) : offset + i <= N /\ Window(offset)[i] = InKeyOrder(source)[offset + i]
<1> DEFINE N    == Cardinality(source)
           rows == InKeyOrder(source)
           last == IF offset + BatchSize < N THEN offset + BatchSize ELSE N
<1>1. N \in Nat /\ BatchSize \in Nat \ {0}
  BY RowsAreFinite, MaterializationConstants
<1>2. rows \in [1..N -> source]
  BY KeyOrderIsBijective
<1>3. rows \in Seq(Row) /\ Len(rows) = N
  BY <1>1, <1>2
<1>4. Window(offset) = SubSeq(rows, offset + 1, last)
  BY <1>3 DEF Window
<1>5. last \in Nat /\ last <= N /\ (offset >= N => last = N)
  BY <1>1
<1> HIDE DEF rows, N
<1>6. CASE offset < N
  <2>1. offset <= last /\ offset + 1 \in Int /\ last \in Int
    BY <1>1, <1>6
  <2>2. \A i \in (offset + 1)..last : rows[i] \in Row
    BY <1>1, <1>3, <1>5
  <2> HIDE DEF last
  <2>3. /\ SubSeq(rows, offset + 1, last) \in Seq(Row)
        /\ Len(SubSeq(rows, offset + 1, last)) = IF offset + 1 <= last THEN last - (offset + 1) + 1 ELSE 0
        /\ \A i \in 1..(last - (offset + 1) + 1) : SubSeq(rows, offset + 1, last)[i] = rows[offset + 1 + i - 1]
    BY <2>1, <2>2, SubSeqProperties
  <2>4. Len(Window(offset)) = last - offset
    BY <1>4, <1>5, <2>1, <2>3
  <2>5. \A i \in 1..(last - offset) : offset + i <= N /\ Window(offset)[i] = rows[offset + i]
    <3> TAKE i \in 1..(last - offset)
    <3>1. last - (offset + 1) + 1 = last - offset /\ offset + 1 + i - 1 = offset + i /\ offset + i <= N
      BY <1>1, <1>5, <2>1
    <3> QED
      BY <1>4, <2>3, <3>1
  <2>6. last - offset = IF offset + BatchSize < N THEN BatchSize ELSE N - offset
    BY <1>1 DEF last
  <2>7. Window(offset) \in Seq(Row)
    BY <1>4, <2>3
  <2> QED
    BY <1>1, <1>6, <2>4, <2>5, <2>6, <2>7 DEF rows, N
<1>7. CASE offset >= N
  <2>1. last < offset + 1 /\ offset + 1 \in Int /\ last \in Int
    BY <1>1, <1>5, <1>7
  <2> HIDE DEF last
  <2>2. Window(offset) = << >>
    BY <1>4, <2>1, SubSeqEmpty
  <2> QED
    BY <1>1, <1>7, <2>2 DEF N
<1> QED
  BY <1>1, <1>6, <1>7

LEMMA TiesType ==
  ASSUME source \subseteq Row, NEW tie \in Ties
  PROVE  /\ tie \in [source -> source]
         /\ {tie[r] : r \in source} = source
         /\ Ordered => \A r \in source : tie[r] = r
<1>1. /\ tie \in [source -> source]
      /\ \A q, r \in source : tie[q] = tie[r] => q = r
      /\ \A r \in source : IF Keyed THEN data.key[tie[r]] = data.key[r] ELSE tie[r] = r
  BY DEF Ties
<1>2. IsFiniteSet(source)
  BY RowsAreFinite
<1>3. tie \in Injection(source, source)
  BY <1>1 DEF Injection, IsInjective
<1>4. tie \in Surjection(source, source)
  BY <1>2, <1>3, FS_Injection
<1>5. \A r \in source : \E q \in source : tie[q] = r
  BY <1>4 DEF Surjection
<1>6. ASSUME Ordered, NEW r \in source
      PROVE  tie[r] = r
  <2>1. tie[r] \in Row /\ r \in Row
    BY <1>1
  <2> QED
    BY <1>1, <1>6, <2>1 DEF Ordered, KeysIdentify
<1> QED
  BY <1>1, <1>5, <1>6

\* A page is a window in which rows of one key may have changed places.
LEMMA PageIsWindow ==
  ASSUME source \subseteq Row, NEW tie \in Ties, NEW offset \in Nat
  PROVE  LET N == Cardinality(source) IN
         /\ Page(offset, tie) \in Seq(Row)
         /\ offset >= N => Len(Page(offset, tie)) = 0
         /\ offset < N =>
              Len(Page(offset, tie)) = IF offset + BatchSize < N THEN BatchSize ELSE N - offset
         /\ Ordered => \A i \in 1..Len(Page(offset, tie)) :
                         Page(offset, tie)[i] = InKeyOrder(source)[offset + i]
<1> DEFINE N == Cardinality(source)
           s == Window(offset)
           p == Page(offset, tie)
<1>1. /\ s \in Seq(Row)
      /\ offset >= N => Len(s) = 0
      /\ offset < N => Len(s) = IF offset + BatchSize < N THEN BatchSize ELSE N - offset
      /\ \A i \in 1..Len(s) : offset + i <= N /\ s[i] = InKeyOrder(source)[offset + i]
  BY WindowIsOrdered
<1>2. p = [i \in DOMAIN s |-> tie[s[i]]]
  BY DEF Page, Window
<1>3. N \in Nat /\ InKeyOrder(source) \in [1..N -> source]
  BY RowsAreFinite, KeyOrderIsBijective, MaterializationConstants
<1> HIDE DEF s, p, N
<1>4. DOMAIN s = 1..Len(s) /\ Len(s) \in Nat
  BY <1>1
<1>5. ASSUME NEW i \in 1..Len(s)
      PROVE  s[i] \in source /\ tie[s[i]] \in Row
  <2>1. offset + i \in 1..N
    BY <1>1, <1>3, <1>4
  <2>2. s[i] \in source
    BY <1>1, <1>3, <2>1
  <2> QED
    BY <2>2, TiesType
<1>6. p \in Seq(Row) /\ Len(p) = Len(s)
  BY <1>2, <1>4, <1>5
<1>7. Ordered => \A i \in 1..Len(p) : p[i] = InKeyOrder(source)[offset + i]
  BY <1>1, <1>2, <1>4, <1>5, <1>6, TiesType
<1> QED
  BY <1>1, <1>6, <1>7 DEF p, N

\* The key a row has when a record has been looked up by it.
NextKey(key, record) == IF Hits(record, key) THEN data.sets[record] ELSE key

\* The keys that the row may come to.
KeysFrom(key) == {key} \cup Range(data.sets)

LEMMA RecordsType ==
  ASSUME data \in Datasets
  PROVE  /\ Records \subseteq Row
         /\ \A r \in Row : data.key[r] \in Seq(Nat)
         /\ Range(data.sets) \subseteq Seq(Nat)
<1>1. /\ data.parts \in Nat
      /\ data.key \in [Row -> [1..data.parts -> Nat]]
      /\ DOMAIN data.sets \subseteq Row
      /\ \A x \in DOMAIN data.sets : data.sets[x] \in [1..data.parts -> Nat]
  BY DatasetsAreKeyed
<1>2. \A k \in [1..data.parts -> Nat] : k \in Seq(Nat)
  BY <1>1
<1> QED
  BY <1>1, <1>2 DEF Records, Range

LEMMA NextKeyType ==
  ASSUME NEW key, NEW record \in Records, NEW k \in KeysFrom(key)
  PROVE  NextKey(k, record) \in KeysFrom(key)
  BY DEF NextKey, KeysFrom, Records, Range

LEMMA KeysExist ==
  ASSUME NEW key, NEW order \in Seq(Records)
  PROVE  \E k \in [0..Len(order) -> KeysFrom(key)] :
           k[0] = key /\ \A n \in 1..Len(order) : k[n] = NextKey(k[n - 1], order[n])
<1> DEFINE N        == Len(order)
           Keys(l)  == \E k \in [0..l -> KeysFrom(key)] :
                         k[0] = key /\ \A n \in 1..l : k[n] = NextKey(k[n - 1], order[n])
           Keyless  == {l \in 0..N : ~Keys(l)}
<1>1. N \in Nat
  OBVIOUS
<1>2. Keys(0)
  <2> DEFINE k == [n \in 0..0 |-> key]
  <2>1. k \in [0..0 -> KeysFrom(key)] /\ k[0] = key /\ \A n \in 1..0 : k[n] = NextKey(k[n - 1], order[n])
    BY DEF KeysFrom
  <2> HIDE DEF k
  <2> QED
    BY <2>1
<1>3. ASSUME NEW l \in 1..N, Keys(l - 1)
      PROVE  Keys(l)
  <2>1. PICK k \in [0..(l - 1) -> KeysFrom(key)] :
          k[0] = key /\ \A n \in 1..(l - 1) : k[n] = NextKey(k[n - 1], order[n])
    BY <1>3
  <2> DEFINE k_1 == [n \in 0..l |-> IF n = l THEN NextKey(k[l - 1], order[l]) ELSE k[n]]
  <2>2. l - 1 \in 0..(l - 1) /\ order[l] \in Records
    BY <1>1, <1>3
  <2>3. NextKey(k[l - 1], order[l]) \in KeysFrom(key)
    BY <2>1, <2>2, NextKeyType
  <2>4. \A n \in 0..l : n # l => n \in 0..(l - 1)
    BY <1>1, <1>3
  <2>5. k_1 \in [0..l -> KeysFrom(key)]
    BY <2>3, <2>4
  <2>6. k_1[l] = NextKey(k[l - 1], order[l]) /\ \A n \in 0..(l - 1) : k_1[n] = k[n]
    BY <1>1, <1>3
  <2> HIDE DEF k_1
  <2>7. k_1[0] = key
    BY <1>1, <2>1, <2>6
  <2>8. ASSUME NEW n \in 1..l
        PROVE  k_1[n] = NextKey(k_1[n - 1], order[n])
    <3>1. n - 1 \in 0..(l - 1) /\ (n # l => n \in 1..(l - 1) /\ n \in 0..(l - 1))
      BY <1>1, <1>3
    <3>2. CASE n = l
      BY <2>6, <3>1, <3>2
    <3>3. CASE n # l
      BY <2>1, <2>6, <3>1, <3>3
    <3> QED
      BY <3>2, <3>3
  <2> QED
    BY <2>5, <2>7, <2>8
<1> HIDE DEF Keys
<1>4. Keyless = {}
  <2> SUFFICES ASSUME Keyless # {}
               PROVE  FALSE
    OBVIOUS
  <2>1. Keyless \in SUBSET Nat
    BY <1>1
  <2>2. PICK l \in Keyless : \A m \in Keyless : l <= m
    BY <2>1, LeastExists
  <2>3. l \in 1..N /\ l - 1 \in 0..N /\ l - 1 \notin Keyless
    BY <1>1, <1>2, <2>1, <2>2
  <2>4. Keys(l - 1)
    BY <2>3
  <2> QED
    BY <1>3, <2>2, <2>3, <2>4
<1>5. Keys(N)
  BY <1>1, <1>4
<1> QED
  BY <1>5 DEF Keys

LEMMA KeysOfProperties ==
  ASSUME NEW row, NEW order \in Seq(Records)
  PROVE  /\ KeysOf(row, order) \in [0..Len(order) -> KeysFrom(row.key)]
         /\ KeysOf(row, order)[0] = row.key
         /\ \A n \in 1..Len(order) :
              KeysOf(row, order)[n] = NextKey(KeysOf(row, order)[n - 1], order[n])
<1> DEFINE P(k) == k[0] = row.key /\ \A n \in DOMAIN order : k[n] = NextKey(k[n - 1], order[n])
<1>2. DOMAIN order = 1..Len(order)
  OBVIOUS
<1>3. \E k \in [0..Len(order) -> KeysFrom(row.key)] : P(k)
  <2>1. PICK key : key = row.key
    OBVIOUS
  <2>2. \E k \in [0..Len(order) -> KeysFrom(key)] :
          k[0] = key /\ \A n \in 1..Len(order) : k[n] = NextKey(k[n - 1], order[n])
    BY KeysExist
  <2> QED
    BY <1>2, <2>1, <2>2
<1>4. KeysOf(row, order) = CHOOSE k \in [0..Len(order) -> KeysFrom(row.key)] : P(k)
  BY DEF KeysOf, NextKey, KeysFrom
<1> HIDE DEF P
<1>5. KeysOf(row, order) \in [0..Len(order) -> KeysFrom(row.key)] /\ P(KeysOf(row, order))
  BY <1>3, <1>4
<1> QED
  BY <1>2, <1>5 DEF P

LEMMA OrderType ==
  ASSUME data \in Datasets, NEW order \in SetToSeqs(Records)
  PROVE  /\ order \in Seq(Records)
         /\ \A x \in Records : \E n \in DOMAIN order : order[n] = x
<1> DEFINE N == Cardinality(Records)
<1>1. IsFiniteSet(Records) /\ N \in Nat
  BY RecordsType, RowsAreFinite, MaterializationConstants
<1>2. order \in [1..N -> Records] /\ \A m, n \in 1..N : m # n => order[m] # order[n]
  BY DEF SetToSeqs
<1>3. order \in Seq(Records)
  BY <1>1, <1>2
<1>4. order \in Injection(1..N, Records)
  BY <1>2 DEF Injection, IsInjective
<1>5. Cardinality(1..N) = N
  BY <1>1, FS_Interval
<1>6. order \in Surjection(1..N, Records)
  BY <1>1, <1>4, <1>5, FS_Injection
<1>7. \A x \in Records : \E n \in 1..N : order[n] = x
  BY <1>6 DEF Surjection
<1>8. DOMAIN order = 1..N
  BY <1>2
<1> QED
  BY <1>3, <1>7, <1>8

\* A record is written over a row; it stays the row that came from the source.
LEMMA OverlayType ==
  ASSUME data \in Datasets, NEW i, table[i] \in CopiedRow, NEW order \in Seq(Records)
  PROVE  Overlay(i, order) \in CopiedRow /\ Overlay(i, order).from = table[i].from
<1> DEFINE k == KeysOf(table[i], order)
           d == {order[n] : n \in {m \in DOMAIN order : Hits(order[m], k[m - 1])}}
<1>1. table[i].key \in Seq(Nat)
  BY DEF CopiedRow
<1>2. k[Len(order)] \in KeysFrom(table[i].key)
  BY KeysOfProperties
<1>3. k[Len(order)] \in Seq(Nat)
  BY <1>1, <1>2, RecordsType DEF KeysFrom
<1>4. d \subseteq Row
  BY RecordsType
<1>5. Overlay(i, order) = [table[i] EXCEPT !.key = k[Len(order)], !.written = @ \cup d]
  BY DEF Overlay
<1> HIDE DEF k, d
<1> QED
  BY <1>3, <1>4, <1>5 DEF CopiedRow

-----------------------------------------------------------------------------
(* The invariant.                                                          *)

\* One task is executed at a time, and none once the run is resolved, but for the
\* end of the one that made it READY.
OneTask ==
  /\ message => \A w \in Worker : worker[w].step = "idle"
  /\ \A v, w \in Worker : worker[v].step # "idle" /\ worker[w].step # "idle" => v = w
  /\ run.phase \in {"FAILED", "CANCELLED"} => \A w \in Worker : worker[w].step = "idle"
  /\ run.phase = "READY" =>
       \A w \in Worker : worker[w].step \in {"idle", "audit", "dropFailed", "failJob", "failRun"}

\* The rows of the source that are in the table.
From == {table[i].from : i \in DOMAIN table}

\* The table is the whole source as it was counted.
Complete ==
  /\ table \in Seq(CopiedRow)
  /\ Len(table) = run.counted
  /\ run.stable /\ Ordered => From = source

\* What is in the table before a task executes step s, with c rows copied.
CopyAt(s, c) ==
  /\ s \in {"count", "copy", "check", "apply", "finalize", "finish"} => table \in Seq(CopiedRow)
  /\ s = "count" => table = << >>
  /\ s \in {"copy", "check"} => Len(table) = c
  /\ s = "copy" /\ run.stable /\ Ordered =>
       /\ c <= Cardinality(source)
       /\ From = {InKeyOrder(source)[n] : n \in 1..c}
  /\ s = "check" /\ run.stable /\ Ordered => From = source
  /\ s \in {"apply", "finalize", "finish"} => Complete

\* The table has been taken back: the run is not READY for long, unless the
\* worker dies.
TakenBack ==
  /\ table = NoTable
  /\ crashes > 0 \/ \E w \in Worker : worker[w].step \in {"failJob", "failRun"}

CopyInv ==
  /\ \A w \in Worker : CopyAt(worker[w].step, worker[w].copied)
  /\ run.phase = "READY" => Complete \/ TakenBack

CopyingInv == TypeOK /\ OneTask /\ CopyInv

-----------------------------------------------------------------------------
(* Steps of the worker that executes the task.                             *)

\* w goes on with step s, with c rows copied.
Moves(w, s, c) ==
  /\ worker' \in [Worker -> [step : Step, copied : Nat]]
  /\ worker'[w].step = s /\ worker'[w].copied = c
  /\ \A v \in Worker \ {w} : worker'[v] = worker[v]

LEMMA GotoMoves ==
  ASSUME TypeOK, NEW w \in Worker, NEW s \in Step, Goto(w, s)
  PROVE  Moves(w, s, worker[w].copied)
<1>1. worker \in [Worker -> [step : Step, copied : Nat]]
  BY DEF TypeOK
<1>2. worker' = [worker EXCEPT ![w].step = s]
  BY DEF Goto
<1> QED
  BY <1>1, <1>2 DEF Moves

LEMMA AssignmentMoves ==
  ASSUME TypeOK, NEW w \in Worker, NEW s \in Step, NEW c \in Nat,
         worker' = [worker EXCEPT ![w] = [step |-> s, copied |-> c]]
  PROVE  Moves(w, s, c)
<1>1. worker \in [Worker -> [step : Step, copied : Nat]]
  BY DEF TypeOK
<1> QED
  BY <1>1 DEF Moves

\* The other workers are idle, and nothing is said of an idle worker.
LEMMA MovesKeepsCopies ==
  ASSUME OneTask, NEW w \in Worker, worker[w].step # "idle",
         NEW s, NEW c, Moves(w, s, c), UNCHANGED message,
         run'.phase \in {"FAILED", "CANCELLED"} => s = "idle",
         run'.phase = "READY" => s \in {"idle", "audit", "dropFailed", "failJob", "failRun"},
         CopyAt(s, c)', run'.phase = "READY" => Complete' \/ TakenBack'
  PROVE  OneTask' /\ CopyInv'
<1>1. \A v \in Worker \ {w} : worker'[v].step = "idle"
  BY DEF Moves, OneTask
<1>2. ~message'
  BY DEF OneTask
<1>3. worker'[w].step = s /\ worker'[w].copied = c
  BY DEF Moves
<1>4. OneTask'
  BY <1>1, <1>2, <1>3 DEF OneTask
<1>5. \A c_1 : CopyAt("idle", c_1)'
  BY DEF CopyAt
<1>6. CopyAt(worker[w].step, worker[w].copied)'
  BY <1>3
<1>7. ASSUME NEW v \in Worker \ {w}
      PROVE  CopyAt(worker[v].step, worker[v].copied)'
  BY <1>1, <1>5, <1>7
<1>8. \A v \in Worker : CopyAt(worker[v].step, worker[v].copied)'
  BY <1>6, <1>7
<1> QED
  BY <1>4, <1>8 DEF CopyInv

\* TypeOK, but for the worker and the table.
LEMMA TypesStay ==
  ASSUME TypeOK, NEW w \in Worker, NEW s, NEW c, Moves(w, s, c),
         run' \in RunRow, job' \in JobStatus, cancelFlag' \in BOOLEAN,
         table' \in Seq(CopiedRow) \cup {NoTable}, litter' \in BOOLEAN,
         UNCHANGED <<source, changes, data, cancelling, swept, broker, crashes>>
  PROVE  TypeOK'
  BY DEF TypeOK, Moves, broker

\* The steps that leave the table alone, and what was counted.
LEMMA TableStays ==
  ASSUME CopyingInv, NEW w \in Worker, worker[w].step \notin {"idle", "failRun"},
         NEW s \in Step, Moves(w, s, worker[w].copied),
         run' \in RunRow, run'.counted = run.counted, run'.stable = run.stable,
         run'.phase = run.phase \/ run'.phase \notin Resolved,
         worker[w].step \in {"audit", "dropFailed"} => s = "dropFailed",
         worker[w].step = "failJob" => s = "failRun",
         job' \in JobStatus, cancelFlag' \in BOOLEAN,
         UNCHANGED <<source, changes, data, cancelling, swept, broker, table, litter, crashes>>,
         \/ s \notin {"count", "copy", "check", "apply", "finalize", "finish"}
         \/ worker[w].step \in {"apply", "finalize", "finish"} /\ s \in {"apply", "finalize", "finish"}
         \/ worker[w].step = "check" /\ s = "apply" /\ worker[w].copied = run.counted
  PROVE  CopyingInv'
<1> USE DEF CopyingInv
<1>0. PICK c : c = worker[w].copied
  OBVIOUS
<1>1. TypeOK'
  BY TypesStay DEF TypeOK
<1>2. run'.phase \notin {"FAILED", "CANCELLED"}
  BY DEF OneTask, Resolved
<1>3. CASE run'.phase = "READY"
  <2>1. run.phase = "READY" /\ worker[w].step \in {"audit", "dropFailed", "failJob"}
    BY <1>3 DEF OneTask, Resolved
  <2>2. s \in {"dropFailed", "failRun"}
    BY <2>1
  <2>3. CopyAt(s, c)'
    BY <2>2 DEF CopyAt
  <2>4. Complete => Complete'
    BY OrderedStays DEF Complete, From
  <2>5. TakenBack => TakenBack'
    <3>1. \A v \in Worker : worker[v].step \in {"failJob", "failRun"} => v = w
      BY DEF OneTask
    <3>2. worker[w].step \in {"failJob", "failRun"} => worker'[w].step = "failRun"
      BY <2>1 DEF Moves
    <3> QED
      BY <3>1, <3>2 DEF TakenBack
  <2>6. Complete \/ TakenBack
    BY <2>1 DEF CopyInv
  <2>7. UNCHANGED message
    BY DEF broker
  <2> HIDE DEF CopyingInv
  <2>8. OneTask' /\ CopyInv'
    BY <1>0, <1>2, <2>2, <2>3, <2>4, <2>5, <2>6, <2>7, MovesKeepsCopies DEF CopyingInv
  <2> QED
    BY <1>1, <2>8 DEF CopyingInv
<1>4. CASE run'.phase # "READY"
  <2>1. CopyAt(worker[w].step, c)
    BY <1>0 DEF CopyInv
  <2>2. (From' = From) /\ (Complete' <=> Complete)
    BY OrderedStays DEF From, Complete
  <2>3. CopyAt(s, c)'
    <3>1. CASE s \notin {"count", "copy", "check", "apply", "finalize", "finish"}
      BY <3>1 DEF CopyAt
    <3>2. CASE worker[w].step \in {"apply", "finalize", "finish"} /\ s \in {"apply", "finalize", "finish"}
      <4>1. Complete'
        BY <2>1, <2>2, <3>2 DEF CopyAt
      <4>2. table' \in Seq(CopiedRow)
        BY <2>1, <3>2 DEF CopyAt
      <4> QED
        BY <3>2, <4>1, <4>2 DEF CopyAt
    <3>3. CASE worker[w].step = "check" /\ s = "apply" /\ worker[w].copied = run.counted
      <4>1. table \in Seq(CopiedRow) /\ Len(table) = run.counted /\ (run.stable /\ Ordered => From = source)
        BY <1>0, <2>1, <3>3 DEF CopyAt
      <4>2. Complete'
        BY <2>2, <4>1 DEF Complete
      <4> QED
        BY <3>3, <4>1, <4>2 DEF CopyAt
    <3> QED
      BY <3>1, <3>2, <3>3
  <2>4. UNCHANGED message
    BY DEF broker
  <2> HIDE DEF CopyingInv
  <2>5. OneTask' /\ CopyInv'
    BY <1>0, <1>2, <1>4, <2>3, <2>4, MovesKeepsCopies DEF CopyingInv
  <2> QED
    BY <1>1, <2>5 DEF CopyingInv
<1> QED
  BY <1>3, <1>4

LEMMA QuietStepsKeepCopies ==
  ASSUME CopyingInv, NEW w \in Worker,
         \/ MarkRunning(w) \/ Prepare(w) \/ Connect(w) \/ NameTable(w) \/ SeeCancel(w)
         \/ CheckCount(w) \/ Finalize(w) \/ FailJob(w) \/ CancelJob(w) \/ Raises(w)
  PROVE  CopyingInv'
<1> DEFINE c == worker[w].copied
<1>0. TypeOK /\ run \in RunRow /\ job \in JobStatus /\ cancelFlag \in BOOLEAN
  BY DEF CopyingInv, TypeOK
<1>1. ASSUME NEW p \in Phase, NEW b \in BOOLEAN
      PROVE  /\ [run EXCEPT !.phase = p] \in RunRow
             /\ [run EXCEPT !.phase = p, !.named = b] \in RunRow
  BY <1>0 DEF RunRow
<1>2. CASE MarkRunning(w)
  <2>1. worker[w].step = "markRunning" /\ Moves(w, "prepare", c)
    BY <1>0, <1>2, GotoMoves DEF MarkRunning, Working, Step
  <2> QED
    BY <1>0, <1>2, <2>1, TableStays DEF MarkRunning, JobStatus, api, Step
<1>3. CASE Prepare(w)
  <2>1. worker[w].step = "prepare" /\ Moves(w, "connect", c)
    BY <1>0, <1>3, GotoMoves DEF Prepare, Working, Step
  <2>2. run' \in RunRow /\ run'.phase \notin Resolved /\ run'.counted = run.counted /\ run'.stable = run.stable
    BY <1>0, <1>1, <1>3 DEF Prepare, RunRow, Phase, Resolved
  <2> QED
    BY <1>0, <1>3, <2>1, <2>2, TableStays DEF Prepare, api, Step
<1>4. CASE Connect(w)
  <2>1. worker[w].step = "connect"
    BY <1>4 DEF Connect, Working
  <2>2. PICK s \in {"name", "failJob"} : Moves(w, s, c)
    BY <1>0, <1>4, GotoMoves DEF Connect, Step
  <2> QED
    BY <1>0, <1>4, <2>1, <2>2, TableStays DEF Connect, api, Step
<1>5. CASE NameTable(w)
  <2>1. worker[w].step = "name" /\ Moves(w, "create", c)
    BY <1>0, <1>5, GotoMoves DEF NameTable, Working, Step
  <2>2. run' \in RunRow /\ run'.phase \notin Resolved /\ run'.counted = run.counted /\ run'.stable = run.stable
    BY <1>0, <1>1, <1>5 DEF NameTable, RunRow, Phase, Resolved
  <2> QED
    BY <1>0, <1>5, <2>1, <2>2, TableStays DEF NameTable, api, Step
<1>6. CASE SeeCancel(w)
  <2>1. worker[w].step = "copy" /\ Moves(w, "dropCancelled", c)
    BY <1>0, <1>6, GotoMoves DEF SeeCancel, Working, Step
  <2> QED
    BY <1>0, <1>6, <2>1, TableStays DEF SeeCancel, api, Step
<1>7. CASE CheckCount(w)
  <2>1. worker[w].step = "check"
    BY <1>7 DEF CheckCount, Working
  <2>2. CASE c = run.counted
    <3>1. Moves(w, "apply", c)
      BY <1>0, <1>7, <2>2, GotoMoves DEF CheckCount, Step
    <3>2. run' = [run EXCEPT !.phase = "APPLYING_CORRECTIONS"]
      BY <1>7, <2>2 DEF CheckCount
    <3>3. run' \in RunRow /\ run'.phase \notin Resolved /\ run'.counted = run.counted /\ run'.stable = run.stable
      BY <1>0, <1>1, <3>2 DEF RunRow, Phase, Resolved
    <3> QED
      BY <1>0, <1>7, <2>1, <2>2, <3>1, <3>3, TableStays DEF CheckCount, api, Step
  <2>3. CASE c # run.counted
    <3>1. Moves(w, "dropFailed", c) /\ UNCHANGED run
      BY <1>0, <1>7, <2>3, GotoMoves DEF CheckCount, Step
    <3> QED
      BY <1>0, <1>7, <2>1, <3>1, TableStays DEF CheckCount, api, Step
  <2> QED
    BY <2>2, <2>3
<1>8. CASE Finalize(w)
  <2>1. worker[w].step = "finalize" /\ Moves(w, "finish", c)
    BY <1>0, <1>8, GotoMoves DEF Finalize, Working, Step
  <2>2. run' \in RunRow /\ run'.phase \notin Resolved /\ run'.counted = run.counted /\ run'.stable = run.stable
    BY <1>0, <1>1, <1>8 DEF Finalize, RunRow, Phase, Resolved
  <2> QED
    BY <1>0, <1>8, <2>1, <2>2, TableStays DEF Finalize, api, Step
<1>9. CASE FailJob(w)
  <2>1. worker[w].step = "failJob" /\ Moves(w, "failRun", c)
    BY <1>0, <1>9, GotoMoves DEF FailJob, Working, Step
  <2> QED
    BY <1>0, <1>9, <2>1, TableStays DEF FailJob, JobStatus, api, Step
<1>10. CASE CancelJob(w)
  <2>1. worker[w].step = "cancelJob" /\ Moves(w, "cancelRun", c)
    BY <1>0, <1>10, GotoMoves DEF CancelJob, Working, Step
  <2> QED
    BY <1>0, <1>10, <2>1, TableStays DEF CancelJob, JobStatus, Step
<1>11. CASE Raises(w)
  <2>1. worker[w].step # "idle" /\ Moves(w, "dropFailed", c)
    BY <1>0, <1>11, GotoMoves DEF Raises, Step
  <2> QED
    BY <1>0, <1>11, <2>1, TableStays DEF Raises, api, Step
<1> QED
  BY <1>2, <1>3, <1>4, <1>5, <1>6, <1>7, <1>8, <1>9, <1>10, <1>11

LEMMA CreateTableKeepsCopies ==
  ASSUME CopyingInv, NEW w \in Worker, CreateTable(w)
  PROVE  CopyingInv'
<1> USE DEF CopyingInv
<1>1. PICK c : c = worker[w].copied
  OBVIOUS
<1>2. worker[w].step = "create" /\ table' = << >> /\ Moves(w, "count", c)
  BY <1>1, GotoMoves DEF CreateTable, Working, Step
<1>3. run \in RunRow /\ job \in JobStatus /\ cancelFlag \in BOOLEAN /\ litter \in BOOLEAN
  BY DEF TypeOK
<1>4. << >> \in Seq(CopiedRow)
  OBVIOUS
<1>5. UNCHANGED <<source, changes, data, run, job, cancelFlag, cancelling, swept, broker, message, litter, crashes>>
  BY DEF CreateTable, api, broker
<1>6. TypeOK'
  BY <1>2, <1>3, <1>4, <1>5, TypesStay
<1>7. run'.phase \notin {"FAILED", "CANCELLED", "READY"}
  BY <1>2, <1>5 DEF OneTask, Resolved
<1>8. CopyAt("count", c)'
  BY <1>2, <1>4 DEF CopyAt
<1> HIDE DEF CopyingInv
<1>9. OneTask' /\ CopyInv'
  BY <1>2, <1>5, <1>7, <1>8, MovesKeepsCopies DEF CopyingInv
<1> QED
  BY <1>6, <1>9 DEF CopyingInv

LEMMA CountKeepsCopies ==
  ASSUME CopyingInv, NEW w \in Worker, Count(w)
  PROVE  CopyingInv'
<1> USE DEF CopyingInv
<1>1. source \subseteq Row /\ run \in RunRow /\ job \in JobStatus /\ cancelFlag \in BOOLEAN
      /\ litter \in BOOLEAN /\ table \in Seq(CopiedRow) \cup {NoTable}
  BY DEF TypeOK
<1>2. Cardinality(source) \in Nat
  BY <1>1, RowsAreFinite, MaterializationConstants
<1>3. worker[w].step = "count" /\ Moves(w, "copy", 0)
  BY AssignmentMoves DEF Count, Working, Step
<1>4. run' = [run EXCEPT !.phase = "COPYING_SOURCE", !.counted = Cardinality(source), !.stable = TRUE]
      /\ UNCHANGED <<source, changes, data, job, cancelFlag, cancelling, swept, broker, message, table, litter, crashes>>
  BY DEF Count, api, broker
<1>5. run' \in RunRow /\ run'.phase = "COPYING_SOURCE"
  BY <1>1, <1>2, <1>4 DEF RunRow, Phase
<1>6. TypeOK'
  BY <1>1, <1>3, <1>4, <1>5, TypesStay
<1>7. run'.phase \notin {"FAILED", "CANCELLED", "READY"}
  BY <1>5 DEF Resolved
<1>8. table = << >>
  BY <1>3 DEF CopyInv, CopyAt
<1>9. table' = << >> /\ table' \in Seq(CopiedRow) /\ source' = source
  BY <1>4, <1>8
<1>10. From' = {} /\ {InKeyOrder(source')[n] : n \in 1..0} = {}
  BY <1>9 DEF From
<1>11. CopyAt("copy", 0)'
  BY <1>2, <1>9, <1>10 DEF CopyAt
<1> HIDE DEF CopyingInv
<1>12. OneTask' /\ CopyInv'
  BY <1>3, <1>4, <1>7, <1>11, MovesKeepsCopies DEF CopyingInv
<1> QED
  BY <1>6, <1>12 DEF CopyingInv

\* The run becomes READY with the table as it is.
LEMMA FinishKeepsCopies ==
  ASSUME CopyingInv, NEW w \in Worker, Finish(w)
  PROVE  CopyingInv'
<1> USE DEF CopyingInv
<1>1. run \in RunRow /\ cancelFlag \in BOOLEAN /\ litter \in BOOLEAN
      /\ table \in Seq(CopiedRow) \cup {NoTable}
  BY DEF TypeOK
<1>2. PICK c : c = worker[w].copied
  OBVIOUS
<1>3. worker[w].step = "finish" /\ Moves(w, "audit", c)
  BY <1>2, GotoMoves DEF Finish, Working, Step
<1>4. UNCHANGED <<source, changes, data, cancelFlag, cancelling, swept, broker, message, table, litter,
                  crashes>>
      /\ job' \in JobStatus /\ run' = [run EXCEPT !.phase = "READY"]
  BY DEF Finish, api, broker, JobStatus
<1>5. run' \in RunRow /\ run'.phase = "READY" /\ run'.counted = run.counted /\ run'.stable = run.stable
  BY <1>1, <1>4 DEF RunRow, Phase, Resolved
<1>6. TypeOK'
  BY <1>1, <1>3, <1>4, <1>5, TypesStay
<1>7. CopyAt("audit", c)'
  BY DEF CopyAt
<1>8. Complete
  BY <1>3 DEF CopyInv, CopyAt
<1>9. Complete'
  BY <1>4, <1>5, <1>8, OrderedStays DEF Complete, From
<1> HIDE DEF CopyingInv
<1>10. OneTask' /\ CopyInv'
  BY <1>3, <1>4, <1>5, <1>7, <1>9, MovesKeepsCopies DEF CopyingInv
<1> QED
  BY <1>6, <1>10 DEF CopyingInv

\* The task ends: the run is FAILED or CANCELLED, or READY already.
LEMMA EndingKeepsCopies ==
  ASSUME CopyingInv, NEW w \in Worker, Audit(w) \/ FailRun(w) \/ CancelRun(w)
  PROVE  CopyingInv'
<1> USE DEF CopyingInv
<1>1. run \in RunRow /\ job \in JobStatus /\ cancelFlag \in BOOLEAN /\ litter \in BOOLEAN
      /\ table \in Seq(CopiedRow) \cup {NoTable}
  BY DEF TypeOK
<1>2. worker[w].step \in {"audit", "failRun", "cancelRun"}
  BY DEF Audit, FailRun, CancelRun, Working
<1>3. Moves(w, "idle", 0)
  BY AssignmentMoves DEF Audit, FailRun, CancelRun, Step, NoTask
<1>4. UNCHANGED <<source, changes, data, job, cancelFlag, cancelling, swept, broker, message, table,
                  litter, crashes>>
  BY DEF Audit, FailRun, CancelRun, api, broker
<1>5. \/ run' = run /\ worker[w].step = "audit"
      \/ \E p \in {"FAILED", "CANCELLED"} : run' = [run EXCEPT !.phase = p]
  BY DEF Audit, FailRun, CancelRun, Working
<1>6. run' \in RunRow
  BY <1>1, <1>5 DEF RunRow, Phase, Resolved
<1>7. TypeOK'
  BY <1>1, <1>3, <1>4, <1>6, TypesStay
<1>8. CopyAt("idle", 0)'
  BY DEF CopyAt
<1>9. ASSUME run'.phase = "READY"
      PROVE  Complete' \/ TakenBack'
  <2>1. run' = run /\ worker[w].step = "audit"
    BY <1>1, <1>5, <1>9 DEF RunRow
  <2>2. Complete \/ TakenBack
    BY <1>9, <2>1 DEF CopyInv
  <2>3. Complete => Complete'
    BY <1>4, <2>1, OrderedStays DEF Complete, From
  <2>4. TakenBack => TakenBack'
    <3>1. \A v \in Worker : worker[v].step \notin {"failJob", "failRun"}
      BY <2>1 DEF OneTask
    <3> QED
      BY <1>4, <3>1 DEF TakenBack
  <2> QED
    BY <2>2, <2>3, <2>4
<1> HIDE DEF CopyingInv
<1>10. OneTask' /\ CopyInv'
  BY <1>2, <1>3, <1>4, <1>8, <1>9, MovesKeepsCopies DEF CopyingInv
<1> QED
  BY <1>7, <1>10 DEF CopyingInv

\* Of a run that is READY, the table may be taken back.
LEMMA DropTableKeepsCopies ==
  ASSUME CopyingInv, NEW w \in Worker, DropTable(w)
  PROVE  CopyingInv'
<1> USE DEF CopyingInv
<1>1. run \in RunRow /\ job \in JobStatus /\ cancelFlag \in BOOLEAN /\ litter \in BOOLEAN
      /\ table \in Seq(CopiedRow) \cup {NoTable}
  BY DEF TypeOK
<1>2. PICK c : c = worker[w].copied
  OBVIOUS
<1>3. \E s \in {"failJob", "cancelJob"} :
        Moves(w, s, c) /\ worker[w].step = (IF s = "failJob" THEN "dropFailed" ELSE "dropCancelled")
  BY <1>2, GotoMoves DEF DropTable, Working, Step
<1>4. PICK s \in {"failJob", "cancelJob"} :
        Moves(w, s, c) /\ worker[w].step = (IF s = "failJob" THEN "dropFailed" ELSE "dropCancelled")
  BY <1>3
<1>5. UNCHANGED <<source, changes, data, run, job, cancelFlag, cancelling, swept, broker, message, crashes>>
      /\ (table' = table \/ table' = NoTable)
      /\ table' \in Seq(CopiedRow) \cup {NoTable} /\ litter' \in BOOLEAN
  BY <1>1 DEF DropTable, api, broker
<1>6. TypeOK'
  BY <1>1, <1>4, <1>5, TypesStay
<1>7. run'.phase \notin {"FAILED", "CANCELLED"} /\ (run'.phase = "READY" => s = "failJob")
  BY <1>4, <1>5 DEF OneTask
<1>8. CopyAt(s, c)'
  BY DEF CopyAt
<1>9. ASSUME run'.phase = "READY"
      PROVE  Complete' \/ TakenBack'
  <2>1. worker'[w].step = "failJob"
    BY <1>4, <1>7, <1>9 DEF Moves
  <2>2. table' = NoTable => TakenBack'
    BY <2>1 DEF TakenBack
  <2>3. Complete \/ TakenBack
    BY <1>5, <1>9 DEF CopyInv
  <2>4. table' = table /\ Complete => Complete'
    BY <1>5, OrderedStays DEF Complete, From
  <2> QED
    BY <1>5, <2>2, <2>3, <2>4 DEF TakenBack
<1> HIDE DEF CopyingInv
<1>10. OneTask' /\ CopyInv'
  BY <1>4, <1>5, <1>7, <1>8, <1>9, MovesKeepsCopies DEF CopyingInv
<1> QED
  BY <1>6, <1>10 DEF CopyingInv

\* The table keeps its rows, and each stays the one that came from the source.
LEMMA ApplyCorrectionsKeepsCopies ==
  ASSUME CopyingInv, NEW w \in Worker, ApplyCorrections(w)
  PROVE  CopyingInv'
<1> USE DEF CopyingInv
<1>1. run \in RunRow /\ job \in JobStatus /\ cancelFlag \in BOOLEAN /\ litter \in BOOLEAN
      /\ data \in Datasets
  BY DEF TypeOK
<1>2. PICK c : c = worker[w].copied
  OBVIOUS
<1>3. worker[w].step = "apply" /\ Moves(w, "finalize", c)
  BY <1>2, GotoMoves DEF ApplyCorrections, Working, Step
<1>4. UNCHANGED <<source, changes, data, job, cancelFlag, cancelling, swept, broker, message, litter, crashes>>
      /\ run' = [run EXCEPT !.phase = "VALIDATING"]
  BY DEF ApplyCorrections, api, broker
<1>5. PICK order \in SetToSeqs(Records) : table' = [i \in DOMAIN table |-> Overlay(i, order)]
  BY DEF ApplyCorrections
<1>6. Complete
  BY <1>3 DEF CopyInv, CopyAt
<1>7. table \in Seq(CopiedRow) /\ DOMAIN table = 1..Len(table)
  BY <1>6 DEF Complete
<1>8. \A i \in DOMAIN table : Overlay(i, order) \in CopiedRow /\ Overlay(i, order).from = table[i].from
  BY <1>1, <1>7, OrderType, OverlayType
<1>9. table' \in Seq(CopiedRow) /\ Len(table') = Len(table)
  BY <1>5, <1>7, <1>8
<1>10. DOMAIN table' = DOMAIN table /\ \A i \in DOMAIN table : table'[i].from = table[i].from
  BY <1>5, <1>8
<1>11. From' = From
  BY <1>10 DEF From
<1>12. run' \in RunRow /\ run'.phase = "VALIDATING" /\ run'.counted = run.counted /\ run'.stable = run.stable
  BY <1>1, <1>4 DEF RunRow, Phase
<1>13. TypeOK'
  BY <1>1, <1>3, <1>4, <1>9, <1>12, TypesStay
<1>14. run'.phase \notin {"FAILED", "CANCELLED", "READY"}
  BY <1>12 DEF Resolved
<1>15. Complete'
  BY <1>4, <1>6, <1>9, <1>11, <1>12, OrderedStays DEF Complete
<1>16. CopyAt("finalize", c)'
  BY <1>9, <1>15 DEF CopyAt
<1> HIDE DEF CopyingInv
<1>17. OneTask' /\ CopyInv'
  BY <1>3, <1>4, <1>14, <1>16, MovesKeepsCopies DEF CopyingInv
<1> QED
  BY <1>13, <1>17 DEF CopyingInv

\* Copies of these rows, as they are inserted.
Copies(page) == [i \in DOMAIN page |-> [from |-> page[i], key |-> data.key[page[i]], written |-> {}]]

LEMMA CopiesAreAppended ==
  ASSUME data \in Datasets, table \in Seq(CopiedRow), NEW page \in Seq(Row),
         table' = table \o Copies(page)
  PROVE  /\ table' \in Seq(CopiedRow)
         /\ Len(table') = Len(table) + Len(page)
         /\ From' = From \cup {page[i] : i \in 1..Len(page)}
<1>1. DOMAIN page = 1..Len(page) /\ DOMAIN table = 1..Len(table) /\ Len(page) \in Nat /\ Len(table) \in Nat
  OBVIOUS
<1>2. \A i \in 1..Len(page) : [from |-> page[i], key |-> data.key[page[i]], written |-> {}] \in CopiedRow
  BY RecordsType DEF CopiedRow
<1>3. /\ Copies(page) \in Seq(CopiedRow) /\ Len(Copies(page)) = Len(page)
      /\ \A i \in 1..Len(page) : Copies(page)[i].from = page[i]
  BY <1>1, <1>2 DEF Copies
<1>4. table' \in Seq(CopiedRow) /\ Len(table') = Len(table) + Len(page)
  <2>1. PICK copies : copies = Copies(page)
    OBVIOUS
  <2>2. table' = table \o copies /\ copies \in Seq(CopiedRow) /\ Len(copies) = Len(page)
    BY <1>3, <2>1
  <2>3. table \o copies \in Seq(CopiedRow) /\ Len(table \o copies) = Len(table) + Len(copies)
    BY <2>2, ConcatProperties
  <2> QED
    BY <2>2, <2>3
<1>5. DOMAIN table' = 1..(Len(table) + Len(page))
  BY <1>4
<1>6. \A i \in 1..Len(table) : table'[i] = table[i]
  BY <1>1, <1>3
<1>7. \A i \in 1..Len(page) : table'[Len(table) + i].from = page[i]
  BY <1>1, <1>3
<1>8. ASSUME NEW i \in 1..(Len(table) + Len(page))
      PROVE  i \in 1..Len(table) \/ (i - Len(table) \in 1..Len(page) /\ i = Len(table) + (i - Len(table)))
  BY <1>1
<1>9. From' \subseteq From \cup {page[i] : i \in 1..Len(page)}
  <2> SUFFICES ASSUME NEW i \in 1..(Len(table) + Len(page))
               PROVE  table'[i].from \in From \cup {page[i_1] : i_1 \in 1..Len(page)}
    BY <1>5 DEF From
  <2>1. CASE i \in 1..Len(table)
    BY <1>1, <1>6, <2>1 DEF From
  <2>2. CASE i - Len(table) \in 1..Len(page) /\ i = Len(table) + (i - Len(table))
    <3>1. table'[i].from = page[i - Len(table)]
      BY <1>7, <2>2
    <3> QED
      BY <2>2, <3>1
  <2> QED
    BY <1>8, <2>1, <2>2
<1>10. From \subseteq From'
  <2> SUFFICES ASSUME NEW i \in 1..Len(table)
               PROVE  table[i].from \in From'
    BY <1>1 DEF From
  <2>1. i \in DOMAIN table' /\ table'[i].from = table[i].from
    BY <1>1, <1>5, <1>6
  <2> QED
    BY <2>1 DEF From
<1>11. ASSUME NEW i \in 1..Len(page)
       PROVE  page[i] \in From'
  <2>1. Len(table) + i \in DOMAIN table' /\ table'[Len(table) + i].from = page[i]
    BY <1>1, <1>5, <1>7
  <2> QED
    BY <2>1 DEF From
<1> QED
  BY <1>4, <1>9, <1>10, <1>11

\* With the page behind them, the first rows of the source are still its first
\* rows, and all of them when the page is not full.
LEMMA PageContinues ==
  ASSUME source \subseteq Row, NEW tie \in Ties, Ordered, NEW c \in Nat, c <= Cardinality(source)
  PROVE  LET N    == Cardinality(source)
             rows == InKeyOrder(source)
             page == Page(c, tie)
         IN /\ c + Len(page) <= N
            /\ {rows[n] : n \in 1..c} \cup {page[i] : i \in 1..Len(page)} = {rows[n] : n \in 1..(c + Len(page))}
            /\ Len(page) < BatchSize => {rows[n] : n \in 1..(c + Len(page))} = source
<1> DEFINE N    == Cardinality(source)
           rows == InKeyOrder(source)
           page == Page(c, tie)
<1>1. N \in Nat /\ BatchSize \in Nat \ {0}
  BY RowsAreFinite, MaterializationConstants
<1>2. {rows[n] : n \in 1..N} = source
  BY KeyOrderIsBijective
<1>3. /\ Len(page) \in Nat
      /\ c >= N => Len(page) = 0
      /\ c < N => Len(page) = IF c + BatchSize < N THEN BatchSize ELSE N - c
      /\ \A i \in 1..Len(page) : page[i] = rows[c + i]
  BY PageIsWindow
<1> HIDE DEF N, rows, page
<1>4. c + Len(page) <= N
  BY <1>1, <1>3 DEF N
<1>5. Len(page) < BatchSize => c + Len(page) = N
  BY <1>1, <1>3 DEF N
<1>6. \A n \in 1..(c + Len(page)) : n \in 1..c \/ (n - c \in 1..Len(page) /\ n = c + (n - c))
  BY <1>3
<1>7. \A i \in 1..Len(page) : c + i \in 1..(c + Len(page))
  BY <1>3
<1>8. \A n \in 1..c : n \in 1..(c + Len(page))
  BY <1>3
<1>9. {rows[n] : n \in 1..c} \cup {page[i] : i \in 1..Len(page)} = {rows[n] : n \in 1..(c + Len(page))}
  <2>1. \A i \in 1..Len(page) : page[i] \in {rows[n] : n \in 1..(c + Len(page))}
    BY <1>3, <1>7
  <2>2. \A n \in 1..(c + Len(page)) : rows[n] \in {rows[m] : m \in 1..c} \cup {page[i] : i \in 1..Len(page)}
    <3> TAKE n \in 1..(c + Len(page))
    <3>1. CASE n - c \in 1..Len(page) /\ n = c + (n - c)
      <4>1. page[n - c] = rows[n]
        BY <1>3, <3>1
      <4> QED
        BY <3>1, <4>1
    <3> QED
      BY <1>6, <3>1
  <2> QED
    BY <1>8, <2>1, <2>2
<1>10. Len(page) < BatchSize => {rows[n] : n \in 1..(c + Len(page))} = source
  BY <1>2, <1>5
<1> QED
  BY <1>4, <1>9, <1>10 DEF N, rows, page

LEMMA CopyPageKeepsCopies ==
  ASSUME CopyingInv, NEW w \in Worker, CopyPage(w)
  PROVE  CopyingInv'
<1> USE DEF CopyingInv
<1>1. PICK c : c = worker[w].copied
  OBVIOUS
<1>a. PICK tie \in Ties :
        LET p == Page(c, tie) IN
        /\ table' = IF p = << >> THEN table ELSE table \o Copies(p)
        /\ run' = IF p = << >> THEN run ELSE [run EXCEPT !.copied = c + Len(p)]
        /\ worker' = [worker EXCEPT ![w] = [step |-> IF Len(p) < BatchSize THEN "check" ELSE "copy",
                                            copied |-> c + Len(p)]]
  BY <1>1 DEF CopyPage, Copies
<1> DEFINE page == Page(c, tie)
           next == IF Len(page) < BatchSize THEN "check" ELSE "copy"
<1>2. source \subseteq Row /\ run \in RunRow /\ job \in JobStatus /\ cancelFlag \in BOOLEAN
      /\ litter \in BOOLEAN /\ c \in Nat /\ data \in Datasets
  BY <1>1 DEF TypeOK
<1>3. worker[w].step = "copy"
  BY DEF CopyPage, Working
<1>4. /\ table \in Seq(CopiedRow) /\ Len(table) = c
      /\ run.stable /\ Ordered => c <= Cardinality(source) /\ From = {InKeyOrder(source)[n] : n \in 1..c}
  BY <1>1, <1>3 DEF CopyInv, CopyAt
<1>5. page \in Seq(Row)
  BY <1>2, PageIsWindow
<1>6. c + Len(page) \in Nat
  BY <1>2, <1>5
<1>7. /\ table' = IF page = << >> THEN table ELSE table \o Copies(page)
      /\ run' = IF page = << >> THEN run ELSE [run EXCEPT !.copied = c + Len(page)]
      /\ worker' = [worker EXCEPT ![w] = [step |-> next, copied |-> c + Len(page)]]
  BY <1>a
<1>8. UNCHANGED <<source, changes, data, job, cancelFlag, cancelling, swept, broker, message, litter, crashes>>
  BY DEF CopyPage, api, broker
<1>9. next \in {"check", "copy"} /\ next \in Step
  BY DEF Step
<1>10. run' \in RunRow /\ run'.phase = run.phase /\ run'.counted = run.counted /\ run'.stable = run.stable
  BY <1>2, <1>6, <1>7 DEF RunRow
<1>11. /\ table' \in Seq(CopiedRow)
       /\ Len(table') = c + Len(page)
       /\ From' = From \cup {page[i] : i \in 1..Len(page)}
  <2>1. CASE page = << >>
    <3>1. Len(page) = 0 /\ {page[i] : i \in 1..Len(page)} = {} /\ table' = table
      BY <1>7, <2>1
    <3>2. From' = From
      BY <3>1 DEF From
    <3> QED
      BY <1>2, <1>4, <3>1, <3>2
  <2>2. CASE page # << >>
    BY <1>2, <1>4, <1>5, <1>7, <2>2, CopiesAreAppended
  <2> QED
    BY <2>1, <2>2
<1> HIDE DEF page
<1>12. /\ Ordered /\ c <= Cardinality(source) =>
            /\ c + Len(page) <= Cardinality(source)
            /\ {InKeyOrder(source)[n] : n \in 1..c} \cup {page[i] : i \in 1..Len(page)}
                 = {InKeyOrder(source)[n] : n \in 1..(c + Len(page))}
            /\ Len(page) < BatchSize => {InKeyOrder(source)[n] : n \in 1..(c + Len(page))} = source
  BY <1>2, PageContinues DEF page
<1>13. run'.stable /\ Ordered =>
         /\ c + Len(page) <= Cardinality(source)
         /\ From' = {InKeyOrder(source)[n] : n \in 1..(c + Len(page))}
         /\ next = "check" => From' = source
  BY <1>4, <1>10, <1>11, <1>12
<1> HIDE DEF next
<1>14. PICK s, d : s = next /\ d = c + Len(page)
  OBVIOUS
<1>15. Moves(w, s, d)
  BY <1>6, <1>7, <1>9, <1>14, AssignmentMoves
<1>16. TypeOK'
  BY <1>2, <1>8, <1>10, <1>11, <1>15, TypesStay
<1>17. run'.phase \notin {"FAILED", "CANCELLED", "READY"}
  BY <1>3, <1>10 DEF OneTask, Resolved
<1>18. source' = source /\ (Ordered' <=> Ordered)
  BY <1>8, OrderedStays
<1>19. CopyAt(s, d)'
  <2>1. s \in {"copy", "check"} /\ table' \in Seq(CopiedRow) /\ Len(table') = d
    BY <1>9, <1>11, <1>14
  <2>2. ASSUME run'.stable, Ordered'
        PROVE  /\ d <= Cardinality(source')
               /\ From' = {InKeyOrder(source')[n] : n \in 1..d}
               /\ s = "check" => From' = source'
    <3>1. run'.stable /\ Ordered
      BY <1>18, <2>2
    <3>2. /\ c + Len(page) <= Cardinality(source)
          /\ From' = {InKeyOrder(source)[n] : n \in 1..(c + Len(page))}
          /\ next = "check" => From' = source
      BY <1>13, <3>1
    <3>3. /\ d <= Cardinality(source)
          /\ From' = {InKeyOrder(source)[n] : n \in 1..d}
          /\ s = "check" => From' = source
      BY <1>14, <3>2
    <3>4. source' = source
      BY <1>18
    <3> QED
      BY <3>3, <3>4
  <2> QED
    BY <2>1, <2>2 DEF CopyAt
<1> HIDE DEF CopyingInv
<1>20. OneTask' /\ CopyInv'
  BY <1>3, <1>8, <1>15, <1>17, <1>19, MovesKeepsCopies DEF CopyingInv
<1> QED
  BY <1>16, <1>20 DEF CopyingInv

-----------------------------------------------------------------------------
(* Every other step; the invariant holds.                                  *)

\* The steps of nobody's task, which touch neither the table nor the source.
LEMMA BystandersKeepCopies ==
  ASSUME CopyingInv,
         \/ Enqueue \/ RequestCancel \/ CancelQueued \/ SweepSelect \/ SweepCommit
  PROVE  CopyingInv'
<1> USE DEF CopyingInv
<1>1. UNCHANGED <<source, run, table, worker, changes, data, litter, crashes>>
  BY DEF Enqueue, RequestCancel, CancelQueued, SweepSelect, SweepCommit
<1>2. sent' \in 0..MaxSent
  <2>1. MaxSent \in Nat /\ sent \in 0..MaxSent
    BY MaterializationConstants DEF TypeOK
  <2> QED
    BY <2>1 DEF Enqueue, RequestCancel, CancelQueued, SweepSelect, SweepCommit, broker
<1>3. job' \in JobStatus /\ {cancelFlag', cancelling', swept', message'} \subseteq BOOLEAN
  BY DEF TypeOK, Enqueue, RequestCancel, CancelQueued, SweepSelect, SweepCommit, api, broker, JobStatus
<1>4. message' => \A w \in Worker : worker[w].step = "idle"
  BY DEF OneTask, Enqueue, Working, RequestCancel, CancelQueued, SweepSelect, SweepCommit, broker
<1>5. TypeOK'
  BY <1>1, <1>2, <1>3 DEF TypeOK
<1>6. OneTask'
  BY <1>1, <1>4 DEF OneTask
<1>7. (From' = From) /\ (Complete' <=> Complete) /\ (TakenBack' <=> TakenBack) /\ (Ordered' <=> Ordered)
  BY <1>1, OrderedStays DEF From, Complete, TakenBack
<1>8. CopyInv'
  BY <1>1, <1>7 DEF CopyInv, CopyAt
<1> QED
  BY <1>5, <1>6, <1>8

\* Nothing is said of the source's rows once it has changed.
LEMMA SourceChangesKeepsCopies ==
  ASSUME CopyingInv, SourceChanges
  PROVE  CopyingInv'
<1> USE DEF CopyingInv
<1>1. UNCHANGED <<data, job, cancelFlag, cancelling, swept, sent, message, table, litter, worker, crashes>>
  BY DEF SourceChanges, api, broker
<1>2. run \in RunRow /\ source \subseteq Row /\ changes \in 0..MaxChanges /\ MaxChanges \in Nat
  BY MaterializationConstants DEF TypeOK
<1>3. run' \in RunRow /\ run'.phase = run.phase /\ run'.counted = run.counted /\ ~run'.stable
  BY <1>2 DEF SourceChanges, RunRow
<1>4. source' \subseteq Row /\ changes' \in 0..MaxChanges
  BY <1>2 DEF SourceChanges
<1>5. TypeOK'
  BY <1>1, <1>3, <1>4 DEF TypeOK
<1>6. OneTask'
  BY <1>1, <1>3 DEF OneTask
<1>7. (Complete => Complete') /\ (TakenBack' <=> TakenBack)
  BY <1>1, <1>3 DEF Complete, TakenBack
<1>8. CopyInv'
  BY <1>1, <1>3, <1>7 DEF CopyInv, CopyAt
<1> QED
  BY <1>5, <1>6, <1>8

\* A message is dropped, or it makes an idle worker the one that executes it.
LEMMA TakeKeepsCopies ==
  ASSUME CopyingInv, NEW w \in Worker, Take(w)
  PROVE  CopyingInv'
<1> USE DEF CopyingInv
<1>1. UNCHANGED <<source, changes, data, run, job, cancelFlag, cancelling, swept, sent, table, litter, crashes>>
      /\ message /\ ~message' /\ message' \in BOOLEAN
  BY DEF Take, api
<1>2. \A v \in Worker : worker[v].step = "idle"
  BY <1>1 DEF OneTask
<1>3. (From' = From) /\ (Complete' <=> Complete) /\ (Ordered' <=> Ordered)
  BY <1>1, OrderedStays DEF From, Complete
<1>4. CASE UNCHANGED worker
  <2>1. TypeOK' /\ OneTask'
    BY <1>1, <1>4 DEF TypeOK, OneTask
  <2>2. CopyInv'
    BY <1>1, <1>3, <1>4 DEF CopyInv, CopyAt, TakenBack
  <2> QED
    BY <2>1, <2>2
<1>5. CASE run.phase \notin Resolved /\ Goto(w, "markRunning")
  <2>1. PICK c : c = worker[w].copied
    OBVIOUS
  <2>2. Moves(w, "markRunning", c)
    BY <1>5, <2>1, GotoMoves DEF Step
  <2>3. TypeOK'
    BY <1>1, <2>2 DEF TypeOK, Moves
  <2>4. worker'[w].step = "markRunning" /\ \A v \in Worker \ {w} : worker'[v].step = "idle"
    BY <1>2, <2>2 DEF Moves
  <2>5. OneTask'
    BY <1>1, <1>5, <2>4 DEF OneTask, Resolved
  <2>6. \A v \in Worker : worker'[v].step \in {"idle", "markRunning"}
    BY <2>4
  <2>7. CopyInv'
    BY <1>1, <1>5, <2>6 DEF CopyInv, CopyAt, Resolved
  <2> QED
    BY <2>3, <2>5, <2>7
<1> QED
  BY <1>4, <1>5 DEF Take

LEMMA CrashKeepsCopies ==
  ASSUME CopyingInv, NEW w \in Worker, Crash(w)
  PROVE  CopyingInv'
<1> USE DEF CopyingInv
<1>1. UNCHANGED <<source, changes, data, run, job, cancelFlag, cancelling, swept, broker, message, table, litter>>
      /\ worker[w].step # "idle"
  BY DEF Crash, api, broker, Working
<1>2. crashes' \in 0..MaxCrashes
  <2>1. MaxCrashes \in Nat /\ crashes \in 0..MaxCrashes
    BY MaterializationConstants DEF TypeOK
  <2> QED
    BY <2>1 DEF Crash
<1>3. Moves(w, "idle", 0)
  BY AssignmentMoves DEF Crash, NoTask, Step
<1>4. TypeOK'
  BY <1>1, <1>2, <1>3 DEF TypeOK, Moves, broker
<1>5. ASSUME run'.phase = "READY"
      PROVE  Complete' \/ TakenBack'
  <2>1. Complete \/ TakenBack
    BY <1>1, <1>5 DEF CopyInv
  <2>2. Complete => Complete'
    BY <1>1, OrderedStays DEF Complete, From
  <2>3. crashes' > 0
    BY DEF Crash, TypeOK
  <2> QED
    BY <1>1, <2>1, <2>2, <2>3 DEF TakenBack
<1>6. CopyAt("idle", 0)'
  BY DEF CopyAt
<1> HIDE DEF CopyingInv
<1>7. OneTask' /\ CopyInv'
  BY <1>1, <1>3, <1>5, <1>6, MovesKeepsCopies DEF CopyingInv
<1> QED
  BY <1>4, <1>7 DEF CopyingInv

LEMMA CopyingHolds == Spec => []CopyingInv
<1>1. Init => CopyingInv
  <2> SUFFICES ASSUME Init
               PROVE  CopyingInv
    OBVIOUS
  <2>1. 0 \in 0..MaxChanges /\ 0 \in 0..MaxSent /\ 0 \in 0..MaxCrashes
    BY MaterializationConstants
  <2>2. run \in RunRow /\ run.phase = "QUEUED"
    BY DEF Init, RunRow, Phase
  <2>3. \A w \in Worker : worker[w].step = "idle" /\ worker[w].copied = 0
    BY DEF Init, NoTask
  <2>4. worker \in [Worker -> [step : Step, copied : Nat]]
    BY DEF Init, NoTask, Step
  <2>5. TypeOK
    BY <2>1, <2>2, <2>4 DEF Init, TypeOK, JobStatus
  <2>6. OneTask
    BY <2>2, <2>3 DEF Init, OneTask, Resolved
  <2>7. CopyInv
    BY <2>2, <2>3 DEF CopyInv, CopyAt
  <2> QED
    BY <2>5, <2>6, <2>7 DEF CopyingInv
<1>2. CopyingInv /\ [Next]_vars => CopyingInv'
  <2> SUFFICES ASSUME CopyingInv, [Next]_vars
               PROVE  CopyingInv'
    OBVIOUS
  <2>1. ASSUME NEW w \in Worker, TaskStep(w)
        PROVE  CopyingInv'
    BY <2>1, QuietStepsKeepCopies, CreateTableKeepsCopies, CountKeepsCopies, CopyPageKeepsCopies,
       ApplyCorrectionsKeepsCopies, FinishKeepsCopies, EndingKeepsCopies, DropTableKeepsCopies
    DEF TaskStep
  <2>2. ASSUME NEW w \in Worker, Take(w) \/ Crash(w)
        PROVE  CopyingInv'
    BY <2>2, TakeKeepsCopies, CrashKeepsCopies
  <2>3. CASE Enqueue \/ RequestCancel \/ CancelQueued \/ SweepSelect \/ SweepCommit
    BY <2>3, BystandersKeepCopies
  <2>4. CASE SourceChanges
    BY <2>4, SourceChangesKeepsCopies
  <2>5. CASE UNCHANGED vars
    <3>1. (TypeOK' <=> TypeOK) /\ (OneTask' <=> OneTask)
      BY <2>5 DEF vars, api, broker, TypeOK, OneTask
    <3>2. (From' = From) /\ (Complete' <=> Complete) /\ (TakenBack' <=> TakenBack) /\ (Ordered' <=> Ordered)
      BY <2>5, OrderedStays DEF vars, From, Complete, TakenBack
    <3>3. CopyInv' <=> CopyInv
      BY <2>5, <3>2 DEF vars, CopyInv, CopyAt
    <3> QED
      BY <3>1, <3>3 DEF CopyingInv
  <2> QED
    BY <2>1, <2>2, <2>3, <2>4, <2>5 DEF Next
<1> QED
  BY <1>1, <1>2, PTL DEF Spec

\* Materialization keeps to its types: every phase is one of the lifecycle's,
\* and there is a table, or none, whoever executes the task and whatever fails.
THEOREM TypeCorrect == Spec => []TypeOK
<1>1. CopyingInv => TypeOK
  BY DEF CopyingInv
<1> QED
  BY <1>1, CopyingHolds, PTL

\* A table that is READY has the rows that were counted, and if the source has
\* not changed since and its key orders it, every row of it once: for every
\* number of rows, every size of the pages, and any number of workers that die
\* and are followed.  It is missing only where its audit event failed, until the
\* run says so, or for good if the worker dies over that
\* (_execute_materialization, staging/tasks.py).
THEOREM TableIsTheSource == Spec => []ReadyTableIsTheSource
<1>1. CopyingInv => ReadyTableIsTheSource
  BY NoTableIsNoTable
  DEF CopyingInv, CopyInv, Complete, TakenBack, Ordered, From, ReadyTableIsTheSource
<1> QED
  BY <1>1, CopyingHolds, PTL

-----------------------------------------------------------------------------
(* What is seen of the table.                                              *)

\* Once nobody executes its task, a run that is resolved stays as it is, and so
\* does its table: a message for it is dropped.
LEMMA SettledRunsStay ==
  ASSUME CopyingInv, [Next]_vars, Settled
  PROVE  run'.phase = run.phase /\ run'.counted = run.counted /\ table' = table /\ worker' = worker
<1>1. run \in RunRow /\ run.phase \in Resolved /\ \A w \in Worker : worker[w].step = "idle"
  BY DEF CopyingInv, TypeOK, Settled, Working
<1>2. ASSUME NEW w \in Worker
      PROVE  ~TaskStep(w) /\ ~Crash(w)
  <2>1. worker[w].step = "idle"
    BY <1>1
  <2> QED
    BY <2>1
    DEF TaskStep, Crash, MarkRunning, Prepare, Connect, NameTable, CreateTable, Count, CopyPage,
        SeeCancel, CheckCount, ApplyCorrections, Finalize, Finish, Audit, DropTable, FailJob, FailRun,
        CancelJob, CancelRun, Raises, Working
<1>3. ASSUME NEW w \in Worker, Take(w)
      PROVE  UNCHANGED <<run, table, worker>>
  BY <1>1, <1>3 DEF Take
<1>4. CASE Enqueue \/ RequestCancel \/ CancelQueued \/ SweepSelect \/ SweepCommit \/ UNCHANGED vars
  BY <1>4 DEF Enqueue, RequestCancel, CancelQueued, SweepSelect, SweepCommit, vars
<1>5. CASE SourceChanges
  BY <1>1, <1>5 DEF SourceChanges, RunRow
<1> QED
  BY <1>2, <1>3, <1>4, <1>5 DEF Next

\* Of a run that is READY and whose task is at its end, the table is taken back or
\* stays as it is.
LEMMA ReadyRunsStay ==
  ASSUME CopyingInv, CopyingInv', [Next]_vars, run.phase = "READY", ~Settled
  PROVE  /\ run'.counted = run.counted
         /\ table' = table \/ (table' = NoTable /\ ~Settled')
         /\ \/ run'.phase = "READY"
            \/ run'.phase = "FAILED" /\ table' = table /\ Settled'
<1>1. run \in RunRow
  BY DEF CopyingInv, TypeOK
<1>2. \A w \in Worker : worker[w].step \in {"idle", "audit", "dropFailed", "failJob", "failRun"}
  BY DEF CopyingInv, OneTask
<1>3. ASSUME NEW w \in Worker, TaskStep(w)
      PROVE  \/ Audit(w) \/ (DropTable(w) /\ Working(w, "dropFailed")) \/ FailJob(w) \/ FailRun(w) \/ Raises(w)
  BY <1>2, <1>3
  DEF TaskStep, MarkRunning, Prepare, Connect, NameTable, CreateTable, Count, CopyPage, SeeCancel,
      CheckCount, ApplyCorrections, Finalize, Finish, DropTable, CancelJob, CancelRun, Working
<1>4. ASSUME NEW w \in Worker, Audit(w) \/ FailJob(w) \/ Raises(w) \/ Crash(w) \/ Take(w)
      PROVE  UNCHANGED <<run, table>>
  BY <1>4 DEF Audit, FailJob, Raises, Crash, Take
<1>5. ASSUME NEW w \in Worker, DropTable(w), Working(w, "dropFailed")
      PROVE  UNCHANGED run /\ (table' = table \/ table' = NoTable) /\ ~Settled'
  <2>1. UNCHANGED run /\ (table' = table \/ table' = NoTable) /\ Goto(w, "failJob")
    BY <1>5 DEF DropTable, Working
  <2>2. worker'[w].step = "failJob"
    BY <2>1, GotoMoves DEF CopyingInv, Step, Moves
  <2> QED
    BY <2>1, <2>2 DEF Settled, Working
<1>6. ASSUME NEW w \in Worker, FailRun(w)
      PROVE  run'.phase = "FAILED" /\ run'.counted = run.counted /\ table' = table /\ Settled'
  <2>1. run' = [run EXCEPT !.phase = "FAILED"] /\ table' = table
    BY <1>6 DEF FailRun
  <2>2. run'.phase = "FAILED" /\ run'.counted = run.counted
    BY <1>1, <2>1 DEF RunRow
  <2>3. \A v \in Worker : worker'[v].step = "idle"
    BY <2>2 DEF CopyingInv, OneTask
  <2> QED
    BY <2>1, <2>2, <2>3 DEF Settled, Working, Resolved
<1>7. CASE Enqueue \/ RequestCancel \/ CancelQueued \/ SweepSelect \/ SweepCommit \/ UNCHANGED vars
  BY <1>7 DEF Enqueue, RequestCancel, CancelQueued, SweepSelect, SweepCommit, vars
<1>8. CASE SourceChanges
  BY <1>1, <1>8 DEF SourceChanges, RunRow
<1> QED
  BY <1>3, <1>4, <1>5, <1>6, <1>7, <1>8 DEF Next

\* Only the task's end makes a run READY.
LEMMA ReadyByFinish ==
  ASSUME CopyingInv, [Next]_vars, run.phase # "READY", run'.phase = "READY"
  PROVE  \E w \in Worker : Finish(w)
<1>1. run \in RunRow
  BY DEF CopyingInv, TypeOK
<1>2. ASSUME NEW w \in Worker,
             \/ MarkRunning(w) \/ Connect(w) \/ CreateTable(w) \/ SeeCancel(w) \/ Audit(w) \/ DropTable(w)
             \/ FailJob(w) \/ CancelJob(w) \/ Raises(w) \/ Take(w) \/ Crash(w)
      PROVE  FALSE
  BY <1>2
  DEF MarkRunning, Connect, CreateTable, SeeCancel, Audit, DropTable, FailJob, CancelJob, Raises, Take,
      Crash
<1>3. ASSUME NEW w \in Worker,
             \/ Prepare(w) \/ NameTable(w) \/ Count(w) \/ CheckCount(w) \/ ApplyCorrections(w)
             \/ Finalize(w) \/ FailRun(w) \/ CancelRun(w)
      PROVE  FALSE
  <2>1. \/ run' = run
        \/ \E p \in {"PREPARING_SCHEMA", "APPLYING_CORRECTIONS", "VALIDATING", "FINALIZING", "FAILED",
                     "CANCELLED"} : run' = [run EXCEPT !.phase = p]
        \/ run' = [run EXCEPT !.phase = "CREATING_TABLE", !.named = TRUE]
        \/ run' = [run EXCEPT !.phase = "COPYING_SOURCE", !.counted = Cardinality(source), !.stable = TRUE]
    BY <1>3 DEF Prepare, NameTable, Count, CheckCount, ApplyCorrections, Finalize, FailRun, CancelRun
  <2> QED
    BY <1>1, <2>1 DEF RunRow
<1>4. ASSUME NEW w \in Worker, CopyPage(w)
      PROVE  FALSE
  <2>1. run' = run \/ \E c : run' = [run EXCEPT !.copied = c]
    BY <1>4 DEF CopyPage
  <2> QED
    BY <1>1, <2>1 DEF RunRow
<1>5. CASE Enqueue \/ RequestCancel \/ CancelQueued \/ SweepSelect \/ SweepCommit \/ UNCHANGED vars
  BY <1>5 DEF Enqueue, RequestCancel, CancelQueued, SweepSelect, SweepCommit, vars
<1>6. CASE SourceChanges
  BY <1>1, <1>6 DEF SourceChanges, RunRow
<1> QED
  BY <1>2, <1>3, <1>4, <1>5, <1>6 DEF Next, TaskStep

LEMMA StepsKeepThePromise ==
  ASSUME CopyingInv, CopyingInv', [Next]_vars
  PROVE  [Promised!Next]_<<Outcome, Offered, Settled>>
<1>1. CASE Settled
  <2>1. run'.phase = run.phase /\ run'.counted = run.counted /\ table' = table /\ worker' = worker
    BY <1>1, SettledRunsStay
  <2>2. Outcome' = Outcome /\ Offered' = Offered
    BY <2>1 DEF Outcome, Offered
  <2>3. Settled' <=> Settled
    BY <2>1 DEF Settled, Working
  <2>4. Settled' = Settled
    BY <2>3 DEF Settled
  <2> QED
    BY <2>2, <2>4
<1>2. CASE ~Settled /\ run.phase = "READY"
  <2>1. /\ run'.counted = run.counted
        /\ table' = table \/ (table' = NoTable /\ ~Settled')
        /\ run'.phase = "READY" \/ (run'.phase = "FAILED" /\ table' = table /\ Settled')
    BY <1>2, ReadyRunsStay
  <2>2. Outcome = "ready" /\ ~Settled
    BY <1>2 DEF Outcome
  <2>3. CASE run'.phase = "FAILED" /\ Settled'
    <3>1. Outcome' = "discarded" /\ Offered' = Promised!Nothing /\ Settled' = TRUE
      BY <2>3 DEF Outcome, Offered, Promised!Nothing, Resolved, Settled
    <3> QED
      BY <2>2, <3>1 DEF Promised!Next, Promised!Discard
  <2>4. CASE run'.phase = "READY" /\ table' = table
    <3>1. Outcome' = "ready" /\ Offered' = Offered
      BY <1>2, <2>1, <2>4 DEF Outcome, Offered
    <3>2. Settled' = TRUE \/ Settled' = Settled
      BY <2>2 DEF Settled
    <3> QED
      BY <2>2, <3>1, <3>2 DEF Promised!Next, Promised!Settle
  <2>5. CASE run'.phase = "READY" /\ table' = NoTable /\ ~Settled'
    <3>1. Outcome' = "ready" /\ Offered' = Promised!Nothing
      BY <2>5 DEF Outcome, Offered, Promised!Nothing
    <3>2. Settled' = Settled
      BY <2>2, <2>5 DEF Settled
    <3> QED
      BY <2>2, <3>1, <3>2 DEF Promised!Next, Promised!Withdraw
  <2> QED
    BY <2>1, <2>3, <2>4, <2>5
<1>3. CASE ~Settled /\ run.phase # "READY"
  <2>1. run.phase \notin Resolved
    BY <1>3 DEF Settled, Working, CopyingInv, OneTask, Resolved
  <2>2. Outcome = "building" /\ Offered = Promised!Nothing
    BY <2>1 DEF Outcome, Offered, Promised!Nothing, Resolved
  <2>3. CASE run'.phase = "READY"
    <3>1. PICK w \in Worker : Finish(w)
      BY <1>3, <2>3, ReadyByFinish
    <3>2. worker'[w].step = "audit"
      BY <3>1, GotoMoves DEF Finish, CopyingInv, Step, Moves
    <3>3. ~Settled'
      BY <3>2 DEF Settled, Working
    <3>4. Settled' = Settled
      BY <1>3, <3>3 DEF Settled
    <3>5. worker[w].step = "finish" /\ table' = table
      BY <3>1 DEF Finish, Working
    <3>6. Complete
      BY <3>5 DEF CopyingInv, CopyInv, CopyAt
    <3>7. table' # NoTable /\ Complete'
      BY <2>3, <3>5, <3>6, NoTableIsNoTable DEF Complete, CopyingInv, CopyInv, TakenBack
    <3>8. Outcome' = "ready" /\ Offered' = [rows |-> table', counted |-> run'.counted]
      BY <2>3, <3>7 DEF Outcome, Offered
    <3>9. Promised!Whole(Offered')
      BY <3>7, <3>8 DEF Promised!Whole, Complete
    <3> QED
      BY <1>3, <2>2, <3>4, <3>8, <3>9 DEF Promised!Next, Promised!Offer
  <2>4. CASE run'.phase # "READY" /\ run'.phase \in Resolved
    <3>1. Outcome' = "discarded" /\ Offered' = Promised!Nothing
      BY <2>4 DEF Outcome, Offered, Promised!Nothing
    <3>2. \A w \in Worker : worker'[w].step = "idle"
      BY <2>4 DEF CopyingInv, OneTask, Resolved
    <3>3. Settled' = TRUE
      BY <2>4, <3>2 DEF Settled, Working
    <3> QED
      BY <1>3, <2>2, <3>1, <3>3 DEF Promised!Next, Promised!Discard
  <2>5. CASE run'.phase \notin Resolved
    <3>1. Outcome' = Outcome /\ Offered' = Offered
      BY <2>2, <2>5 DEF Outcome, Offered, Promised!Nothing, Resolved
    <3>2. Settled' = Settled
      BY <1>3, <2>5 DEF Settled
    <3> QED
      BY <3>1, <3>2
  <2> QED
    BY <2>3, <2>4, <2>5
<1> QED
  BY <1>1, <1>2, <1>3

\* Materialization implements StagedTable: a table is seen at once and whole, or
\* never; its task may take it back when the audit event fails, and once the task
\* has ended what was seen stays, whatever cancel requests, sweeps, retries and
\* second deliveries do to its job (run_staging_materialization).
THEOREM PromiseIsKept == Spec => KeepsItsPromise
<1>1. Init => Promised!Init
  <2> SUFFICES ASSUME Init
               PROVE  Promised!Init
    OBVIOUS
  <2>1. run.phase = "QUEUED"
    BY DEF Init
  <2> QED
    BY <2>1 DEF Promised!Init, Promised!Nothing, Outcome, Offered, Settled, Resolved
<1>2. CopyingInv /\ CopyingInv' /\ [Next]_vars => [Promised!Next]_<<Outcome, Offered, Settled>>
  BY StepsKeepThePromise
<1> QED
  BY <1>1, <1>2, CopyingHolds, PTL DEF Spec, KeepsItsPromise, Promised!Spec

-----------------------------------------------------------------------------
(* The corrections.  They are written one by one to the rows that have the  *)
(* key of the record by then; if none of them gives a row another key,      *)
(* those are the rows that have the key of the row it was made for.         *)

\* The records that are written over the rows with this key.
For(key) == {x \in Records \ data.blank : Keyed /\ data.key[x] = key}

\* The rows as they were copied, and with the corrections over them.
Untouched == \A i \in DOMAIN table : table[i].key = data.key[table[i].from] /\ table[i].written = {}
Overlaid  ==
  \A i \in DOMAIN table :
    table[i].key = data.key[table[i].from] /\ table[i].written = For(data.key[table[i].from])

CorrectedAt(s) ==
  /\ s \in {"copy", "check", "apply"} => Untouched
  /\ s \in {"finalize", "finish"} => Overlaid

CorrectionsInv ==
  KeysAreKept =>
    /\ \A w \in Worker : CorrectedAt(worker[w].step)
    /\ run.phase = "READY" => Overlaid \/ table = NoTable

LEMMA KeysStay ==
  ASSUME KeysAreKept, NEW row, NEW order \in Seq(Records)
  PROVE  \A n \in 0..Len(order) : KeysOf(row, order)[n] = row.key
<1> DEFINE N     == Len(order)
           k     == KeysOf(row, order)
           Other == {n \in 0..N : k[n] # row.key}
<1>1. N \in Nat
  OBVIOUS
<1>2. k[0] = row.key /\ \A n \in 1..N : k[n] = NextKey(k[n - 1], order[n])
  BY KeysOfProperties
<1> HIDE DEF k
<1>3. ASSUME NEW n \in 1..N, k[n - 1] = row.key
      PROVE  k[n] = row.key
  <2>1. order[n] \in Records
    BY <1>1
  <2> QED
    BY <1>2, <1>3, <2>1 DEF NextKey, Hits, KeysAreKept
<1>4. Other = {}
  <2> SUFFICES ASSUME Other # {}
               PROVE  FALSE
    OBVIOUS
  <2>1. Other \in SUBSET Nat
    BY <1>1
  <2>2. PICK l \in Other : \A m \in Other : l <= m
    BY <2>1, LeastExists
  <2>3. l \in 1..N /\ l - 1 \in 0..N /\ l - 1 \notin Other
    BY <1>1, <1>2, <2>1, <2>2
  <2>4. k[l - 1] = row.key
    BY <2>3
  <2> QED
    BY <1>3, <2>2, <2>3, <2>4
<1> QED
  BY <1>4 DEF k

\* A row gets the records that are for its key, and no other one.
LEMMA OverlayIsOnItsRow ==
  ASSUME KeysAreKept, data \in Datasets, NEW i, table[i] \in CopiedRow, NEW order \in SetToSeqs(Records),
         table[i].key = data.key[table[i].from], table[i].written = {}
  PROVE  /\ Overlay(i, order).from = table[i].from
         /\ Overlay(i, order).key = data.key[table[i].from]
         /\ Overlay(i, order).written = For(data.key[table[i].from])
<1> DEFINE k == KeysOf(table[i], order)
           d == {order[n] : n \in {m \in DOMAIN order : Hits(order[m], k[m - 1])}}
<1>1. order \in Seq(Records) /\ \A x \in Records : \E n \in DOMAIN order : order[n] = x
  BY OrderType
<1>2. \A n \in 0..Len(order) : k[n] = data.key[table[i].from]
  BY <1>1, KeysStay
<1>3. Overlay(i, order) = [table[i] EXCEPT !.key = k[Len(order)], !.written = @ \cup d]
  BY DEF Overlay
<1> HIDE DEF k
<1>4. \A m \in DOMAIN order : k[m - 1] = data.key[table[i].from] /\ order[m] \in Records
  BY <1>1, <1>2
<1>5. k[Len(order)] = data.key[table[i].from]
  BY <1>1, <1>2
<1>6. d = For(data.key[table[i].from])
  BY <1>1, <1>4 DEF Hits, For
<1> HIDE DEF d
<1> QED
  BY <1>3, <1>5, <1>6 DEF CopiedRow

LEMMA MovesKeepsCorrections ==
  ASSUME CopyingInv, NEW w \in Worker, worker[w].step # "idle", NEW s, NEW c, Moves(w, s, c),
         CorrectedAt(s)', run'.phase = "READY" => Overlaid' \/ table' = NoTable
  PROVE  CorrectionsInv'
<1>1. \A v \in Worker \ {w} : worker'[v].step = "idle"
  BY DEF Moves, CopyingInv, OneTask
<1>2. worker'[w].step = s
  BY DEF Moves
<1>3. CorrectedAt("idle")'
  BY DEF CorrectedAt
<1>4. CorrectedAt(worker[w].step)'
  BY <1>2
<1>5. ASSUME NEW v \in Worker \ {w}
      PROVE  CorrectedAt(worker[v].step)'
  BY <1>1, <1>3, <1>5
<1>6. \A v \in Worker : CorrectedAt(worker[v].step)'
  BY <1>4, <1>5
<1> QED
  BY <1>6 DEF CorrectionsInv

LEMMA TaskKeepsData ==
  ASSUME NEW w \in Worker, TaskStep(w) \/ Crash(w)
  PROVE  data' = data
  BY DEF TaskStep, Crash, MarkRunning, Prepare, Connect, NameTable, CreateTable, Count, CopyPage,
         SeeCancel, CheckCount, ApplyCorrections, Finalize, Finish, Audit, DropTable, FailJob, FailRun,
         CancelJob, CancelRun, Raises

LEMMA DataStays ==
  ASSUME [Next]_vars
  PROVE  data' = data
  BY TaskKeepsData
  DEF Next, Take, Enqueue, RequestCancel, CancelQueued, SweepSelect, SweepCommit, SourceChanges, vars

LEMMA TaskKeepsCorrections ==
  ASSUME KeysAreKept, CopyingInv, CopyingInv', CorrectionsInv, NEW w \in Worker,
         TaskStep(w) \/ Crash(w)
  PROVE  CorrectionsInv'
<1> DEFINE c == worker[w].copied
           Late == {"finalize", "finish"}
           Early == {"copy", "check", "apply"}
<1>0. TypeOK /\ TypeOK'
  BY DEF CopyingInv
<1>1. worker[w].step # "idle"
  BY DEF TaskStep, Crash, MarkRunning, Prepare, Connect, NameTable, CreateTable, Count, CopyPage,
         SeeCancel, CheckCount, ApplyCorrections, Finalize, Finish, Audit, DropTable, FailJob, FailRun,
         CancelJob, CancelRun, Raises, Working
<1>2. /\ run.phase \notin {"FAILED", "CANCELLED"}
      /\ run.phase = "READY" => worker[w].step \in {"audit", "dropFailed", "failJob", "failRun"}
  BY <1>1 DEF CopyingInv, OneTask
<1>3. /\ CorrectedAt(worker[w].step)
      /\ run.phase = "READY" => Overlaid \/ table = NoTable
  BY DEF CorrectionsInv
<1>a. data' = data
  BY TaskKeepsData
<1>b. \A key : For(key)' = {x \in Records \ data.blank : Keyed /\ data.key[x] = key}
  BY <1>a DEF For, Records, Keyed
<1>4. UNCHANGED table => (Untouched' <=> Untouched) /\ (Overlaid' <=> Overlaid)
  BY <1>a DEF Untouched, Overlaid, For, Records, Keyed
<1>5. ASSUME NEW s, Moves(w, s, worker[w].copied) \/ Moves(w, s, 0), s \notin Early \cup Late,
             run'.phase = "READY" => run.phase = "READY" /\ table' \in {table, NoTable}
      PROVE  CorrectionsInv'
  <2>1. CorrectedAt(s)'
    BY <1>5 DEF CorrectedAt
  <2>2. PICK d : d = c
    OBVIOUS
  <2>3. Moves(w, s, d) \/ Moves(w, s, 0)
    BY <1>5, <2>2
  <2>4. run'.phase = "READY" => Overlaid' \/ table' = NoTable
    BY <1>3, <1>4, <1>5
  <2> QED
    BY <1>1, <2>1, <2>3, <2>4, MovesKeepsCorrections
<1>6. CASE MarkRunning(w) \/ Connect(w) \/ CreateTable(w) \/ SeeCancel(w) \/ DropTable(w)
           \/ FailJob(w) \/ CancelJob(w) \/ Raises(w)
  <2>1. \E s \in {"prepare", "name", "failJob", "count", "dropCancelled", "cancelJob", "failRun",
                  "cancelRun", "dropFailed"} : Goto(w, s)
    BY <1>6 DEF MarkRunning, Connect, CreateTable, SeeCancel, DropTable, FailJob, CancelJob, Raises
  <2>2. UNCHANGED run /\ (run.phase = "READY" => table' \in {table, NoTable})
    BY <1>2, <1>6
    DEF MarkRunning, Connect, CreateTable, SeeCancel, DropTable, FailJob, CancelJob, Raises, Working
  <2>3. PICK s \in {"prepare", "name", "failJob", "count", "dropCancelled", "cancelJob", "failRun",
                    "cancelRun", "dropFailed"} : Goto(w, s) /\ s \in Step
    BY <2>1 DEF Step
  <2>4. Moves(w, s, c) /\ s \notin Early \cup Late
    BY <1>0, <2>3, GotoMoves
  <2> QED
    BY <1>5, <2>2, <2>4
<1>7. CASE Prepare(w) \/ NameTable(w)
  <2>1. \E s \in {"connect", "create"} : Goto(w, s) /\ s \in Step
    BY <1>7 DEF Prepare, NameTable, Step
  <2>2. run'.phase # "READY"
    <3>1. run \in RunRow
      BY <1>0 DEF TypeOK
    <3>2. CASE Prepare(w)
      BY <3>1, <3>2 DEF Prepare, RunRow
    <3>3. CASE NameTable(w)
      BY <3>1, <3>3 DEF NameTable, RunRow
    <3> QED
      BY <1>7, <3>2, <3>3
  <2>3. PICK s \in {"connect", "create"} : Goto(w, s) /\ s \in Step
    BY <2>1
  <2>4. Moves(w, s, c) /\ s \notin Early \cup Late
    BY <1>0, <2>3, GotoMoves
  <2> QED
    BY <1>5, <2>2, <2>4
<1>8. CASE Audit(w) \/ FailRun(w) \/ CancelRun(w) \/ Crash(w)
  <2>1. Moves(w, "idle", 0)
    BY <1>0, <1>8, AssignmentMoves DEF Audit, FailRun, CancelRun, Crash, NoTask, Step
  <2>2. run'.phase = "READY" => run.phase = "READY" /\ table' \in {table, NoTable}
    BY <1>0, <1>8 DEF Audit, FailRun, CancelRun, Crash, TypeOK, RunRow
  <2> QED
    BY <1>5, <2>1, <2>2
<1>9. CASE Count(w)
  <2>1. worker[w].step = "count" /\ Moves(w, "copy", 0) /\ table' = table
    BY <1>0, <1>9, AssignmentMoves DEF Count, Working, Step
  <2>2. table = << >>
    BY <2>1 DEF CopyingInv, CopyInv, CopyAt
  <2>3. table' = << >>
    BY <2>1, <2>2
  <2>4. CorrectedAt("copy")'
    BY <2>3 DEF CorrectedAt, Untouched
  <2>5. run'.phase # "READY"
    BY <1>0, <1>9 DEF Count, TypeOK, RunRow
  <2> QED
    BY <1>1, <2>1, <2>4, <2>5, MovesKeepsCorrections
<1>10. CASE CopyPage(w)
  <2>a. PICK tie \in Ties :
          LET p == Page(c, tie) IN
          /\ table' = IF p = << >> THEN table ELSE table \o Copies(p)
          /\ worker' = [worker EXCEPT ![w] = [step |-> IF Len(p) < BatchSize THEN "check" ELSE "copy",
                                              copied |-> c + Len(p)]]
    BY <1>10 DEF CopyPage, Copies
  <2> DEFINE page == Page(c, tie)
             L == c + Len(page)
  <2>1. worker[w].step = "copy"
    BY <1>10 DEF CopyPage, Working
  <2>2. PICK s \in {"copy", "check"}, d \in Nat :
          worker' = [worker EXCEPT ![w] = [step |-> s, copied |-> d]]
    <3>1. c \in Nat /\ source \subseteq Row
      BY <1>0 DEF TypeOK
    <3>2. L \in Nat
      <4>1. page \in Seq(Row)
        BY <3>1, PageIsWindow
      <4> HIDE DEF page, c
      <4>2. Len(page) \in Nat
        BY <4>1
      <4> QED
        BY <3>1, <4>2
    <3>3. worker' = [worker EXCEPT ![w] = [step |-> IF Len(page) < BatchSize THEN "check" ELSE "copy",
                                            copied |-> L]]
      BY <2>a
    <3> QED
      BY <3>2, <3>3
  <2>3. Moves(w, s, d)
    BY <1>0, <2>2, AssignmentMoves DEF Step
  <2>4. Untouched /\ table \in Seq(CopiedRow)
    BY <1>3, <2>1 DEF CorrectedAt, CopyingInv, CopyInv, CopyAt
  <2>5. page \in Seq(Row)
    BY <1>0, PageIsWindow DEF TypeOK
  <2>6. table' = IF page = << >> THEN table ELSE table \o Copies(page)
    BY <2>a
  <2> HIDE DEF page
  <2>7. Untouched'
    <3>1. CASE page = << >>
      BY <1>4, <2>4, <2>6, <3>1
    <3>2. CASE page # << >>
      <4>1. PICK copies : copies = Copies(page)
        OBVIOUS
      <4>2. DOMAIN page = 1..Len(page) /\ \A i \in DOMAIN page : page[i] \in Row
        BY <2>5
      <4>3. \A i \in 1..Len(page) : copies[i].key = data.key[copies[i].from] /\ copies[i].written = {}
        BY <4>1, <4>2 DEF Copies
      <4>4. \A i \in 1..Len(page) :
              [from |-> page[i], key |-> data.key[page[i]], written |-> {}] \in CopiedRow
        BY <1>0, <4>2, RecordsType DEF CopiedRow, TypeOK
      <4>5. copies \in Seq(CopiedRow) /\ Len(copies) = Len(page)
        BY <2>5, <4>1, <4>2, <4>4 DEF Copies
      <4>6. /\ DOMAIN table' = 1..(Len(table) + Len(page))
            /\ \A i \in 1..(Len(table) + Len(page)) :
                 table'[i] = IF i <= Len(table) THEN table[i] ELSE copies[i - Len(table)]
        <5>1. table' = table \o copies
          BY <2>6, <3>2, <4>1
        <5>2. table \o copies \in Seq(CopiedRow) /\ Len(table \o copies) = Len(table) + Len(page)
          <6>1. table \in Seq(CopiedRow) /\ copies \in Seq(CopiedRow) /\ Len(copies) = Len(page)
            BY <2>4, <4>5
          <6>2. table \o copies \in Seq(CopiedRow) /\ Len(table \o copies) = Len(table) + Len(copies)
            BY <6>1, ConcatProperties
          <6> QED
            BY <6>1, <6>2
        <5>3. DOMAIN table' = 1..(Len(table) + Len(page))
          BY <5>1, <5>2
        <5>4. \A i \in 1..(Len(table) + Len(copies)) :
                (table \o copies)[i] = IF i <= Len(table) THEN table[i] ELSE copies[i - Len(table)]
          <6>1. table \in Seq(CopiedRow) /\ copies \in Seq(CopiedRow)
            BY <2>4, <4>5
          <6> QED
            BY <6>1
        <5> QED
          BY <4>5, <5>1, <5>3, <5>4
      <4>7. ASSUME NEW i \in 1..(Len(table) + Len(page))
            PROVE  table'[i].key = data.key[table'[i].from] /\ table'[i].written = {}
        <5>1. CASE i <= Len(table)
          BY <2>4, <4>6, <5>1 DEF Untouched
        <5>2. CASE ~(i <= Len(table))
          <6>1. i - Len(table) \in 1..Len(page)
            BY <2>4, <2>5, <5>2
          <6> QED
            BY <4>3, <4>6, <5>2, <6>1
        <5> QED
          BY <5>1, <5>2
      <4> QED
        BY <1>a, <4>6, <4>7 DEF Untouched
    <3> QED
      BY <3>1, <3>2
  <2>8. CorrectedAt(s)'
    BY <2>7 DEF CorrectedAt
  <2>9. run'.phase # "READY"
    <3>1. run.phase # "READY" /\ run \in RunRow
      BY <1>0, <1>2, <2>1 DEF TypeOK
    <3>2. run'.phase = run.phase
      BY <1>10, <3>1 DEF CopyPage, RunRow
    <3> QED
      BY <3>1, <3>2
  <2> QED
    BY <1>1, <2>3, <2>8, <2>9, MovesKeepsCorrections
<1>11. CASE CheckCount(w)
  <2>1. worker[w].step = "check" /\ table' = table
    BY <1>11 DEF CheckCount, Working
  <2>2. PICK s \in {"apply", "dropFailed"} : Goto(w, s) /\ s \in Step
    BY <1>11 DEF CheckCount, Step
  <2>3. PICK d : d = c
    OBVIOUS
  <2>4. Moves(w, s, d)
    BY <1>0, <2>2, <2>3, GotoMoves
  <2>5. CorrectedAt(s)'
    BY <1>3, <1>4, <2>1 DEF CorrectedAt
  <2>6. run'.phase # "READY"
    <3>1. run.phase # "READY" /\ run \in RunRow
      BY <1>0, <1>2, <2>1 DEF TypeOK
    <3> QED
      BY <1>11, <3>1 DEF CheckCount, RunRow
  <2> QED
    BY <1>1, <2>4, <2>5, <2>6, MovesKeepsCorrections
<1>12. CASE ApplyCorrections(w)
  <2>1. worker[w].step = "apply"
    BY <1>12 DEF ApplyCorrections, Working
  <2>2. PICK d : d = c
    OBVIOUS
  <2>3. Moves(w, "finalize", d)
    BY <1>0, <1>12, <2>2, GotoMoves DEF ApplyCorrections, Step
  <2>4. PICK order \in SetToSeqs(Records) : table' = [i \in DOMAIN table |-> Overlay(i, order)]
    BY <1>12 DEF ApplyCorrections
  <2>5. Untouched /\ table \in Seq(CopiedRow)
    BY <1>3, <2>1 DEF CorrectedAt, CopyingInv, CopyInv, CopyAt
  <2>6. \A i \in DOMAIN table : table[i] \in CopiedRow
    BY <2>5
  <2>7. ASSUME NEW i \in DOMAIN table
        PROVE  table'[i].key = data.key[table'[i].from] /\ table'[i].written = For(data.key[table'[i].from])
    <3>1. table[i] \in CopiedRow /\ table[i].key = data.key[table[i].from] /\ table[i].written = {}
      BY <2>5, <2>6 DEF Untouched
    <3>2. table'[i] = Overlay(i, order)
      BY <2>4
    <3> QED
      BY <1>0, <3>1, <3>2, OverlayIsOnItsRow DEF TypeOK
  <2>8. DOMAIN table' = DOMAIN table
    BY <2>4
  <2>9. Overlaid'
    BY <1>a, <2>7, <2>8 DEF Overlaid, For, Records, Keyed
  <2>10. CorrectedAt("finalize")'
    BY <2>9 DEF CorrectedAt
  <2> QED
    BY <1>1, <2>3, <2>9, <2>10, MovesKeepsCorrections
<1>13. CASE Finalize(w) \/ Finish(w)
  <2>1. worker[w].step \in Late /\ table' = table
    BY <1>13 DEF Finalize, Finish, Working
  <2>2. \E s \in {"finish", "audit"}, d \in Nat : Moves(w, s, d)
    <3>1. c \in Nat
      BY <1>0 DEF TypeOK
    <3>2. CASE Finalize(w)
      BY <1>0, <3>1, <3>2, GotoMoves DEF Finalize, Step
    <3>3. CASE Finish(w)
      BY <1>0, <3>1, <3>3, GotoMoves DEF Finish, Step
    <3> QED
      BY <1>13, <3>2, <3>3
  <2>3. PICK s \in {"finish", "audit"} : \E d \in Nat : Moves(w, s, d)
    BY <2>2
  <2>4. Overlaid'
    BY <1>3, <1>4, <2>1 DEF CorrectedAt
  <2>5. CorrectedAt(s)'
    BY <2>4 DEF CorrectedAt
  <2> QED
    BY <1>1, <2>3, <2>4, <2>5, MovesKeepsCorrections
<1> QED
  BY <1>6, <1>7, <1>8, <1>9, <1>10, <1>11, <1>12, <1>13 DEF TaskStep

\* A correction is on every row that has the key of its row, hence on its own one
\* alone if keys identify rows, and on none if there is no key, in whatever order
\* the query returns the records, as long as no correction gives a row another
\* key; the preview of the changed rows shows those, as long as keys are without a
\* NULL and every record sets a column (the overlay, _execute_materialization).
THEOREM CorrectionsAreOnTheirRows == Spec => []CorrectionsOnTheirRows
<1>1. Init => CorrectionsInv
  <2> SUFFICES ASSUME Init
               PROVE  CorrectionsInv
    OBVIOUS
  <2>1. run.phase = "QUEUED" /\ \A w \in Worker : worker[w].step = "idle"
    BY DEF Init, NoTask
  <2> QED
    BY <2>1 DEF CorrectionsInv, CorrectedAt
<1>2. CopyingInv /\ CopyingInv' /\ CorrectionsInv /\ [Next]_vars => CorrectionsInv'
  <2> SUFFICES ASSUME CopyingInv, CopyingInv', CorrectionsInv, [Next]_vars, KeysAreKept'
               PROVE  CorrectionsInv'
    BY DEF CorrectionsInv
  <2>0. data' = data
    BY DataStays
  <2>a. KeysAreKept
    BY <2>0, OrderedStays
  <2>1. ASSUME NEW w \in Worker, TaskStep(w) \/ Crash(w)
        PROVE  CorrectionsInv'
    BY <2>1, <2>a, TaskKeepsCorrections
  <2>2. UNCHANGED table => (Untouched' <=> Untouched) /\ (Overlaid' <=> Overlaid)
    BY <2>0 DEF Untouched, Overlaid, For, Records, Keyed
  <2>3. ASSUME UNCHANGED table, run'.phase = run.phase,
               \A v \in Worker : worker'[v].step \in {worker[v].step, "markRunning"}
        PROVE  CorrectionsInv'
    BY <2>2, <2>3, <2>a DEF CorrectionsInv, CorrectedAt
  <2>4. ASSUME NEW w \in Worker, Take(w)
        PROVE  CorrectionsInv'
    <3>1. worker \in [Worker -> [step : Step, copied : Nat]]
      BY DEF CopyingInv, TypeOK
    <3>2. \A v \in Worker : worker'[v].step \in {worker[v].step, "markRunning"}
      BY <2>4, <3>1 DEF Take, Goto
    <3> QED
      BY <2>3, <2>4, <3>2 DEF Take
  <2>5. CASE Enqueue \/ RequestCancel \/ CancelQueued \/ SweepSelect \/ SweepCommit \/ UNCHANGED vars
    <3>1. UNCHANGED <<run, table, worker>>
      BY <2>5 DEF Enqueue, RequestCancel, CancelQueued, SweepSelect, SweepCommit, vars
    <3> QED
      BY <2>3, <3>1
  <2>6. CASE SourceChanges
    <3>1. UNCHANGED <<table, worker>> /\ run'.phase = run.phase
      BY <2>6 DEF SourceChanges, CopyingInv, TypeOK, RunRow
    <3> QED
      BY <2>3, <3>1
  <2> QED
    BY <2>1, <2>4, <2>5, <2>6 DEF Next
<1>3. CopyingInv /\ CorrectionsInv => CorrectionsOnTheirRows
  <2> SUFFICES ASSUME CopyingInv, CorrectionsInv, run.phase = "READY", table # NoTable, KeysAreKept
               PROVE  CorrectionsOnTheirRows
    BY DEF CorrectionsOnTheirRows
  <2>1. /\ Overlaid /\ data \in Datasets
        /\ \A i \in DOMAIN table : table[i].from \in Row
    <3>1. Overlaid /\ data \in Datasets
      BY DEF CorrectionsInv, CopyingInv, TypeOK
    <3>2. table \in Seq(CopiedRow)
      BY DEF CopyingInv, CopyInv, Complete, TakenBack
    <3>3. \A i \in DOMAIN table : table[i] \in CopiedRow
      BY <3>2
    <3> QED
      BY <3>1, <3>3 DEF CopiedRow
  <2>2. \A i \in DOMAIN table :
          table[i].written = {x \in Records \ data.blank : Keyed /\ data.key[x] = data.key[table[i].from]}
    BY <2>1 DEF Overlaid, For
  <2>3. ASSUME Keyed, KeysIdentify, NEW i \in DOMAIN table
        PROVE  table[i].written = {table[i].from} \cap (Records \ data.blank)
    BY <2>1, <2>2, <2>3, RecordsType DEF KeysIdentify
  <2>4. ASSUME KeysAreWhole, data.blank = {}
        PROVE  /\ Preview("CHANGED") = {i \in DOMAIN table : table[i].written # {}}
               /\ Preview("UNCHANGED") = {i \in DOMAIN table : table[i].written = {}}
    <3> DEFINE refs == IF Keyed THEN {data.key[x] : x \in Records} ELSE {}
    <3>1. ASSUME NEW i \in DOMAIN table, NEW x \in Records
          PROVE  /\ Equal(table[i].key, data.key[x]) <=> data.key[x] = data.key[table[i].from]
                 /\ Differ(table[i].key, data.key[x]) <=> data.key[x] # data.key[table[i].from]
      <4>1. PICK q, r : q = data.key[x] /\ r = data.key[table[i].from]
        OBVIOUS
      <4>2. x \in Row /\ table[i].key = r
        BY <2>1, <4>1, RecordsType DEF Overlaid
      <4>3. q \in [1..data.parts -> Nat] /\ r \in [1..data.parts -> Nat]
        BY <2>1, <4>1, <4>2, DatasetsAreKeyed
      <4>4. \A n \in 1..data.parts : q[n] # Null /\ r[n] # Null
        BY <2>1, <2>4, <4>1, <4>2 DEF KeysAreWhole
      <4>5. q = r <=> \A n \in 1..data.parts : q[n] = r[n]
        <5>1. PICK D : D = 1..data.parts
          OBVIOUS
        <5>2. q = [n \in D |-> q[n]] /\ r = [n \in D |-> r[n]]
          BY <4>3, <5>1
        <5>3. (\A n \in D : q[n] = r[n]) => [n \in D |-> q[n]] = [n \in D |-> r[n]]
          OBVIOUS
        <5> QED
          BY <5>1, <5>2, <5>3
      <4> QED
        BY <4>1, <4>2, <4>4, <4>5 DEF Equal, Differ
    <3>2. Preview("CHANGED") = {i \in DOMAIN table : \E ref \in refs : Equal(table[i].key, ref)}
      BY DEF Preview
    <3>3. Preview("UNCHANGED") = {i \in DOMAIN table : \A ref \in refs : Differ(table[i].key, ref)}
      BY DEF Preview
    <3>4. ASSUME NEW i \in DOMAIN table
          PROVE  /\ (\E ref \in refs : Equal(table[i].key, ref)) <=> table[i].written # {}
                 /\ (\A ref \in refs : Differ(table[i].key, ref)) <=> table[i].written = {}
      <4>1. table[i].written = {x \in Records : Keyed /\ data.key[x] = data.key[table[i].from]}
        BY <2>2, <2>4
      <4>2. CASE Keyed
        BY <3>1, <4>1, <4>2
      <4>3. CASE ~Keyed
        BY <4>1, <4>3
      <4> QED
        BY <4>2, <4>3
    <3> HIDE DEF refs
    <3> QED
      BY <3>2, <3>3, <3>4
  <2> QED
    BY <2>2, <2>3, <2>4 DEF CorrectionsOnTheirRows
<1> QED
  BY <1>1, <1>2, <1>3, CopyingHolds, PTL DEF Spec

==============================================================================
