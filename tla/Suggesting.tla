----------------------------- MODULE Suggesting -----------------------------
(***************************************************************************)
(* generate_corrections of src/app/modules/ai/suggestion_service.py:       *)
(* batches over the issues of a review run, each reading a source that     *)
(* others may change between its two queries, asking a language model that *)
(* may answer anything or fail, and committing one issue after another.    *)
(* Nothing keeps a second request from starting while a first one runs.    *)
(*                                                                         *)
(* `table' is the source table as it was validated:                        *)
(*   columns  [column |-> [type, pk, distinct]], distinct the percentage  *)
(*            that the latest profile counted, or Null without a profile    *)
(*   rule     the violated rule's type                                     *)
(*   rows     [key |-> [column |-> cell]]  issues   the keys under review  *)
(*   truth    the value that was there before the fault, Undecidable when   *)
(*            the other cells, or what a stale profile says of them, do not *)
(*            tell it, or Null when none is said                            *)
(*   engine   "ADVANCED", "EVIDENCE" or "OFF": the two settings            *)
(*   prompt   whether an ai_correction prompt version is active            *)
(*   batches  bound: the batches that may be asked for                     *)
(*   deaths   bound: how many of them die with their process               *)
(***************************************************************************)
EXTENDS Inference

CONSTANTS Tables,       \* the tables a run may start from
          Batches,      \* requests that may run at the same time
          Undecidable,
          NoIssue,
          NoRow,
          NoRows,
          NoLog,
          SampleSize,   \* AI_CORRECTION_COMPARABLE_SAMPLE_SIZE
          Confidences,  \* the numbers an answer may claim
          MaxEdits      \* bound: changes of the source by its owner

\* A log that has no suggestion names none; a confidence is a number.
ASSUME NoLogIsNoEntry == NoLog \notin Nat

ASSUME ConfidencesAreNumbers == Confidences \subseteq Int

ASSUME RowsFillTheirColumns ==
    \A t \in Tables :
      /\ Target \in DOMAIN t.columns
      /\ \A k \in DOMAIN t.rows : DOMAIN t.rows[k] = DOMAIN t.columns

ASSUME NumbersAreWritten ==
    \A t \in Tables :
      /\ IsFiniteSet(DOMAIN t.rows)
      /\ \A k \in DOMAIN t.rows, c \in DOMAIN t.columns :
           IsNumber(t.columns, t.rows[k], c) => Number(t.rows[k], c) \in Int

VARIABLES table,
          source,       \* the rows the source has now
          batch,        \* what each batch is at
          usage,        \* ai_usage_logs: [issue, suggestion], in order
          suggestions,  \* correction_suggestions, and the batch each is of
          edits, crashes

vars == <<table, source, batch, usage, suggestions, edits, crashes>>

Idle == [step |-> "idle", todo |-> {}, issue |-> NoIssue, row |-> NoRow,
         rows |-> NoRows, evidence |-> NoEvidence, outcome |-> CannotInfer,
         log |-> NoLog, since |-> 0]

Init == /\ table \in Tables
        /\ source = table.rows
        /\ batch = [b \in Batches |-> Idle]
        /\ usage = <<>>
        /\ suggestions = <<>>
        /\ edits = 0
        /\ crashes = 0

Suggested == {suggestions[i].issue : i \in DOMAIN suggestions}

----------------------------------------------------------------------------
(* The batch.                                                              *)

\* The request: the pending issues that have no suggestion yet, read once.
\* Another batch may be working on the same ones.
Generate(b) ==
    /\ batch[b].step = "idle" /\ b \in table.batches
    /\ batch' = [batch EXCEPT ![b] =
                   [Idle EXCEPT !.step = "next", !.todo = table.issues \ Suggested,
                                !.since = Len(suggestions)]]
    /\ UNCHANGED <<table, source, usage, suggestions, edits, crashes>>

\* A batch between two issues.
Remaining(b) == [Idle EXCEPT !.step = "next", !.todo = batch[b].todo,
                             !.since = batch[b].since]

NextIssue(b) ==
    /\ batch[b].step = "next"
    /\ \E k \in batch[b].todo :
         batch' = [batch EXCEPT ![b] =
                     [Remaining(b) EXCEPT
                        !.todo = batch[b].todo \ {k}, !.issue = k,
                        !.step = IF table.engine = "OFF" THEN "ask" ELSE "fetch"]]
    /\ UNCHANGED <<table, source, usage, suggestions, edits, crashes>>

Finish(b) ==
    /\ batch[b].step = "next"
    /\ batch[b].todo = {}
    /\ batch' = [batch EXCEPT ![b] = Idle]
    /\ UNCHANGED <<table, source, usage, suggestions, edits, crashes>>

\* The failing row by its key; a row that is gone leaves no evidence.
FetchRow(b) ==
    /\ batch[b].step = "fetch"
    /\ LET k == batch[b].issue
       IN batch' = IF k \in DOMAIN source
                   THEN [batch EXCEPT ![b].step = "sample", ![b].row = source[k]]
                   ELSE [batch EXCEPT ![b].step = "ask"]
    /\ UNCHANGED <<table, source, usage, suggestions, edits, crashes>>

\* No key, a stale key configuration, a provider that cannot, no connection,
\* several rows under one key: the reasons why nothing can be gathered.
NothingGathered(b) ==
    /\ batch[b].step \in {"fetch", "sample"}
    /\ batch' = [batch EXCEPT ![b].step = "ask"]
    /\ UNCHANGED <<table, source, usage, suggestions, edits, crashes>>

\* The setting for the relationships alone asks for them under every rule.
RelationshipOnly(rows, row) ==
    [best |-> RelationshipEvidence(table.columns, Target, rows, row)]

Gathered(rows, row, k) ==
    IF table.engine = "ADVANCED"
    THEN AdvancedEvidence(table.columns, table.rule, rows, row,
                          table.issues \ {k})
    ELSE RelationshipOnly(rows, row)

\* The second query, and the evidence computed from both.
SampleRows(b) ==
    /\ batch[b].step = "sample"
    /\ \E S \in SUBSET DOMAIN source :
         /\ Cardinality(S) = Min({SampleSize, Cardinality(DOMAIN source)})
         /\ LET rows == [k \in S |-> source[k]]
                evidence == Gathered(rows, batch[b].row, batch[b].issue)
            IN batch' = [batch EXCEPT ![b].step = "ask", ![b].rows = rows,
                                      ![b].evidence = evidence]
    /\ UNCHANGED <<table, source, usage, suggestions, edits, crashes>>

Answers(evidence) ==
    [category : {"AI_HIGH_CONFIDENCE", "NEEDS_REVIEW", "CANNOT_INFER", "OTHER"},
     value : {Null, Wrong} \union
               (IF evidence = NoEvidence THEN {}
                ELSE {c.value : c \in evidence.best}),
     confidence : Confidences \union {Null}]

Kept(answer, evidence) ==
    LET parsed == Parse(answer)
    IN IF table.engine = "ADVANCED"
       THEN ApplyAdvancedSafety(parsed, evidence)
       ELSE ApplyEvidenceSafety(parsed, evidence)

\* A provider call is logged and committed, whatever becomes of it.
Logged(b) ==
    usage' = Append(usage, [issue |-> batch[b].issue, suggestion |-> 0])

\* The model answers; its call is logged; the answer is parsed and checked.
Answer(b) ==
    /\ batch[b].step = "ask" /\ table.prompt
    /\ Logged(b)
    /\ \E answer \in Answers(batch[b].evidence) :
         batch' = [batch EXCEPT ![b].step = "write", ![b].log = Len(usage) + 1,
                                ![b].outcome = Kept(answer, batch[b].evidence)]
    /\ UNCHANGED <<table, source, suggestions, edits, crashes>>

\* The provider is unavailable after its call, or a step after the call
\* fails: the call stays logged, and the issue cannot be inferred.
FailAfterCall(b) ==
    /\ batch[b].step = "ask" /\ table.prompt
    /\ Logged(b)
    /\ batch' = [batch EXCEPT ![b].step = "write", ![b].log = Len(usage) + 1,
                              ![b].outcome = CannotInfer,
                              ![b].evidence = NoEvidence]
    /\ UNCHANGED <<table, source, suggestions, edits, crashes>>

\* AI is disabled, no provider or no prompt version is configured, or the
\* context cannot be built: no call, no log.  Without an active prompt
\* version the issue is left for another batch.
FailBeforeCall(b) ==
    /\ batch[b].step \in {"fetch", "ask"}
    /\ batch' = IF table.prompt
                THEN [batch EXCEPT ![b].step = "write", ![b].outcome = CannotInfer,
                                   ![b].evidence = NoEvidence]
                ELSE [batch EXCEPT ![b] = Remaining(b)]
    /\ UNCHANGED <<table, source, usage, suggestions, edits, crashes>>

\* (by and since, the number of suggestions there were when its batch was
\* asked for, are history.)
Suggestion(b) == [issue |-> batch[b].issue, kept |-> batch[b].outcome,
                  evidence |-> batch[b].evidence,
                  by |-> b, since |-> batch[b].since]

\* (Broken variant: the call's log is never linked to what came of it.)
WriteUnlinked(b) ==
    /\ batch[b].step = "write"
    /\ suggestions' = Append(suggestions, Suggestion(b))
    /\ batch' = [batch EXCEPT ![b] = Remaining(b)]
    /\ UNCHANGED <<table, source, usage, edits, crashes>>

\* ai_suggestions, correction_suggestions and the log's link in one commit.
Write(b) ==
    /\ batch[b].step = "write"
    /\ suggestions' = Append(suggestions, Suggestion(b))
    /\ usage' = [i \in DOMAIN usage |->
                   IF i = batch[b].log
                   THEN [usage[i] EXCEPT !.suggestion = Len(suggestions) + 1]
                   ELSE usage[i]]
    /\ batch' = [batch EXCEPT ![b] = Remaining(b)]
    /\ UNCHANGED <<table, source, edits, crashes>>

----------------------------------------------------------------------------
(* The environment.                                                        *)

\* The batch's process ends; what it committed stays.
Crash(b) ==
    /\ batch[b].step # "idle"
    /\ crashes < table.deaths
    /\ batch' = [batch EXCEPT ![b] = Idle]
    /\ crashes' = crashes + 1
    /\ UNCHANGED <<table, source, usage, suggestions, edits>>

\* The source's owner empties a target cell, copies another row's, or
\* deletes the row.
SourceChanges ==
    /\ edits < MaxEdits
    /\ \E b \in Batches : batch[b].step = "sample"
    /\ \E k \in DOMAIN source :
         \/ source' = [j \in DOMAIN source \ {k} |-> source[j]]
         \/ \E v \in {source[j][Target] : j \in DOMAIN source} \union {Null} :
              source' = [source EXCEPT ![k][Target] = v]
    /\ edits' = edits + 1
    /\ UNCHANGED <<table, batch, usage, suggestions, crashes>>

BatchStep(b) ==
    \/ Generate(b) \/ NextIssue(b) \/ Finish(b)
    \/ FetchRow(b) \/ NothingGathered(b) \/ SampleRows(b)
    \/ Answer(b) \/ FailAfterCall(b) \/ FailBeforeCall(b) \/ Write(b)
    \/ Crash(b)

Next == (\E b \in Batches : BatchStep(b)) \/ SourceChanges

Spec == Init /\ [][Next]_vars

----------------------------------------------------------------------------
(* Properties.                                                             *)

\* What is stored for an issue never goes beyond what was derived for it:
\* when evidence was gathered, a stored value is the one candidate the
\* engines recommended, a confident suggestion claims no more confidence than
\* they have, and with the advanced engines the reviewer is shown every
\* recommended candidate, whatever the model answered (_apply_evidence_safety
\* and _apply_advanced_evidence_safety, suggestion_service.py:1190-1372).
ConfidentIsDerived ==
    \A i \in DOMAIN suggestions :
      LET s == suggestions[i]
          agreed == {c \in s.evidence.best : c.value = s.kept.value}
      IN /\ s.kept.category = "AI_HIGH_CONFIDENCE" => s.kept.value # Null
         /\ s.evidence # NoEvidence =>
              /\ s.kept.value # Null => agreed # {}
              /\ s.kept.category = "AI_HIGH_CONFIDENCE" =>
                   \E c \in agreed : s.kept.confidence <= c.confidence
              /\ table.engine = "ADVANCED" /\ s.evidence.best # {} =>
                   s.kept.value # Null

\* One fault in an otherwise clean table is repaired exactly: when the whole
\* table was read, unchanged, the advanced engines recommend the value that
\* was there before the fault and nothing else, for a term taken out of a
\* progression of numbers, identifiers or dates, a term repeated in one, a
\* value out of line with the columns it is computed from, and a text spoilt
\* or left out (discover_*_evidence and aggregate_candidates).  Where a stale
\* profile takes a column for what it no longer is, they recommend nothing.
FaultIsRepaired ==
    \A b \in Batches :
      /\ table.truth # Null
      /\ edits = 0
      /\ batch[b].step = "ask"
      /\ batch[b].evidence # NoEvidence
      /\ DOMAIN batch[b].rows = DOMAIN source
      => {c.value : c \in batch[b].evidence.best} = {table.truth} \ {Undecidable}

\* The value under review is no evidence for its own replacement: where the
\* engines learn from other rows, they would have recommended the same had
\* the failing row held any other row's value, or none (the module comment of
\* evidence.py; _gather_advanced_evidence, suggestion_service.py:699-758).
\* Progressions count the failing row on purpose.  A source changed between
\* the two queries is excepted: the sample then holds another version of the
\* failing row, which is compared like any other.
OwnValueIsNotEvidence ==
    \A b \in Batches :
      LET at == batch[b]
      IN /\ at.step = "ask"
         /\ at.evidence # NoEvidence
         /\ Applicable(table.columns[Target].type, table.rule)
               \subseteq {"RELATIONSHIP", "TEMPLATE"}
         /\ at.issue \in DOMAIN at.rows => at.rows[at.issue] = at.row
         => \A v \in {Null} \union {source[k][Target] : k \in DOMAIN source} :
              LET row == [at.row EXCEPT ![Target] = v]
                  rows == [k \in DOMAIN at.rows |->
                             IF k = at.issue THEN row ELSE at.rows[k]]
              IN {c.value : c \in Gathered(rows, row, at.issue).best}
                   = {c.value : c \in at.evidence.best}

\* The key by which a row is fetched is not the column under review: no two
\* rows agree in all the others.
KeyIsElsewhere ==
    \A t \in Tables : \A j, k \in DOMAIN t.rows :
      (\A c \in DOMAIN t.columns \ {Target} : t.rows[j][c] = t.rows[k][c]) => j = k

\* Every attempt is accounted for: a call's log names the suggestion it led
\* to and no other log does; a log without one is in the hands of a batch or
\* of one whose process died; an issue has two suggestions only of batches
\* that overlapped, the later one's asked for before the earlier one was
\* stored, and never two of one batch; and a batch that was not cut short
\* leaves no issue without a suggestion, however the provider and the other
\* batches behaved (generate_corrections,
\* suggestion_service.py:881-1000).
AttemptsAreAccounted ==
    LET unlinked == {i \in DOMAIN usage : usage[i].suggestion = 0}
        held == {batch[b].log : b \in Batches}
    IN /\ \A i \in DOMAIN usage \ unlinked :
            /\ usage[i].suggestion \in DOMAIN suggestions
            /\ suggestions[usage[i].suggestion].issue = usage[i].issue
            /\ \A j \in DOMAIN usage \ {i} :
                 usage[j].suggestion # usage[i].suggestion
       /\ \A i, j \in DOMAIN suggestions :
            i < j /\ suggestions[i].issue = suggestions[j].issue =>
              /\ suggestions[i].by # suggestions[j].by
              /\ suggestions[j].since < i
       /\ Cardinality(unlinked \ held) <= crashes
       /\ \A b \in Batches :
            /\ batch[b].step = "next" /\ batch[b].todo = {}
            /\ table.prompt
            => table.issues \subseteq Suggested
=============================================================================
