---------------------------- MODULE SuggestingProofs ----------------------------
(***************************************************************************)
(* Theorems about Suggesting: how a batch accounts for the calls it pays   *)
(* for, what the engines compute, what may be stored and which rows the    *)
(* evidence reads, whatever the tables, the model and the deaths of the    *)
(* process.  That the engines recommend the true value is checked by TLC.  *)
(***************************************************************************)
EXTENDS Suggesting, FiniteSetTheorems, SequenceTheorems, TLAPS

Steps == {"idle", "next", "fetch", "sample", "ask", "write"}

\* The fields a batch has, at every step of it.
Fields == {"step", "todo", "issue", "row", "rows", "evidence", "outcome", "log",
           "since"}

BatchShape ==
    /\ batch = [b \in Batches |-> batch[b]]
    /\ \A b \in Batches :
         /\ batch[b] = [x \in Fields |-> batch[b][x]]
         /\ batch[b].step \in Steps

\* Logs and suggestions are sequences.
LogShape ==
    /\ \E S : usage \in Seq(S)
    /\ \E S : suggestions \in Seq(S)
    /\ \A i \in DOMAIN usage :
         usage[i] = [issue |-> usage[i].issue, suggestion |-> usage[i].suggestion]
    /\ crashes \in Nat

LEMMA Appended ==
  ASSUME NEW S, NEW s \in Seq(S), NEW e
  PROVE  /\ Len(s) \in Nat /\ DOMAIN s = 1 .. Len(s)
         /\ Append(s, e) \in Seq(S \union {e})
         /\ DOMAIN Append(s, e) = DOMAIN s \union {Len(s) + 1}
         /\ Len(s) + 1 \notin DOMAIN s
         /\ \A i \in DOMAIN s : Append(s, e)[i] = s[i]
         /\ Append(s, e)[Len(s) + 1] = e
<1>1. s \in Seq(S \union {e}) /\ e \in S \union {e} /\ Len(s) \in Nat /\ DOMAIN s = 1 .. Len(s)
  OBVIOUS
<1>2. /\ Append(s, e) \in Seq(S \union {e})
      /\ Len(Append(s, e)) = Len(s) + 1
      /\ \A i \in 1 .. Len(s) : Append(s, e)[i] = s[i]
      /\ Append(s, e)[Len(s) + 1] = e
  BY <1>1, AppendProperties
<1>3. DOMAIN Append(s, e) = 1 .. Len(s) + 1
  BY <1>2, LenProperties
<1> QED
  BY <1>1, <1>2, <1>3

-----------------------------------------------------------------------------
(* What is accounted for.                                                  *)

Unlinked == {i \in DOMAIN usage : usage[i].suggestion = 0}

\* The logs in the hands of a batch.
Held == {batch[b].log : b \in Batches}

\* The issues that a batch has yet to suggest for, the one in work included.
Ahead(b) ==
    batch[b].todo \union (IF batch[b].step \in {"fetch", "sample", "ask", "write"}
                          THEN {batch[b].issue} ELSE {})

\* A batch has not suggested for an issue ahead of it, nor had anyone when it
\* was asked for; the issue in work is not to come again; with a prompt no
\* issue is lost.
WorkOf(b) ==
    batch[b].step # "idle" =>
      /\ batch[b].since \in {0} \union DOMAIN suggestions
      /\ Ahead(b) \subseteq table.issues
      /\ \A i \in DOMAIN suggestions :
           suggestions[i].issue \in Ahead(b) =>
             suggestions[i].by # b /\ batch[b].since < i
      /\ batch[b].step # "next" => batch[b].issue \notin batch[b].todo
      /\ table.prompt => table.issues \subseteq Suggested \union Ahead(b)

WorkInv == \A b \in Batches : WorkOf(b)

\* A batch holds at most one log, that of the issue it is writing, and no
\* other batch holds it.
LogInv ==
    /\ \A b \in Batches :
         batch[b].log # NoLog =>
           /\ batch[b].step = "write"
           /\ batch[b].log \in Unlinked
           /\ usage[batch[b].log].issue = batch[b].issue
           /\ \A c \in Batches \ {b} : batch[c].log # batch[b].log
    /\ Cardinality(Unlinked \ Held) <= crashes

LinkInv ==
    /\ \A i \in DOMAIN usage \ Unlinked :
         /\ usage[i].suggestion \in DOMAIN suggestions
         /\ suggestions[usage[i].suggestion].issue = usage[i].issue
         /\ \A j \in DOMAIN usage \ {i} :
              usage[j].suggestion # usage[i].suggestion
    /\ \A i, j \in DOMAIN suggestions :
         i < j /\ suggestions[i].issue = suggestions[j].issue =>
           /\ suggestions[i].by # suggestions[j].by
           /\ suggestions[j].since < i

AccountInv == BatchShape /\ LogShape /\ WorkInv /\ LogInv /\ LinkInv

-----------------------------------------------------------------------------
(* The batches.                                                            *)

LEMMA IdleIsABatch ==
  /\ Idle = [x \in Fields |-> Idle[x]] /\ Idle.step = "idle" /\ Idle.log = NoLog
  /\ Idle.todo = {} /\ Idle.evidence = NoEvidence
  BY DEF Idle, Fields

\* What goes on to its next issue, or ends, forgets the last one.
LEMMA RemainingIsABatch ==
  ASSUME NEW b \in Batches
  PROVE  /\ Remaining(b) = [x \in Fields |-> Remaining(b)[x]]
         /\ Remaining(b).step = "next" /\ Remaining(b).log = NoLog
         /\ Remaining(b).todo = batch[b].todo /\ Remaining(b).since = batch[b].since
         /\ Remaining(b).evidence = NoEvidence
  BY DEF Remaining, Idle, Fields

-----------------------------------------------------------------------------
(* What a step of a batch makes of it, and of the others.                  *)

\* Every other batch stays where it is.
OnlyMoves(b) ==
    /\ batch' = [c \in Batches |-> batch'[c]]
    /\ batch'[b] = [x \in Fields |-> batch'[b][x]]
    /\ \A c \in Batches \ {b} : batch'[c] = batch[c]

\* The batch goes on with the issue it works on.
GoesOn(b) ==
    /\ batch'[b].issue = batch[b].issue
    /\ batch'[b].todo = batch[b].todo
    /\ batch'[b].since = batch[b].since

\* A batch given another record, or some fields of its own.
LEMMA Given ==
  ASSUME BatchShape, NEW b \in Batches, NEW record,
         record = [x \in Fields |-> record[x]],
         batch' = [batch EXCEPT ![b] = record]
  PROVE  OnlyMoves(b) /\ batch'[b] = record
<1>1. PICK D : D = Batches
  OBVIOUS
<1>2. batch = [c \in D |-> batch[c]]
  BY <1>1 DEF BatchShape
<1>3. /\ batch'[b] = record
      /\ \A c \in Batches \ {b} : batch'[c] = batch[c]
      /\ DOMAIN batch' = Batches
  BY <1>1, <1>2
<1>4. batch' = [c \in Batches |-> batch'[c]]
  BY <1>1, <1>2, <1>3
<1> QED
  BY <1>3, <1>4 DEF OnlyMoves

LEMMA GenerateMoves ==
  ASSUME BatchShape, NEW b \in Batches, Generate(b)
  PROVE  /\ OnlyMoves(b)
         /\ batch'[b].step = "next" /\ batch'[b].log = NoLog
         /\ batch'[b].todo = table.issues \ Suggested
         /\ batch'[b].since = Len(suggestions)
         /\ batch'[b].evidence = NoEvidence
<1> DEFINE record == [Idle EXCEPT !.step = "next", !.todo = table.issues \ Suggested,
                                  !.since = Len(suggestions)]
<1>1. batch' = [batch EXCEPT ![b] = record]
  BY DEF Generate
<1>2. /\ record = [x \in Fields |-> record[x]]
      /\ record.step = "next" /\ record.log = NoLog
      /\ record.todo = table.issues \ Suggested /\ record.since = Len(suggestions)
      /\ record.evidence = NoEvidence
  BY DEF Idle, Fields
<1> HIDE DEF record
<1> QED
  BY <1>1, <1>2, Given

LEMMA NextIssueMoves ==
  ASSUME BatchShape, NEW b \in Batches, NextIssue(b)
  PROVE  /\ OnlyMoves(b)
         /\ \E k \in batch[b].todo :
              batch'[b].todo = batch[b].todo \ {k} /\ batch'[b].issue = k
         /\ batch'[b].step \in {"ask", "fetch"} /\ batch'[b].log = NoLog
         /\ batch'[b].since = batch[b].since
         /\ batch'[b].evidence = NoEvidence
<1> DEFINE first == IF table.engine = "OFF" THEN "ask" ELSE "fetch"
           record(k) == [Remaining(b) EXCEPT !.todo = batch[b].todo \ {k}, !.issue = k,
                                             !.step = first]
<1>1. PICK k \in batch[b].todo : batch' = [batch EXCEPT ![b] = record(k)]
  BY DEF NextIssue
<1>2. first \in {"ask", "fetch"}
  OBVIOUS
<1> HIDE DEF first
<1>3. /\ record(k) = [x \in Fields |-> record(k)[x]]
      /\ record(k).step = first /\ record(k).log = NoLog
      /\ record(k).todo = batch[b].todo \ {k} /\ record(k).issue = k
      /\ record(k).since = batch[b].since /\ record(k).evidence = NoEvidence
  BY DEF Remaining, Idle, Fields
<1> HIDE DEF record
<1> QED
  BY <1>1, <1>2, <1>3, Given

LEMMA EndMoves ==
  ASSUME BatchShape, NEW b \in Batches, Finish(b) \/ Crash(b)
  PROVE  OnlyMoves(b) /\ batch'[b] = Idle
  BY IdleIsABatch, Given DEF Finish, Crash

LEMMA RemainingMoves ==
  ASSUME BatchShape, NEW b \in Batches, batch' = [batch EXCEPT ![b] = Remaining(b)]
  PROVE  /\ OnlyMoves(b)
         /\ batch'[b].step = "next" /\ batch'[b].log = NoLog
         /\ batch'[b].todo = batch[b].todo /\ batch'[b].since = batch[b].since
         /\ batch'[b].evidence = NoEvidence
  BY RemainingIsABatch, Given

LEMMA FetchRowMoves ==
  ASSUME BatchShape, NEW b \in Batches, FetchRow(b)
  PROVE  /\ OnlyMoves(b) /\ GoesOn(b) /\ batch[b].step = "fetch"
         /\ batch'[b].evidence = batch[b].evidence /\ batch'[b].log = batch[b].log
         /\ \/ batch'[b].step = "ask"
            \/ /\ batch'[b].step = "sample" /\ batch[b].issue \in DOMAIN source
               /\ batch'[b].row = source[batch[b].issue]
<1> DEFINE k == batch[b].issue
           asking == [batch[b] EXCEPT !.step = "ask"]
           fetched == [batch[b] EXCEPT !.step = "sample", !.row = source[k]]
<1>1. \/ batch' = [batch EXCEPT ![b] = asking]
      \/ k \in DOMAIN source /\ batch' = [batch EXCEPT ![b] = fetched]
  BY DEF FetchRow, BatchShape
<1>2. /\ asking = [x \in Fields |-> asking[x]] /\ asking.step = "ask"
      /\ asking.issue = batch[b].issue /\ asking.todo = batch[b].todo
      /\ asking.since = batch[b].since /\ asking.evidence = batch[b].evidence
      /\ asking.log = batch[b].log
  BY DEF BatchShape, Fields
<1>3. /\ fetched = [x \in Fields |-> fetched[x]] /\ fetched.step = "sample"
      /\ fetched.issue = batch[b].issue /\ fetched.todo = batch[b].todo
      /\ fetched.since = batch[b].since /\ fetched.evidence = batch[b].evidence
      /\ fetched.log = batch[b].log /\ fetched.row = source[k]
  BY DEF BatchShape, Fields
<1>4. batch[b].step = "fetch"
  BY DEF FetchRow
<1> HIDE DEF asking, fetched
<1>5. CASE batch' = [batch EXCEPT ![b] = asking]
  BY <1>2, <1>4, <1>5, Given DEF GoesOn
<1>6. CASE k \in DOMAIN source /\ batch' = [batch EXCEPT ![b] = fetched]
  BY <1>3, <1>4, <1>6, Given DEF GoesOn
<1> QED
  BY <1>1, <1>5, <1>6

LEMMA NothingGatheredMoves ==
  ASSUME BatchShape, NEW b \in Batches, NothingGathered(b)
  PROVE  /\ OnlyMoves(b) /\ GoesOn(b)
         /\ batch[b].step \in {"fetch", "sample"} /\ batch'[b].step = "ask"
         /\ batch'[b].evidence = batch[b].evidence /\ batch'[b].log = batch[b].log
<1> DEFINE record == [batch[b] EXCEPT !.step = "ask"]
<1>1. batch' = [batch EXCEPT ![b] = record] /\ batch[b].step \in {"fetch", "sample"}
  BY DEF NothingGathered, BatchShape
<1>2. /\ record = [x \in Fields |-> record[x]] /\ record.step = "ask"
      /\ record.issue = batch[b].issue /\ record.todo = batch[b].todo
      /\ record.since = batch[b].since /\ record.evidence = batch[b].evidence
      /\ record.log = batch[b].log
  BY DEF BatchShape, Fields
<1> HIDE DEF record
<1> QED
  BY <1>1, <1>2, Given DEF GoesOn

LEMMA SampleRowsMoves ==
  ASSUME BatchShape, NEW b \in Batches, SampleRows(b)
  PROVE  /\ OnlyMoves(b) /\ GoesOn(b)
         /\ batch[b].step = "sample" /\ batch'[b].step = "ask"
         /\ batch'[b].row = batch[b].row /\ batch'[b].log = batch[b].log
         /\ \E S \in SUBSET DOMAIN source :
              /\ batch'[b].rows = [k \in S |-> source[k]]
              /\ batch'[b].evidence
                   = Gathered([k \in S |-> source[k]], batch[b].row, batch[b].issue)
<1> DEFINE rows(S) == [k \in S |-> source[k]]
           record(S, evidence) == [batch[b] EXCEPT !.step = "ask", !.rows = rows(S),
                                                   !.evidence = evidence]
<1>1. PICK S, evidence :
        /\ S \in SUBSET DOMAIN source
        /\ evidence = Gathered(rows(S), batch[b].row, batch[b].issue)
        /\ batch' = [batch EXCEPT ![b].step = "ask", ![b].rows = rows(S),
                                  ![b].evidence = evidence]
  BY DEF SampleRows
<1> HIDE DEF rows
<1>2. batch' = [batch EXCEPT ![b] = record(S, evidence)] /\ batch[b].step = "sample"
  BY <1>1 DEF SampleRows, BatchShape
<1> DEFINE new == record(S, evidence)
<1>3. /\ new = [x \in Fields |-> new[x]] /\ new.step = "ask"
      /\ new.issue = batch[b].issue /\ new.todo = batch[b].todo
      /\ new.since = batch[b].since /\ new.evidence = evidence
      /\ new.log = batch[b].log /\ new.row = batch[b].row /\ new.rows = rows(S)
  BY DEF BatchShape, Fields
<1> HIDE DEF record
<1>4. OnlyMoves(b) /\ batch'[b] = new
  BY <1>2, <1>3, Given
<1> QED
  BY <1>1, <1>2, <1>3, <1>4 DEF GoesOn, rows

LEMMA AnswerMoves ==
  ASSUME BatchShape, NEW b \in Batches, Answer(b)
  PROVE  /\ OnlyMoves(b) /\ GoesOn(b) /\ table.prompt
         /\ batch[b].step = "ask" /\ batch'[b].step = "write"
         /\ batch'[b].log = Len(usage) + 1
         /\ batch'[b].evidence = batch[b].evidence
         /\ \E answer \in Answers(batch[b].evidence) :
              batch'[b].outcome = Kept(answer, batch[b].evidence)
<1> DEFINE record(outcome) == [batch[b] EXCEPT !.step = "write", !.log = Len(usage) + 1,
                                               !.outcome = outcome]
<1>1. PICK answer, outcome :
        /\ answer \in Answers(batch[b].evidence)
        /\ outcome = Kept(answer, batch[b].evidence)
        /\ batch' = [batch EXCEPT ![b].step = "write", ![b].log = Len(usage) + 1,
                                  ![b].outcome = outcome]
  BY DEF Answer
<1>2. batch' = [batch EXCEPT ![b] = record(outcome)] /\ batch[b].step = "ask" /\ table.prompt
  BY <1>1 DEF Answer, BatchShape
<1> DEFINE new == record(outcome)
<1>3. /\ new = [x \in Fields |-> new[x]] /\ new.step = "write"
      /\ new.issue = batch[b].issue /\ new.todo = batch[b].todo
      /\ new.since = batch[b].since /\ new.evidence = batch[b].evidence
      /\ new.log = Len(usage) + 1 /\ new.outcome = outcome
  BY DEF BatchShape, Fields
<1> HIDE DEF record
<1>4. OnlyMoves(b) /\ batch'[b] = new
  BY <1>2, <1>3, Given
<1> QED
  BY <1>1, <1>2, <1>3, <1>4 DEF GoesOn

LEMMA FailAfterCallMoves ==
  ASSUME BatchShape, NEW b \in Batches, FailAfterCall(b)
  PROVE  /\ OnlyMoves(b) /\ GoesOn(b) /\ table.prompt
         /\ batch[b].step = "ask" /\ batch'[b].step = "write"
         /\ batch'[b].log = Len(usage) + 1
         /\ batch'[b].evidence = NoEvidence /\ batch'[b].outcome = CannotInfer
<1> DEFINE record(nothing) == [batch[b] EXCEPT !.step = "write", !.log = Len(usage) + 1,
                                               !.outcome = nothing, !.evidence = NoEvidence]
<1>1. PICK nothing : nothing = CannotInfer
  OBVIOUS
<1>2. batch' = [batch EXCEPT ![b] = record(nothing)] /\ batch[b].step = "ask" /\ table.prompt
  BY <1>1 DEF FailAfterCall, BatchShape
<1> DEFINE new == record(nothing)
<1>3. /\ new = [x \in Fields |-> new[x]] /\ new.step = "write"
      /\ new.issue = batch[b].issue /\ new.todo = batch[b].todo
      /\ new.since = batch[b].since /\ new.evidence = NoEvidence
      /\ new.log = Len(usage) + 1 /\ new.outcome = nothing
  BY DEF BatchShape, Fields
<1> HIDE DEF record
<1>4. OnlyMoves(b) /\ batch'[b] = new
  BY <1>2, <1>3, Given
<1> QED
  BY <1>1, <1>2, <1>3, <1>4 DEF GoesOn

LEMMA FailBeforeCallMoves ==
  ASSUME BatchShape, NEW b \in Batches, FailBeforeCall(b)
  PROVE  /\ OnlyMoves(b) /\ batch[b].step \in {"fetch", "ask"}
         /\ batch'[b].todo = batch[b].todo /\ batch'[b].since = batch[b].since
         /\ batch'[b].evidence = NoEvidence
         /\ table.prompt =>
              /\ batch'[b].step = "write" /\ batch'[b].outcome = CannotInfer
              /\ batch'[b].issue = batch[b].issue /\ batch'[b].log = batch[b].log
         /\ ~table.prompt => batch'[b].step = "next" /\ batch'[b].log = NoLog
<1> DEFINE record(nothing) == [batch[b] EXCEPT !.step = "write", !.outcome = nothing,
                                               !.evidence = NoEvidence]
<1>0. batch[b].step \in {"fetch", "ask"}
  BY DEF FailBeforeCall
<1>1. CASE table.prompt
  <2>1. PICK nothing : nothing = CannotInfer
    OBVIOUS
  <2>2. batch' = [batch EXCEPT ![b] = record(nothing)]
    BY <1>1, <2>1 DEF FailBeforeCall, BatchShape
  <2> DEFINE new == record(nothing)
  <2>3. /\ new = [x \in Fields |-> new[x]] /\ new.step = "write"
        /\ new.issue = batch[b].issue /\ new.todo = batch[b].todo
        /\ new.since = batch[b].since /\ new.evidence = NoEvidence
        /\ new.log = batch[b].log /\ new.outcome = nothing
    BY DEF BatchShape, Fields
  <2> HIDE DEF record
  <2>4. OnlyMoves(b) /\ batch'[b] = new
    BY <2>2, <2>3, Given
  <2> QED
    BY <1>0, <1>1, <2>1, <2>3, <2>4
<1>2. CASE ~table.prompt
  BY <1>0, <1>2, RemainingMoves DEF FailBeforeCall
<1> QED
  BY <1>1, <1>2

LEMMA WriteMoves ==
  ASSUME BatchShape, NEW b \in Batches, Write(b)
  PROVE  /\ OnlyMoves(b)
         /\ batch[b].step = "write" /\ batch'[b].step = "next" /\ batch'[b].log = NoLog
         /\ batch'[b].todo = batch[b].todo /\ batch'[b].since = batch[b].since
         /\ batch'[b].evidence = NoEvidence
  BY RemainingMoves DEF Write

LEMMA StepMoves ==
  ASSUME BatchShape, NEW b \in Batches, BatchStep(b)
  PROVE  OnlyMoves(b) /\ batch'[b].step \in Steps /\ table' = table
<1>1. OnlyMoves(b) /\ batch'[b].step \in Steps
  BY GenerateMoves, NextIssueMoves, EndMoves, FetchRowMoves, NothingGatheredMoves,
     SampleRowsMoves, AnswerMoves, FailAfterCallMoves, FailBeforeCallMoves, WriteMoves,
     IdleIsABatch DEF BatchStep, Steps
<1>2. table' = table
  BY DEF BatchStep, Generate, NextIssue, Finish, FetchRow, NothingGathered, SampleRows,
         Answer, FailAfterCall, FailBeforeCall, Write, Crash
<1> QED
  BY <1>1, <1>2

LEMMA ShapeHolds ==
  ASSUME BatchShape, [Next]_vars
  PROVE  BatchShape' /\ table' = table
<1>1. ASSUME NEW b \in Batches, BatchStep(b)
      PROVE  BatchShape' /\ table' = table
  BY <1>1, StepMoves DEF BatchShape, OnlyMoves
<1>2. CASE SourceChanges \/ UNCHANGED vars
  <2>1. UNCHANGED <<table, batch>>
    BY <1>2 DEF SourceChanges, vars
  <2> QED
    BY <2>1 DEF BatchShape
<1> QED
  BY <1>1, <1>2 DEF Next

-----------------------------------------------------------------------------
(* The steps of a batch, by what they do to what is stored.                *)

\* Steps that store nothing and were never given a log.
Quiet(b) == \/ Generate(b) \/ NextIssue(b) \/ Finish(b) \/ FetchRow(b)
            \/ NothingGathered(b) \/ SampleRows(b) \/ FailBeforeCall(b)

Calls(b) == Answer(b) \/ FailAfterCall(b)

LEMMA QuietStores ==
  ASSUME BatchShape, LogInv, NEW b \in Batches, Quiet(b)
  PROVE  /\ UNCHANGED <<usage, suggestions, crashes>> /\ OnlyMoves(b)
         /\ batch[b].log = NoLog /\ batch'[b].log = NoLog
<1>1. batch[b].step # "write" /\ UNCHANGED <<usage, suggestions, crashes>>
  BY DEF Quiet, Generate, NextIssue, Finish, FetchRow, NothingGathered, SampleRows,
         FailBeforeCall
<1>2. batch[b].log = NoLog
  BY <1>1 DEF LogInv
<1>3. OnlyMoves(b) /\ batch'[b].log \in {NoLog, batch[b].log}
  BY GenerateMoves, NextIssueMoves, EndMoves, FetchRowMoves, NothingGatheredMoves,
     SampleRowsMoves, FailBeforeCallMoves, IdleIsABatch DEF Quiet
<1> QED
  BY <1>1, <1>2, <1>3

LEMMA CallsLog ==
  ASSUME BatchShape, LogShape, LogInv, NEW b \in Batches, Calls(b)
  PROVE  /\ UNCHANGED <<suggestions, crashes>> /\ OnlyMoves(b) /\ GoesOn(b)
         /\ batch[b].step = "ask" /\ batch'[b].step = "write"
         /\ batch[b].log = NoLog /\ batch'[b].log = Len(usage) + 1
         /\ Len(usage) \in Nat
         /\ \E S : usage' \in Seq(S)
         /\ DOMAIN usage' = DOMAIN usage \union {Len(usage) + 1}
         /\ Len(usage) + 1 \notin DOMAIN usage
         /\ \A i \in DOMAIN usage : usage'[i] = usage[i]
         /\ usage'[Len(usage) + 1] = [issue |-> batch[b].issue, suggestion |-> 0]
<1> DEFINE e == [issue |-> batch[b].issue, suggestion |-> 0]
<1>1. usage' = Append(usage, e) /\ UNCHANGED <<suggestions, crashes>>
  BY DEF Calls, Answer, FailAfterCall, Logged
<1>2. /\ OnlyMoves(b) /\ GoesOn(b) /\ batch[b].step = "ask" /\ batch'[b].step = "write"
      /\ batch'[b].log = Len(usage) + 1
  BY AnswerMoves, FailAfterCallMoves DEF Calls
<1>3. batch[b].log = NoLog
  BY <1>2 DEF LogInv
<1>4. PICK S : usage \in Seq(S)
  BY DEF LogShape
<1>5. /\ Len(usage) \in Nat
      /\ Append(usage, e) \in Seq(S \union {e})
      /\ DOMAIN Append(usage, e) = DOMAIN usage \union {Len(usage) + 1}
      /\ Len(usage) + 1 \notin DOMAIN usage
      /\ \A i \in DOMAIN usage : Append(usage, e)[i] = usage[i]
      /\ Append(usage, e)[Len(usage) + 1] = e
  <2> HIDE DEF e
  <2> QED
    BY <1>4, Appended
<1> QED
  BY <1>1, <1>2, <1>3, <1>5

LEMMA WriteLinks ==
  ASSUME BatchShape, LogShape, NEW b \in Batches, Write(b)
  PROVE  /\ crashes' = crashes /\ OnlyMoves(b)
         /\ batch[b].step = "write" /\ batch'[b].step = "next"
         /\ batch'[b].todo = batch[b].todo /\ batch'[b].since = batch[b].since
         /\ batch'[b].log = NoLog
         /\ Len(suggestions) \in Nat
         /\ \E S : suggestions' \in Seq(S)
         /\ \E S : usage' \in Seq(S)
         /\ DOMAIN suggestions = 1 .. Len(suggestions)
         /\ DOMAIN suggestions' = DOMAIN suggestions \union {Len(suggestions) + 1}
         /\ Len(suggestions) + 1 \notin DOMAIN suggestions
         /\ \A i \in DOMAIN suggestions : suggestions'[i] = suggestions[i]
         /\ suggestions'[Len(suggestions) + 1] = Suggestion(b)
         /\ DOMAIN usage' = DOMAIN usage
         /\ \A i \in DOMAIN usage :
              usage'[i] = IF i = batch[b].log
                          THEN [usage[i] EXCEPT !.suggestion = Len(suggestions) + 1]
                          ELSE usage[i]
<1> DEFINE Linked(i) == IF i = batch[b].log
                        THEN [usage[i] EXCEPT !.suggestion = Len(suggestions) + 1]
                        ELSE usage[i]
<1>1. /\ suggestions' = Append(suggestions, Suggestion(b))
      /\ usage' = [i \in DOMAIN usage |-> Linked(i)]
      /\ crashes' = crashes
  BY DEF Write
<1>2. PICK S, U : suggestions \in Seq(S) /\ usage \in Seq(U)
  BY DEF LogShape
<1>3. PICK e : e = Suggestion(b)
  OBVIOUS
<1>4. /\ Len(suggestions) \in Nat /\ DOMAIN suggestions = 1 .. Len(suggestions)
      /\ Append(suggestions, e) \in Seq(S \union {e})
      /\ DOMAIN Append(suggestions, e) = DOMAIN suggestions \union {Len(suggestions) + 1}
      /\ Len(suggestions) + 1 \notin DOMAIN suggestions
      /\ \A i \in DOMAIN suggestions : Append(suggestions, e)[i] = suggestions[i]
      /\ Append(suggestions, e)[Len(suggestions) + 1] = e
  BY <1>2, Appended
<1>5. DOMAIN usage = 1 .. Len(usage) /\ Len(usage) \in Nat
  BY <1>2, LenProperties
<1>6. usage' \in Seq({Linked(i) : i \in 1 .. Len(usage)})
  <2>1. usage' \in [1 .. Len(usage) -> {Linked(i) : i \in 1 .. Len(usage)}]
    <3> HIDE DEF Linked
    <3> QED
      BY <1>1, <1>5
  <2> HIDE DEF Linked
  <2> QED
    BY <1>5, <2>1
<1> QED
  BY <1>1, <1>3, <1>4, <1>6, WriteMoves

-----------------------------------------------------------------------------
(* The accounts.                                                           *)

\* Every step is one of a batch, by its kind, or none of them.
LEMMA StepKinds ==
  ASSUME [Next]_vars
  PROVE  \/ \E b \in Batches : Quiet(b) \/ Calls(b) \/ Write(b) \/ Crash(b)
         \/ UNCHANGED <<table, batch, usage, suggestions, crashes>>
<1>1. SourceChanges => UNCHANGED <<table, batch, usage, suggestions, crashes>>
  BY DEF SourceChanges
<1> QED
  BY <1>1 DEF Next, BatchStep, Quiet, Calls, vars

LEMMA LogsKeepTheirShape ==
  ASSUME BatchShape, LogShape, LogInv, [Next]_vars
  PROVE  LogShape'
<1>1. ASSUME NEW b \in Batches, Quiet(b)
      PROVE  LogShape'
  BY <1>1, QuietStores DEF LogShape
<1>2. ASSUME NEW b \in Batches, Calls(b)
      PROVE  LogShape'
  <2>1. \A i \in DOMAIN usage' :
          usage'[i] = [issue |-> usage'[i].issue, suggestion |-> usage'[i].suggestion]
    BY <1>2, CallsLog DEF LogShape
  <2> QED
    BY <1>2, <2>1, CallsLog DEF LogShape
<1>3. ASSUME NEW b \in Batches, Write(b)
      PROVE  LogShape'
  <2>1. \A i \in DOMAIN usage' :
          usage'[i] = [issue |-> usage'[i].issue, suggestion |-> usage'[i].suggestion]
    <3>1. /\ DOMAIN usage' = DOMAIN usage
          /\ \A i \in DOMAIN usage :
               \/ usage'[i] = usage[i]
               \/ usage'[i] = [usage[i] EXCEPT !.suggestion = Len(suggestions) + 1]
      BY <1>3, WriteLinks
    <3> QED
      BY <3>1 DEF LogShape
  <2>2. crashes' = crashes /\ (\E S : usage' \in Seq(S)) /\ \E S : suggestions' \in Seq(S)
    BY <1>3, WriteLinks
  <2> QED
    BY <2>1, <2>2 DEF LogShape
<1>4. ASSUME NEW b \in Batches, Crash(b)
      PROVE  LogShape'
  BY <1>4 DEF Crash, LogShape
<1>5. CASE UNCHANGED <<table, batch, usage, suggestions, crashes>>
  BY <1>5 DEF LogShape
<1> QED
  BY <1>1, <1>2, <1>3, <1>4, <1>5, StepKinds

LEMMA UnlinkedIsFinite ==
  ASSUME LogShape
  PROVE  IsFiniteSet(Unlinked) /\ Unlinked \subseteq Nat /\ NoLog \notin DOMAIN usage
<1>1. PICK S : usage \in Seq(S)
  BY DEF LogShape
<1>2. DOMAIN usage = 1 .. Len(usage) /\ Len(usage) \in Nat
  BY <1>1, LenProperties
<1>3. IsFiniteSet(DOMAIN usage)
  BY <1>2, FS_Interval
<1>4. Unlinked \subseteq DOMAIN usage
  BY DEF Unlinked
<1> QED
  BY <1>2, <1>3, <1>4, FS_Subset, NoLogIsNoEntry

\* A process that dies leaves at most the log it was about to link.
LEMMA LogInvHolds ==
  ASSUME AccountInv, [Next]_vars
  PROVE  LogInv'
<1> USE DEF AccountInv
<1>0. Unlinked \subseteq DOMAIN usage /\ NoLog \notin DOMAIN usage
  BY UnlinkedIsFinite DEF Unlinked
<1>1. ASSUME NEW b \in Batches, Quiet(b)
      PROVE  LogInv'
  <2>1. /\ UNCHANGED <<usage, suggestions, crashes>> /\ OnlyMoves(b)
        /\ batch[b].log = NoLog /\ batch'[b].log = NoLog
    BY <1>1, QuietStores
  <2>2. Unlinked' = Unlinked /\ Held' = Held
    BY <2>1 DEF Unlinked, Held, OnlyMoves
  <2> QED
    BY <2>1, <2>2 DEF LogInv, OnlyMoves
<1>2. ASSUME NEW b \in Batches, Calls(b)
      PROVE  LogInv'
  <2> DEFINE new == Len(usage) + 1
  <2>1. /\ crashes' = crashes /\ OnlyMoves(b) /\ GoesOn(b) /\ batch'[b].step = "write"
        /\ batch[b].log = NoLog /\ batch'[b].log = new
        /\ DOMAIN usage' = DOMAIN usage \union {new} /\ new \notin DOMAIN usage
        /\ \A i \in DOMAIN usage : usage'[i] = usage[i]
        /\ usage'[new] = [issue |-> batch[b].issue, suggestion |-> 0]
        /\ new \in Nat
    <3>1. Len(usage) \in Nat
      BY <1>2, CallsLog
    <3>2. new \in Nat
      BY <3>1
    <3> HIDE DEF new
    <3>3. /\ crashes' = crashes /\ OnlyMoves(b) /\ GoesOn(b) /\ batch'[b].step = "write"
          /\ batch[b].log = NoLog
      BY <1>2, CallsLog
    <3>4. /\ batch'[b].log = new
          /\ DOMAIN usage' = DOMAIN usage \union {new} /\ new \notin DOMAIN usage
          /\ \A i \in DOMAIN usage : usage'[i] = usage[i]
          /\ usage'[new] = [issue |-> batch[b].issue, suggestion |-> 0]
      BY <1>2, CallsLog DEF new
    <3> QED
      BY <3>2, <3>3, <3>4
  <2> HIDE DEF new
  <2>2. Unlinked' = Unlinked \union {new}
    BY <2>1 DEF Unlinked
  <2>3. Unlinked' \ Held' = Unlinked \ Held
    <3>1. new \in Held'
      BY <2>1 DEF Held
    <3>2. ASSUME NEW x \in Unlinked
          PROVE  x \in Held' <=> x \in Held
      BY <1>0, <2>1 DEF Held, OnlyMoves
    <3> QED
      BY <2>2, <3>1, <3>2
  <2>4. ASSUME NEW c \in Batches, batch'[c].log # NoLog
        PROVE  /\ batch'[c].step = "write"
               /\ batch'[c].log \in Unlinked'
               /\ usage'[batch'[c].log].issue = batch'[c].issue
               /\ \A d \in Batches \ {c} : batch'[d].log # batch'[c].log
    <3>1. CASE c = b
      <4>1. \A d \in Batches \ {b} : batch[d].log # new
        BY <1>0, <2>1, NoLogIsNoEntry DEF LogInv
      <4> QED
        BY <2>1, <2>2, <3>1, <4>1 DEF OnlyMoves, GoesOn
    <3>2. CASE c # b
      <4>1. batch'[c] = batch[c] /\ batch[c].log \in Unlinked
        BY <2>1, <2>4, <3>2 DEF OnlyMoves, LogInv
      <4>2. batch[c].log # new /\ usage'[batch[c].log] = usage[batch[c].log]
        BY <1>0, <2>1, <4>1
      <4> QED
        BY <2>1, <2>2, <2>4, <3>2, <4>1, <4>2 DEF OnlyMoves, LogInv
    <3> QED
      BY <3>1, <3>2
  <2> QED
    BY <2>1, <2>3, <2>4 DEF LogInv
<1>3. ASSUME NEW b \in Batches, Write(b)
      PROVE  LogInv'
  <2>1. /\ OnlyMoves(b) /\ batch'[b].log = NoLog /\ crashes' = crashes
        /\ DOMAIN usage' = DOMAIN usage /\ Len(suggestions) + 1 # 0
        /\ \A i \in DOMAIN usage :
             usage'[i] = IF i = batch[b].log
                         THEN [usage[i] EXCEPT !.suggestion = Len(suggestions) + 1]
                         ELSE usage[i]
    BY <1>3, WriteLinks
  <2>2. \A i \in DOMAIN usage :
          /\ usage'[i].suggestion = IF i = batch[b].log THEN Len(suggestions) + 1
                                    ELSE usage[i].suggestion
          /\ usage'[i].issue = usage[i].issue
    BY <2>1 DEF LogShape
  <2>3. Unlinked' = Unlinked \ {batch[b].log}
    BY <2>1, <2>2 DEF Unlinked
  <2>4. Unlinked' \ Held' = Unlinked \ Held
    BY <1>0, <2>1, <2>3 DEF Held, OnlyMoves
  <2>5. ASSUME NEW c \in Batches, batch'[c].log # NoLog
        PROVE  /\ batch'[c].step = "write"
               /\ batch'[c].log \in Unlinked'
               /\ usage'[batch'[c].log].issue = batch'[c].issue
               /\ \A d \in Batches \ {c} : batch'[d].log # batch'[c].log
    <3>1. c # b /\ batch'[c] = batch[c]
      BY <2>1, <2>5 DEF OnlyMoves
    <3>2. /\ batch[c].log \in Unlinked /\ batch[c].log # batch[b].log
          /\ batch[c].step = "write" /\ usage[batch[c].log].issue = batch[c].issue
          /\ \A d \in Batches \ {c} : batch[d].log # batch[c].log
      BY <2>5, <3>1 DEF LogInv
    <3> QED
      BY <1>0, <2>1, <2>2, <2>3, <2>5, <3>1, <3>2 DEF OnlyMoves
  <2> QED
    BY <2>1, <2>4, <2>5 DEF LogInv
<1>4. ASSUME NEW b \in Batches, Crash(b)
      PROVE  LogInv'
  <2>1. /\ OnlyMoves(b) /\ batch'[b].log = NoLog /\ usage' = usage
        /\ crashes' = crashes + 1 /\ crashes \in Nat
    BY <1>4, EndMoves, IdleIsABatch DEF Crash, LogShape
  <2> DEFINE loose == Unlinked \ Held
             more == loose \union {batch[b].log}
  <2>2. Unlinked' = Unlinked
    BY <2>1 DEF Unlinked
  <2>3. Unlinked' \ Held' \subseteq more
    BY <1>0, <2>1, <2>2 DEF Held, OnlyMoves
  <2>4. IsFiniteSet(loose)
    BY UnlinkedIsFinite, FS_Subset
  <2> HIDE DEF loose
  <2>5. /\ IsFiniteSet(more) /\ Cardinality(loose) \in Nat
        /\ Cardinality(more) <= Cardinality(loose) + 1
    <3>1. PICK x : x = batch[b].log
      OBVIOUS
    <3>2. /\ IsFiniteSet(loose \union {x}) /\ Cardinality(loose) \in Nat
          /\ Cardinality(loose \union {x}) = IF x \in loose THEN Cardinality(loose)
                                            ELSE Cardinality(loose) + 1
      BY <2>4, FS_AddElement, FS_CardinalityType
    <3> QED
      BY <3>1, <3>2
  <2>6. /\ Cardinality(Unlinked' \ Held') \in Nat /\ Cardinality(more) \in Nat
        /\ Cardinality(Unlinked' \ Held') <= Cardinality(more)
    <3>1. IsFiniteSet(Unlinked' \ Held')
      BY <2>3, <2>5, FS_Subset
    <3> QED
      BY <2>3, <2>5, <3>1, FS_Subset, FS_CardinalityType
  <2>7. Cardinality(loose) <= crashes
    BY DEF LogInv, loose
  <2>8. Cardinality(Unlinked' \ Held') <= crashes'
    BY <2>1, <2>5, <2>6, <2>7
  <2>9. \A c \in Batches : batch'[c].log # NoLog => c # b /\ batch'[c] = batch[c]
    BY <2>1 DEF OnlyMoves
  <2> QED
    BY <2>1, <2>2, <2>8, <2>9 DEF LogInv, OnlyMoves
<1>5. CASE UNCHANGED <<table, batch, usage, suggestions, crashes>>
  BY <1>5 DEF LogInv, Unlinked, Held
<1> QED
  BY <1>1, <1>2, <1>3, <1>4, <1>5, StepKinds

\* A link is made once, to the suggestion of the same issue.
LEMMA LinkInvHolds ==
  ASSUME AccountInv, [Next]_vars
  PROVE  LinkInv'
<1> USE DEF AccountInv
<1>1. ASSUME NEW b \in Batches, Quiet(b) \/ Crash(b)
      PROVE  LinkInv'
  <2>1. UNCHANGED <<usage, suggestions>>
    BY <1>1, QuietStores DEF Crash
  <2> QED
    BY <2>1 DEF LinkInv, Unlinked
<1>2. ASSUME NEW b \in Batches, Calls(b)
      PROVE  LinkInv'
  <2>1. /\ suggestions' = suggestions
        /\ \A i \in DOMAIN usage : usage'[i] = usage[i]
        /\ DOMAIN usage' = DOMAIN usage \union {Len(usage) + 1}
        /\ Len(usage) + 1 \notin DOMAIN usage
        /\ usage'[Len(usage) + 1].suggestion = 0
    <3>1. usage'[Len(usage) + 1] = [issue |-> batch[b].issue, suggestion |-> 0]
      BY <1>2, CallsLog
    <3>2. usage'[Len(usage) + 1].suggestion = 0
      BY <3>1
    <3>3. /\ suggestions' = suggestions
          /\ \A i \in DOMAIN usage : usage'[i] = usage[i]
      BY <1>2, CallsLog
    <3>4. /\ DOMAIN usage' = DOMAIN usage \union {Len(usage) + 1}
          /\ Len(usage) + 1 \notin DOMAIN usage
      BY <1>2, CallsLog
    <3> QED
      BY <3>2, <3>3, <3>4
  <2>2. DOMAIN usage' \ Unlinked' = DOMAIN usage \ Unlinked
    BY <2>1 DEF Unlinked
  <2>3. \A i \in DOMAIN usage \ Unlinked : usage[i].suggestion # 0
    BY DEF Unlinked
  <2>4. ASSUME NEW i \in DOMAIN usage \ Unlinked
        PROVE  /\ usage'[i].suggestion \in DOMAIN suggestions
               /\ suggestions[usage'[i].suggestion].issue = usage'[i].issue
               /\ \A j \in DOMAIN usage' \ {i} : usage'[j].suggestion # usage'[i].suggestion
    BY <2>1, <2>3, <2>4 DEF LinkInv
  <2> QED
    BY <2>1, <2>2, <2>4 DEF LinkInv
<1>3. ASSUME NEW b \in Batches, Write(b)
      PROVE  LinkInv'
  <2> DEFINE new == Len(suggestions) + 1
  <2>1. /\ DOMAIN suggestions' = DOMAIN suggestions \union {new}
        /\ new \notin DOMAIN suggestions
        /\ \A i \in DOMAIN suggestions : suggestions'[i] = suggestions[i]
        /\ suggestions'[new] = Suggestion(b)
        /\ DOMAIN usage' = DOMAIN usage
    BY <1>3, WriteLinks
  <2>2. \A i \in DOMAIN usage :
          usage'[i] = IF i = batch[b].log
                      THEN [usage[i] EXCEPT !.suggestion = new]
                      ELSE usage[i]
    BY <1>3, WriteLinks
  <2>3. \A i \in DOMAIN usage :
          /\ usage'[i].issue = usage[i].issue
          /\ usage'[i].suggestion = IF i = batch[b].log THEN new ELSE usage[i].suggestion
    BY <2>2 DEF LogShape
  <2>4. /\ new # 0
        /\ \A i \in DOMAIN suggestions : i < new /\ ~(new < i)
        /\ ~(new < new)
    <3>1. Len(suggestions) \in Nat /\ DOMAIN suggestions = 1 .. Len(suggestions)
      BY <1>3, WriteLinks
    <3> QED
      BY <3>1
  <2>5. batch[b].log # NoLog => batch[b].log \in Unlinked /\ usage[batch[b].log].issue = batch[b].issue
    BY DEF LogInv
  <2>6. /\ suggestions'[new].issue = batch[b].issue
        /\ suggestions'[new].by = b /\ suggestions'[new].since = batch[b].since
    BY <2>1 DEF Suggestion
  <2>7. \A i \in DOMAIN suggestions :
          suggestions[i].issue = batch[b].issue =>
            suggestions[i].by # b /\ batch[b].since < i
    <3>1. batch[b].step = "write"
      BY <1>3 DEF Write
    <3>2. batch[b].issue \in Ahead(b)
      BY <3>1 DEF Ahead
    <3> QED
      BY <3>1, <3>2 DEF WorkInv, WorkOf
  <2> HIDE DEF new
  <2>8. ASSUME NEW i \in DOMAIN suggestions', NEW j \in DOMAIN suggestions', i < j,
               suggestions'[i].issue = suggestions'[j].issue
        PROVE  /\ suggestions'[i].by # suggestions'[j].by
               /\ suggestions'[j].since < i
    <3>1. i \in DOMAIN suggestions
      BY <2>1, <2>4, <2>8
    <3>2. CASE j = new
      BY <2>1, <2>6, <2>7, <2>8, <3>1, <3>2
    <3>3. CASE j \in DOMAIN suggestions
      BY <2>1, <2>8, <3>1, <3>3 DEF LinkInv
    <3> QED
      BY <2>1, <3>2, <3>3
  <2>9. ASSUME NEW i \in DOMAIN usage', usage'[i].suggestion # 0
        PROVE  /\ usage'[i].suggestion \in DOMAIN suggestions'
               /\ suggestions'[usage'[i].suggestion].issue = usage'[i].issue
               /\ \A j \in DOMAIN usage' \ {i} : usage'[j].suggestion # usage'[i].suggestion
    <3>0. i \in DOMAIN usage
      BY <2>1
    <3>1. \A j \in DOMAIN usage \ Unlinked :
            usage[j].suggestion \in DOMAIN suggestions
            /\ suggestions[usage[j].suggestion].issue = usage[j].issue
      BY DEF LinkInv
    <3>2. \A j \in DOMAIN usage : usage[j].suggestion = 0 \/ usage[j].suggestion \in DOMAIN suggestions
      BY <3>1 DEF Unlinked
    <3>3. CASE i = batch[b].log
      <4>1. usage'[i].suggestion = new /\ usage'[i].issue = usage[i].issue
        BY <3>0, <2>3, <3>3
      <4>2. usage[i].issue = batch[b].issue
        BY <2>5, <3>0, <3>3, UnlinkedIsFinite
      <4>3. \A j \in DOMAIN usage' \ {i} : usage'[j].suggestion # new
        BY <2>1, <2>3, <2>4, <3>2, <3>3
      <4> QED
        BY <2>1, <2>6, <4>1, <4>2, <4>3
    <3>4. CASE i # batch[b].log
      <4>1. usage'[i].suggestion = usage[i].suggestion /\ usage'[i].issue = usage[i].issue
        BY <3>0, <2>3, <3>4
      <4>2. i \in DOMAIN usage \ Unlinked
        BY <3>0, <2>9, <4>1 DEF Unlinked
      <4>3. usage[i].suggestion \in DOMAIN suggestions
            /\ suggestions[usage[i].suggestion].issue = usage[i].issue
        BY <3>1, <4>2
      <4>4. \A j \in DOMAIN usage \ {i} : usage[j].suggestion # usage[i].suggestion
        BY <4>2 DEF LinkInv
      <4>5. \A j \in DOMAIN usage' \ {i} : usage'[j].suggestion # usage[i].suggestion
        BY <2>1, <2>3, <4>3, <4>4
      <4> QED
        BY <2>1, <4>1, <4>3, <4>5
    <3> QED
      BY <3>3, <3>4
  <2>10. DOMAIN usage' \ Unlinked' = {i \in DOMAIN usage' : usage'[i].suggestion # 0}
    BY DEF Unlinked
  <2> QED
    BY <2>8, <2>9, <2>10 DEF LinkInv
<1>4. CASE UNCHANGED <<table, batch, usage, suggestions, crashes>>
  BY <1>4 DEF LinkInv, Unlinked
<1> QED
  BY <1>1, <1>2, <1>3, <1>4, StepKinds

\* A step that stores no suggestion leaves to a batch what was ahead of it.
LEMMA WorkGoesOn ==
  ASSUME BatchShape, NEW b \in Batches, WorkOf(b), batch[b].step # "idle",
         UNCHANGED <<table, suggestions>>,
         batch'[b].step # "idle" => /\ batch'[b].since = batch[b].since
                                    /\ Ahead(b)' \subseteq Ahead(b)
                                    /\ table.prompt => Ahead(b)' = Ahead(b)
                                    /\ batch'[b].step # "next" =>
                                         batch'[b].issue \notin batch'[b].todo
  PROVE  WorkOf(b)'
<1>1. Suggested' = Suggested
  BY DEF Suggested
<1> QED
  BY <1>1 DEF WorkOf

LEMMA WorkOfOneHolds ==
  ASSUME AccountInv, NEW b \in Batches, BatchStep(b), ~Write(b)
  PROVE  WorkOf(b)'
<1> USE DEF AccountInv
<1>0. WorkOf(b) /\ table' = table
  BY StepMoves DEF WorkInv, WorkOf
<1>1. CASE Generate(b)
  <2>1. suggestions' = suggestions /\ Suggested' = Suggested
    BY <1>1 DEF Generate, Suggested
  <2>2. Ahead(b)' = table.issues \ Suggested /\ batch'[b].step = "next"
    BY <1>1, GenerateMoves DEF Ahead
  <2>4. batch'[b].since \in {0} \union DOMAIN suggestions
    <3>1. PICK S : suggestions \in Seq(S)
      BY DEF LogShape
    <3>2. DOMAIN suggestions = 1 .. Len(suggestions) /\ Len(suggestions) \in Nat
      BY <3>1, LenProperties
    <3> QED
      BY <1>1, <3>2, GenerateMoves
  <2>3. \A i \in DOMAIN suggestions : suggestions[i].issue \notin Ahead(b)'
    BY <2>2 DEF Suggested
  <2> QED
    BY <1>0, <2>1, <2>2, <2>3, <2>4 DEF WorkOf
<1>2. CASE NextIssue(b)
  <2>1. PICK k \in batch[b].todo :
          batch'[b].todo = batch[b].todo \ {k} /\ batch'[b].issue = k
    BY <1>2, NextIssueMoves
  <2>2. /\ batch'[b].step \in {"ask", "fetch"} /\ batch'[b].since = batch[b].since
        /\ batch[b].step = "next" /\ suggestions' = suggestions
    BY <1>2, NextIssueMoves DEF NextIssue
  <2>3. Ahead(b)' = Ahead(b)
    BY <2>1, <2>2 DEF Ahead
  <2> QED
    BY <1>0, <2>1, <2>2, <2>3, WorkGoesOn
<1>3. CASE Finish(b) \/ Crash(b)
  BY <1>3, EndMoves, IdleIsABatch DEF WorkOf
<1>4. CASE FetchRow(b) \/ NothingGathered(b) \/ SampleRows(b) \/ Calls(b)
  <2>1. /\ GoesOn(b) /\ suggestions' = suggestions
        /\ batch[b].step \in {"fetch", "sample", "ask"}
        /\ batch'[b].step \in {"sample", "ask", "write"}
    <3>1. suggestions' = suggestions
      BY <1>4 DEF FetchRow, NothingGathered, SampleRows, Calls, Answer, FailAfterCall
    <3> QED
      BY <1>4, <3>1, FetchRowMoves, NothingGatheredMoves, SampleRowsMoves, AnswerMoves,
         FailAfterCallMoves DEF Calls
  <2>2. Ahead(b)' = Ahead(b)
    BY <2>1 DEF Ahead, GoesOn
  <2>3. batch[b].issue \notin batch[b].todo
    BY <1>0, <2>1 DEF WorkOf
  <2> QED
    BY <1>0, <2>1, <2>2, <2>3, WorkGoesOn DEF GoesOn
<1>5. CASE FailBeforeCall(b)
  <2>1. /\ batch[b].step \in {"fetch", "ask"} /\ batch'[b].todo = batch[b].todo
        /\ batch'[b].since = batch[b].since
        /\ table.prompt => batch'[b].step = "write" /\ batch'[b].issue = batch[b].issue
        /\ ~table.prompt => batch'[b].step = "next"
        /\ suggestions' = suggestions
    BY <1>5, FailBeforeCallMoves DEF FailBeforeCall
  <2>2. Ahead(b)' \subseteq Ahead(b) /\ (table.prompt => Ahead(b)' = Ahead(b))
    BY <2>1 DEF Ahead
  <2>3. batch[b].issue \notin batch[b].todo
    BY <1>0, <2>1 DEF WorkOf
  <2> QED
    BY <1>0, <2>1, <2>2, <2>3, WorkGoesOn
<1> QED
  BY <1>1, <1>2, <1>3, <1>4, <1>5 DEF BatchStep, Calls

\* No issue is lost between a batch's request and its end, and none returns to
\* a batch that has suggested for it.
LEMMA WorkInvHolds ==
  ASSUME AccountInv, [Next]_vars
  PROVE  WorkInv'
<1> USE DEF AccountInv
<1>0. \A c \in Batches : WorkOf(c)
  BY DEF WorkInv, WorkOf
<1>1. ASSUME NEW b \in Batches, BatchStep(b), ~Write(b)
      PROVE  WorkInv'
  <2>1. OnlyMoves(b) /\ UNCHANGED <<table, suggestions>>
    <3>1. suggestions' = suggestions
      BY <1>1 DEF BatchStep, Generate, NextIssue, Finish, FetchRow, NothingGathered,
                  SampleRows, Answer, FailAfterCall, FailBeforeCall, Crash
    <3> QED
      BY <1>1, <3>1, StepMoves
  <2>2. ASSUME NEW c \in Batches
        PROVE  WorkOf(c)'
    <3>1. CASE c = b
      BY <1>1, <3>1, WorkOfOneHolds
    <3>2. CASE c # b
      <4>1. batch'[c] = batch[c] /\ Suggested' = Suggested
        BY <2>1, <3>2 DEF OnlyMoves, Suggested
      <4>2. Ahead(c)' = Ahead(c)
        BY <4>1 DEF Ahead
      <4> QED
        BY <1>0, <2>1, <4>1, <4>2 DEF WorkOf
    <3> QED
      BY <3>1, <3>2
  <2> QED
    BY <2>2 DEF WorkInv, WorkOf
<1>2. ASSUME NEW b \in Batches, Write(b)
      PROVE  WorkInv'
  <2> DEFINE new == Len(suggestions) + 1
  <2>1. /\ OnlyMoves(b) /\ table' = table
        /\ batch[b].step = "write" /\ batch'[b].step = "next"
        /\ batch'[b].todo = batch[b].todo /\ batch'[b].since = batch[b].since
    BY <1>2, WriteLinks DEF Write
  <2>2. /\ DOMAIN suggestions' = DOMAIN suggestions \union {new}
        /\ new \notin DOMAIN suggestions
        /\ \A i \in DOMAIN suggestions : suggestions'[i] = suggestions[i]
        /\ suggestions'[new].issue = batch[b].issue /\ suggestions'[new].by = b
    <3>1. suggestions'[new] = Suggestion(b)
      BY <1>2, WriteLinks
    <3>2. suggestions'[new].issue = batch[b].issue /\ suggestions'[new].by = b
      BY <3>1 DEF Suggestion
    <3> QED
      BY <1>2, <3>2, WriteLinks
  <2>3. \A c \in Batches : batch[c].step # "idle" => batch[c].since < new
    <3>1. DOMAIN suggestions = 1 .. Len(suggestions) /\ Len(suggestions) \in Nat
      BY <1>2, WriteLinks
    <3> QED
      BY <1>0, <3>1 DEF WorkOf
  <2> HIDE DEF new
  <2>4. Suggested' = Suggested \union {batch[b].issue}
    BY <2>2 DEF Suggested
  <2>5. WorkOf(b)'
    <3>1. Ahead(b)' = batch[b].todo /\ Ahead(b) = batch[b].todo \union {batch[b].issue}
      BY <2>1 DEF Ahead
    <3>2. batch[b].issue \notin batch[b].todo
      BY <1>0, <2>1 DEF WorkOf
    <3> QED
      BY <1>0, <2>1, <2>2, <2>4, <3>1, <3>2 DEF WorkOf
  <2>6. ASSUME NEW c \in Batches, c # b
        PROVE  WorkOf(c)'
    <3>1. batch'[c] = batch[c]
      BY <2>1, <2>6 DEF OnlyMoves
    <3>2. Ahead(c)' = Ahead(c)
      BY <3>1 DEF Ahead
    <3> QED
      BY <1>0, <2>1, <2>2, <2>3, <2>4, <2>6, <3>1, <3>2 DEF WorkOf
  <2> QED
    BY <2>5, <2>6 DEF WorkInv, WorkOf
<1>3. CASE UNCHANGED <<table, batch, usage, suggestions, crashes>>
  <2>1. \A c \in Batches : Ahead(c)' = Ahead(c)
    BY <1>3 DEF Ahead
  <2> QED
    BY <1>3, <2>1 DEF WorkInv, WorkOf, Suggested
<1>4. [Next]_vars => \/ \E b \in Batches : BatchStep(b)
                     \/ UNCHANGED <<table, batch, usage, suggestions, crashes>>
  BY DEF Next, SourceChanges, vars
<1> QED
  BY <1>1, <1>2, <1>3, <1>4

LEMMA InitAccounts == Init => AccountInv
<1> SUFFICES ASSUME Init
             PROVE  AccountInv
  OBVIOUS
<1>1. BatchShape
  BY IdleIsABatch DEF Init, BatchShape, Steps
<1>2. usage \in Seq({}) /\ suggestions \in Seq({}) /\ DOMAIN usage = {} /\ DOMAIN suggestions = {}
  BY DEF Init
<1>3. LogShape
  BY <1>2 DEF Init, LogShape
<1>4. Unlinked = {} /\ crashes = 0
  BY <1>2 DEF Init, Unlinked
<1>5. LogInv
  <2>1. Unlinked \ Held = {} /\ Cardinality({}) = 0
    BY <1>4, FS_EmptySet
  <2>2. \A b \in Batches : batch[b].log = NoLog
    BY IdleIsABatch DEF Init
  <2> QED
    BY <1>4, <2>1, <2>2 DEF LogInv
<1>6. WorkInv /\ LinkInv
  BY <1>2, IdleIsABatch DEF Init, WorkInv, WorkOf, LinkInv
<1> QED
  BY <1>1, <1>3, <1>5, <1>6 DEF AccountInv

LEMMA AccountsHold == Spec => []AccountInv
<1>1. AccountInv /\ [Next]_vars => AccountInv'
  BY ShapeHolds, LogsKeepTheirShape, WorkInvHolds, LogInvHolds, LinkInvHolds DEF AccountInv
<1> QED
  BY <1>1, InitAccounts, PTL DEF Spec

\* A log never names another issue's suggestion, nor do two logs name one; a
\* call without a suggestion is being worked on or cost a process its life; an
\* issue has two suggestions only of batches that overlapped; and a batch that
\* ends by itself has left no issue out, for every number of issues, of
\* batches at the same time, and of deaths (generate_corrections,
\* suggestion_service.py:881-1000).
THEOREM EveryCallIsAccountedFor == Spec => []AttemptsAreAccounted
<1>1. AccountInv => AttemptsAreAccounted
  <2> SUFFICES ASSUME AccountInv
               PROVE  AttemptsAreAccounted
    OBVIOUS
  <2>1. ASSUME NEW b \in Batches, batch[b].step = "next", batch[b].todo = {}, table.prompt
        PROVE  table.issues \subseteq Suggested
    <3>1. Ahead(b) = {}
      BY <2>1 DEF Ahead
    <3> QED
      BY <2>1, <3>1 DEF AccountInv, WorkInv, WorkOf
  <2> QED
    BY <2>1 DEF AccountInv, LinkInv, LogInv, Unlinked, Held, AttemptsAreAccounted
<1> QED
  BY <1>1, AccountsHold, PTL

-----------------------------------------------------------------------------
(* What the engines compute.                                               *)

\* A set of natural numbers that is not empty has a least element.
LEMMA LeastExists ==
  ASSUME NEW A \in SUBSET Nat, A # {}
  PROVE  \E n \in A : \A m \in A : n <= m
<1> DEFINE R == OpToRel(<, Nat)
<1>1. IsWellFoundedOn(R, Nat)
  BY NatLessThanWellFounded
<1>2. \A m, n \in Nat : <<m, n>> \in R <=> m < n
  BY DEF OpToRel
<1> HIDE DEF R
<1>3. PICK n \in A : \A m \in A : <<m, n>> \notin R
  BY <1>1, WFMin
<1>4. \A m \in A : ~(m < n)
  BY <1>2, <1>3
<1> QED
  BY <1>4

\* What SumFunction adds up, one subset after another.
AnyOf(s) == CHOOSE x \in s : TRUE

Summing(S, f, g) == [s \in SUBSET S |-> IF s = {} THEN 0 ELSE f[AnyOf(s)] + g[s \ {AnyOf(s)}]]

LEMMA SumUnfolds ==
  ASSUME NEW f
  PROVE  SumFunction(f) = (CHOOSE g : g = Summing(DOMAIN f, f, g))[DOMAIN f]
  BY DEF SumFunction, SumFunctionOnSet, FoldFunctionOnSet, MapThenFoldSet, Summing, AnyOf

\* The sums of all subsets with up to n elements, and with that of all.
LEMMA SumsExist ==
  ASSUME NEW S, IsFiniteSet(S), NEW f \in [S -> Nat]
  PROVE  \E g \in [SUBSET S -> Nat] : g = Summing(S, f, g)
<1> DEFINE Upto(n) == \E g \in [SUBSET S -> Nat] :
                         \A s \in SUBSET S : Cardinality(s) <= n => g[s] = Summing(S, f, g)[s]
<1>0. \A s \in SUBSET S : /\ IsFiniteSet(s) /\ Cardinality(s) \in Nat /\ Cardinality(s) <= Cardinality(S)
                          /\ s # {} => /\ AnyOf(s) \in s
                                       /\ Cardinality(s) # 0
                                       /\ s \ {AnyOf(s)} \in SUBSET S
                                       /\ Cardinality(s \ {AnyOf(s)}) = Cardinality(s) - 1
  <2> SUFFICES ASSUME NEW s \in SUBSET S
               PROVE  /\ IsFiniteSet(s) /\ Cardinality(s) \in Nat /\ Cardinality(s) <= Cardinality(S)
                      /\ s # {} => /\ AnyOf(s) \in s
                                   /\ Cardinality(s) # 0
                                   /\ s \ {AnyOf(s)} \in SUBSET S
                                   /\ Cardinality(s \ {AnyOf(s)}) = Cardinality(s) - 1
    OBVIOUS
  <2>1. IsFiniteSet(s) /\ Cardinality(s) \in Nat /\ Cardinality(s) <= Cardinality(S)
    BY FS_Subset, FS_CardinalityType
  <2>2. s # {} => AnyOf(s) \in s
    BY DEF AnyOf
  <2> QED
    BY <2>1, <2>2, FS_RemoveElement, FS_EmptySet
<1>1. Upto(0)
  <2> DEFINE g == [s \in SUBSET S |-> 0]
  <2>1. g \in [SUBSET S -> Nat]
    OBVIOUS
  <2>2. ASSUME NEW s \in SUBSET S, Cardinality(s) <= 0
        PROVE  g[s] = Summing(S, f, g)[s]
    <3>1. ~(s # {})
      <4>1. Cardinality(s) \in Nat /\ (s # {} => Cardinality(s) # 0)
        BY <1>0
      <4> QED
        BY <4>1, <2>2
    <3> QED
      BY <3>1 DEF Summing
  <2> QED
    BY <2>1, <2>2
<1>2. ASSUME NEW n \in Nat, Upto(n)
      PROVE  Upto(n + 1)
  <2>1. PICK g \in [SUBSET S -> Nat] :
          \A s \in SUBSET S : Cardinality(s) <= n => g[s] = Summing(S, f, g)[s]
    BY <1>2
  <2> DEFINE h == [s \in SUBSET S |-> IF Cardinality(s) <= n THEN g[s] ELSE Summing(S, f, g)[s]]
  <2>2. ASSUME NEW s \in SUBSET S
        PROVE  Summing(S, f, g)[s] \in Nat
    <3>1. CASE s = {}
      BY <3>1 DEF Summing
    <3>2. CASE s # {}
      <4>1. AnyOf(s) \in S /\ s \ {AnyOf(s)} \in SUBSET S
        BY <1>0, <3>2
      <4>2. f[AnyOf(s)] \in Nat /\ g[s \ {AnyOf(s)}] \in Nat
        BY <4>1
      <4> QED
        BY <3>2, <4>2 DEF Summing
    <3> QED
      BY <3>1, <3>2
  <2>3. h \in [SUBSET S -> Nat]
    BY <2>2
  <2>4. \A s \in SUBSET S : h[s] = Summing(S, f, g)[s] \/ Cardinality(s) > n + 1
    BY <2>1, <1>0
  <2>5. ASSUME NEW s \in SUBSET S, Cardinality(s) <= n + 1
        PROVE  Summing(S, f, h)[s] = Summing(S, f, g)[s]
    <3>1. CASE s = {}
      BY <3>1 DEF Summing
    <3>2. CASE s # {}
      <4>1. s \ {AnyOf(s)} \in SUBSET S /\ Cardinality(s \ {AnyOf(s)}) <= n
        <5>1. /\ Cardinality(s) \in Nat /\ s \ {AnyOf(s)} \in SUBSET S
              /\ Cardinality(s \ {AnyOf(s)}) = Cardinality(s) - 1
          BY <1>0, <3>2
        <5> QED
          BY <5>1, <2>5
      <4>2. h[s \ {AnyOf(s)}] = g[s \ {AnyOf(s)}]
        BY <4>1
      <4> QED
        BY <3>2, <4>2 DEF Summing
    <3> QED
      BY <3>1, <3>2
  <2>6. \A s \in SUBSET S : Cardinality(s) <= n + 1 => h[s] = Summing(S, f, h)[s]
    <3>1. ASSUME NEW s \in SUBSET S, Cardinality(s) <= n + 1
          PROVE  ~(Cardinality(s) > n + 1)
      <4>1. Cardinality(s) \in Nat
        BY <1>0
      <4> QED
        BY <3>1, <4>1
    <3> HIDE DEF h
    <3> QED
      BY <2>4, <2>5, <3>1
  <2> HIDE DEF h
  <2> QED
    BY <2>3, <2>6
<1>3. Upto(Cardinality(S))
  <2> HIDE DEF Upto
  <2> DEFINE A == {n \in Nat : ~Upto(n)}
  <2>1. CASE A = {}
    BY <2>1, <1>0
  <2>2. CASE A # {}
    <3>1. PICK m \in A : \A n \in A : m <= n
      BY <2>2, LeastExists
    <3>2. m # 0
      BY <1>1, <3>1
    <3>3. m - 1 \in Nat /\ m - 1 \notin A
      BY <3>1, <3>2
    <3>4. Upto((m - 1) + 1)
      BY <3>3, <1>2
    <3> QED
      BY <3>1, <3>4
  <2> QED
    BY <2>1, <2>2
<1>4. PICK g \in [SUBSET S -> Nat] :
        \A s \in SUBSET S : Cardinality(s) <= Cardinality(S) => g[s] = Summing(S, f, g)[s]
  BY <1>3
<1>5. \A s \in SUBSET S : g[s] = Summing(S, f, g)[s]
  BY <1>0, <1>4
<1>6. g = Summing(S, f, g)
  BY <1>5 DEF Summing
<1> QED
  BY <1>6

\* Natural numbers add up to one.
LEMMA SumIsNatural ==
  ASSUME NEW S, IsFiniteSet(S), NEW f \in [S -> Nat]
  PROVE  SumFunction(f) \in Nat
<1> DEFINE g == CHOOSE h : h = Summing(S, f, h)
           R == StrictSubsetOrdering(S)
           Bad == {s \in SUBSET S : g[s] \notin Nat}
<1>1. g = Summing(S, f, g)
  BY SumsExist
<1>2. SumFunction(f) = g[S]
  BY SumUnfolds
<1> HIDE DEF g
<1>3. CASE Bad = {}
  BY <1>2, <1>3
<1>4. CASE Bad # {}
  <2>1. IsWellFoundedOn(R, FiniteSubsetsOf(S)) /\ Bad \subseteq FiniteSubsetsOf(S)
    BY FS_StrictSubsetOrderingWellFounded, FS_FiniteSubsetsOfFinite
  <2> HIDE DEF R
  <2>2. PICK s \in Bad : \A t \in Bad : <<t, s>> \notin R
    BY <1>4, <2>1, WFMin
  <2>3. s # {} /\ AnyOf(s) \in s
    <3>1. g[{}] = 0
      BY <1>1 DEF Summing
    <3> QED
      BY <2>2, <3>1 DEF AnyOf
  <2>4. <<s \ {AnyOf(s)}, s>> \in R
    BY <2>2, <2>3 DEF R, StrictSubsetOrdering
  <2>5. s \ {AnyOf(s)} \in SUBSET S /\ g[s \ {AnyOf(s)}] \in Nat
    BY <2>2, <2>4
  <2>6. g[s] = f[AnyOf(s)] + g[s \ {AnyOf(s)}]
    BY <1>1, <2>2, <2>3 DEF Summing
  <2>7. f[AnyOf(s)] \in Nat
    BY <2>2, <2>3
  <2> QED
    BY <2>2, <2>5, <2>6, <2>7
<1> QED
  BY <1>3, <1>4

\* The versions that the source's owner may make of a row of a table, and of
\* the rows that were read of it.
IsVersion(t, k, row) ==
    \/ row = t.rows[k]
    \/ \E v \in {t.rows[j][Target] : j \in DOMAIN t.rows} \union {Null} :
         row = [t.rows[k] EXCEPT ![Target] = v]

AreVersions(t, rows) ==
    /\ DOMAIN rows \subseteq DOMAIN t.rows
    /\ \A k \in DOMAIN rows : IsVersion(t, k, rows[k])

\* What the engines of a table recommend for the issue k.
Recommended(t, k, rows, row) ==
    IF t.engine = "ADVANCED"
    THEN AdvancedEvidence(t.columns, t.rule, rows, row, t.issues \ {k}).best
    ELSE RelationshipEvidence(t.columns, Target, rows, row)

\* What stands for an absent value is not a function, which the values are.
NullIsNoFunction == Null # [x \in DOMAIN Null |-> Null[x]]

\* The confidences, in thousandths.
Thousandths == 0 .. 1000

\* A candidate has a value, and a confidence between 0 and 1.
IsWhole(c) == c.value # Null /\ c.confidence \in Thousandths

LEMMA ValueIsNotNull ==
  ASSUME NullIsNoFunction, NEW v, v = [x \in DOMAIN v |-> v[x]]
  PROVE  v # Null
  BY DEF NullIsNoFunction

LEMMA MinIsOne ==
  ASSUME NEW a \in Int, NEW b \in Int
  PROVE  Min({a, b}) \in {a, b} /\ Min({a, b}) <= a /\ Min({a, b}) <= b
<1>1. \E x \in {a, b} : \A y \in {a, b} : x <= y
  <2>1. a <= b \/ b <= a
    OBVIOUS
  <2> QED
    BY <2>1
<1>2. Min({a, b}) \in {a, b} /\ \A y \in {a, b} : Min({a, b}) <= y
  BY <1>1 DEF Min
<1> QED
  BY <1>2

\* The greatest of finitely many integers that are at least 0 or 1.
LEMMA MaxIsOne ==
  ASSUME NEW S, S \subseteq Int, NEW n \in Int, \A x \in S : x <= n, S # {}
  PROVE  Max(S) \in S /\ \A x \in S : x <= Max(S)
<1> DEFINE A == {n - x : x \in S}
<1>1. A \in SUBSET Nat /\ A # {}
  <2>1. \A x \in S : x \in Int /\ x <= n
    OBVIOUS
  <2>2. \A x \in S : n - x \in Nat
    BY <2>1
  <2> QED
    BY <2>2
<1>2. PICK m \in A : \A a \in A : m <= a
  BY <1>1, LeastExists
<1>3. PICK x \in S : m = n - x
  BY <1>2
<1>4. \A y \in S : x >= y
  <2> SUFFICES ASSUME NEW y \in S PROVE x >= y
    OBVIOUS
  <2>1. n - y \in A
    OBVIOUS
  <2>2. n - x <= n - y
    BY <1>2, <1>3, <2>1
  <2> QED
    BY <2>2
<1>5. Max(S) \in S /\ \A y \in S : Max(S) >= y
  BY <1>4 DEF Max
<1> QED
  BY <1>5

LEMMA Quotient ==
  ASSUME NEW a \in Nat, NEW b \in Nat \ {0}
  PROVE  /\ a \div b \in Nat
         /\ a <= 1000 * b => a \div b <= 1000
<1>1. a \div b \in Int /\ a = b * (a \div b) + (a % b) /\ a % b \in 0 .. b - 1
  <2>1. a \in Int /\ b \in Int /\ b > 0
    OBVIOUS
  <2>2. a \div b \in Int
    BY <2>1
  <2>3. a % b \in 0 .. b - 1
    BY <2>1
  <2>4. a = b * (a \div b) + (a % b)
    BY <2>1
  <2> QED
    BY <2>2, <2>3, <2>4
<1> DEFINE q == a \div b
<1>2. q \in Int /\ b * q <= a /\ a < b * q + b
  BY <1>1
<1> HIDE DEF q
<1>3. CASE q < 0
  <2>1. b * q <= -b
    BY <1>2, <1>3
  <2> QED
    BY <1>2, <2>1
<1>4. CASE q > 1000
  <2>1. b * q >= b * 1001
    BY <1>2, <1>4
  <2> QED
    BY <1>2, <1>4, <2>1 DEF q
<1> QED
  BY <1>2, <1>3, <1>4 DEF q

LEMMA ConfidenceIsThousandths ==
  ASSUME NEW fit \in Thousandths, NEW n \in Nat
  PROVE  Confidence(fit, n, MinGroup) \in Thousandths
<1> DEFINE m == Min({n, 6})
<1>1. m \in 0 .. 6
  <2>1. n \in Int /\ 6 \in Int
    OBVIOUS
  <2>2. m \in {n, 6} /\ m <= 6
    BY <2>1, MinIsOne
  <2> QED
    BY <2>2
<1> HIDE DEF m
<1>2. fit \in 0 .. 1000
  BY DEF Thousandths
<1>4. fit * m \in Nat /\ fit * m <= 1000 * 6
  BY <1>1, <1>2
<1>3. (fit * m) \div 6 \in Thousandths
  BY <1>4 DEF Thousandths
<1> QED
  BY <1>3 DEF Confidence, MinGroup, m

LEMMA SpreadIsThousandths ==
  ASSUME NEW xs
  PROVE  SpreadFit(xs) \in Thousandths
<1>1. ASSUME NEW x
      PROVE  Root(x) \in 0 .. 100
  <2> DEFINE A == {r \in 1 .. 100 : r * r <= x}
  <2>1. A \in SUBSET (1 .. 100)
    OBVIOUS
  <2>2. IsFiniteSet(1 .. 100) /\ Cardinality(1 .. 100) = 100
    <3>1. 1 \in Int /\ 100 \in Int
      OBVIOUS
    <3>2. IsFiniteSet(1 .. 100) /\ Cardinality(1 .. 100) = IF 1 > 100 THEN 0 ELSE 100 - 1 + 1
      BY <3>1, FS_Interval
    <3> QED
      BY <3>2
  <2> HIDE DEF A
  <2>3. Cardinality(A) \in Nat /\ Cardinality(A) <= 100
    <3>1. IsFiniteSet(A) /\ Cardinality(A) <= Cardinality(1 .. 100)
      BY <2>1, <2>2, FS_Subset
    <3> QED
      BY <2>2, <3>1, FS_CardinalityType
  <2> QED
    BY <2>3 DEF Root, A
<1> DEFINE sum == SumFunction(xs)
           dev == Cardinality(DOMAIN xs) * SumFunction([k \in DOMAIN xs |-> xs[k] * xs[k]]) - sum * sum
           root == Root((1000 * dev) \div Max({1, (sum * sum) \div 1000}))
<1>2. root \in 0 .. 100
  BY <1>1
<1>3. SpreadFit(xs) = 0 \/ SpreadFit(xs) = 1000 - root
  BY DEF SpreadFit
<1> HIDE DEF root
<1> QED
  BY <1>2, <1>3 DEF Thousandths

LEMMA DerivedIsThousandths ==
  ASSUME NEW S, IsFiniteSet(S), S # {}, NEW xs \in [S -> Int], NEW ys \in [S -> Int]
  PROVE  DerivedFit(xs, ys) \in Thousandths
<1> DEFINE Abs(a) == IF a < 0 THEN -a ELSE a
           errors == [k \in S |-> (1000 * Abs(xs[k] - ys[k])) \div Max({Abs(xs[k]), Abs(ys[k]), 1})]
           n == Cardinality(S)
           part == SumFunction(errors) \div n
<1>1. ASSUME NEW k \in S
      PROVE  errors[k] \in Nat
  <2>1. Abs(xs[k]) \in Nat /\ Abs(ys[k]) \in Nat /\ Abs(xs[k] - ys[k]) \in Nat
    OBVIOUS
  <2> DEFINE a == Abs(xs[k])
             b == Abs(ys[k])
             d == Abs(xs[k] - ys[k])
  <2>2. a \in Nat /\ b \in Nat /\ d \in Nat
    BY <2>1
  <2> HIDE DEF a, b, d
  <2>3. Max({a, b, 1}) \in Nat \ {0}
    <3>1. {a, b, 1} \subseteq Int /\ \A x \in {a, b, 1} : x <= a + b + 1
      BY <2>2
    <3>2. Max({a, b, 1}) \in {a, b, 1} /\ 1 <= Max({a, b, 1})
      BY <2>2, <3>1, MaxIsOne
    <3> QED
      BY <2>2, <3>2
  <2>4. (1000 * d) \div Max({a, b, 1}) \in Nat
    BY <2>2, <2>3, Quotient
  <2> QED
    BY <2>4 DEF a, b, d
<1>2. SumFunction(errors) \in Nat
  <2>1. errors \in [S -> Nat]
    BY <1>1
  <2> HIDE DEF errors
  <2> QED
    BY <2>1, SumIsNatural
<1>3. n \in Nat \ {0}
  BY FS_CardinalityType, FS_EmptySet
<1>4. part \in Nat
  <2> HIDE DEF errors, n
  <2> QED
    BY <1>2, <1>3, Quotient
<1>5. DerivedFit(xs, ys) = Max({0, 1000 - part})
  BY DEF DerivedFit
<1> HIDE DEF part
<1>6. Max({0, 1000 - part}) \in Thousandths
  <2>1. {0, 1000 - part} \subseteq Int /\ \A x \in {0, 1000 - part} : x <= 1000
    BY <1>4
  <2>2. Max({0, 1000 - part}) \in {0, 1000 - part} /\ 0 <= Max({0, 1000 - part})
    BY <2>1, MaxIsOne
  <2> QED
    BY <1>4, <2>2 DEF Thousandths
<1> QED
  BY <1>5, <1>6

LEMMA FittedIsWhole ==
  ASSUME NullIsNoFunction, NEW kind, NEW value, NEW fit \in Thousandths, NEW n \in Nat
  PROVE  IsWhole(Fitted(kind, value, fit, n)) /\ Fitted(kind, value, fit, n).fit \in Thousandths
<1>1. [milli |-> value] # Null
  BY ValueIsNotNull
<1>2. Confidence(fit, n, MinGroup) \in Thousandths
  BY ConfidenceIsThousandths
<1> QED
  BY <1>1, <1>2 DEF IsWhole, Fitted

\* Of candidates that are rated in thousandths one is rated highest.
LEMMA HighestFit ==
  ASSUME NEW F, F # {}, \A s \in F : s.fit \in Thousandths
  PROVE  \E s \in F : \A r \in F : s.fit >= r.fit
<1> DEFINE A == {s.fit : s \in F}
<1>1. A # {} /\ A \subseteq Int /\ \A x \in A : x <= 1000
  <2>1. \A x \in A : x \in 0 .. 1000
    BY DEF Thousandths
  <2>2. A # {}
    OBVIOUS
  <2> HIDE DEF A
  <2>3. A \subseteq Int
    BY <2>1
  <2>4. \A x \in A : x <= 1000
    BY <2>1
  <2> QED
    BY <2>2, <2>3, <2>4
<1>2. Max(A) \in A /\ \A x \in A : x <= Max(A)
  <2> HIDE DEF A
  <2> DEFINE n == 1000
  <2>1. n \in Int /\ \A x \in A : x <= n
    BY <1>1
  <2> HIDE DEF n
  <2> QED
    BY <1>1, <2>1, MaxIsOne
<1>3. PICK s \in F : s.fit = Max(A)
  BY <1>2
<1>4. \A r \in F : r.fit <= Max(A)
  BY <1>2
<1> HIDE DEF A
<1>5. \A r \in F : s.fit >= r.fit
  BY <1>1, <1>2, <1>3, <1>4
<1> QED
  BY <1>5

LEMMA HighestConfidence ==
  ASSUME NEW F, F # {}, \A s \in F : s.confidence \in Thousandths
  PROVE  \E s \in F : \A r \in F : s.confidence >= r.confidence
<1> DEFINE A == {s.confidence : s \in F}
<1>1. A # {} /\ A \subseteq Int /\ \A x \in A : x <= 1000
  <2>1. \A x \in A : x \in 0 .. 1000
    BY DEF Thousandths
  <2>2. A # {}
    OBVIOUS
  <2> HIDE DEF A
  <2>3. A \subseteq Int
    BY <2>1
  <2>4. \A x \in A : x <= 1000
    BY <2>1
  <2> QED
    BY <2>2, <2>3, <2>4
<1>2. Max(A) \in A /\ \A x \in A : x <= Max(A)
  <2> HIDE DEF A
  <2> DEFINE n == 1000
  <2>1. n \in Int /\ \A x \in A : x <= n
    BY <1>1
  <2> HIDE DEF n
  <2> QED
    BY <1>1, <2>1, MaxIsOne
<1>3. PICK s \in F : s.confidence = Max(A)
  BY <1>2
<1>4. \A r \in F : r.confidence <= Max(A)
  BY <1>2
<1> HIDE DEF A
<1>5. \A r \in F : s.confidence >= r.confidence
  BY <1>1, <1>2, <1>3, <1>4
<1> QED
  BY <1>5

\* Rows whose numbers are numbers, as the versions of a table's rows are.
HoldNumbers(columns, rows) ==
    /\ IsFiniteSet(DOMAIN rows)
    /\ \A k \in DOMAIN rows, c \in DOMAIN columns :
         IsNumber(columns, rows[k], c) => Number(rows[k], c) \in Int

LEMMA ShapesAreWhole ==
  ASSUME NullIsNoFunction, NEW columns, NEW target \in DOMAIN columns, NEW rows,
         HoldNumbers(columns, rows), NEW failing, NEW group \in SUBSET DOMAIN rows
  PROVE  /\ \A s \in Constants(group, columns, target, rows) : IsWhole(s) /\ s.fit \in Thousandths
         /\ \A m : \A s \in Ratios(group, columns, target, rows, failing, m) :
              IsWhole(s) /\ s.fit \in Thousandths
         /\ \A m1, m2 \in DOMAIN columns :
              \A s \in Derivations(group, columns, target, rows, failing, m1, m2) :
                IsWhole(s) /\ s.fit \in Thousandths
<1>1. ASSUME NEW S \in SUBSET group
      PROVE  IsFiniteSet(S) /\ Cardinality(S) \in Nat
  <2>1. S \in SUBSET DOMAIN rows /\ IsFiniteSet(DOMAIN rows)
    BY DEF HoldNumbers
  <2> QED
    BY <2>1, FS_Subset, FS_CardinalityType
<1>2. \A s \in Constants(group, columns, target, rows) : IsWhole(s) /\ s.fit \in Thousandths
  <2> DEFINE S == {k \in group : IsNumber(columns, rows[k], target)}
             xs == [k \in S |-> 100 * Number(rows[k], target)]
             v == (10 * SumFunction(xs)) \div Cardinality(S)
             s == Fitted("constant_within_group", v, SpreadFit(xs), Cardinality(S))
  <2>1. Cardinality(S) \in Nat
    BY <1>1
  <2>2. SpreadFit(xs) \in Thousandths
    BY SpreadIsThousandths
  <2>3. IsWhole(s) /\ s.fit \in Thousandths
    <3> HIDE DEF S, xs, v
    <3> QED
      BY <2>1, <2>2, FittedIsWhole
  <2>4. Constants(group, columns, target, rows) \subseteq {s}
    BY DEF Constants
  <2> HIDE DEF s
  <2> QED
    BY <2>3, <2>4
<1>3. ASSUME NEW m
      PROVE  \A s \in Ratios(group, columns, target, rows, failing, m) :
               IsWhole(s) /\ s.fit \in Thousandths
  <2> DEFINE S == {k \in group : /\ IsNumber(columns, rows[k], target)
                                 /\ IsNumber(columns, rows[k], m)
                                 /\ Number(rows[k], m) # 0}
             xs == [k \in S |-> (100 * Number(rows[k], target)) \div Number(rows[k], m)]
             v == (10 * SumFunction(xs) * Number(failing, m)) \div Cardinality(S)
             s == Fitted("ratio_consistency", v, SpreadFit(xs), Cardinality(S))
  <2>1. Cardinality(S) \in Nat
    BY <1>1
  <2>2. SpreadFit(xs) \in Thousandths
    BY SpreadIsThousandths
  <2>3. IsWhole(s) /\ s.fit \in Thousandths
    <3> HIDE DEF S, xs, v
    <3> QED
      BY <2>1, <2>2, FittedIsWhole
  <2>4. Ratios(group, columns, target, rows, failing, m) \subseteq {s}
    BY DEF Ratios
  <2> HIDE DEF s
  <2> QED
    BY <2>3, <2>4
<1>4. ASSUME NEW m1 \in DOMAIN columns, NEW m2 \in DOMAIN columns
      PROVE  \A s \in Derivations(group, columns, target, rows, failing, m1, m2) :
               IsWhole(s) /\ s.fit \in Thousandths
  <2> DEFINE Kinds == {"product_consistency", "sum_consistency", "difference_consistency"}
             S == {k \in group : \A c \in {target, m1, m2} : IsNumber(columns, rows[k], c)}
             xs == [k \in S |-> Number(rows[k], target)]
             Ys(kind) == [k \in S |-> Apply(kind, Number(rows[k], m1), Number(rows[k], m2))]
             V(kind) == 1000 * Apply(kind, Number(failing, m1), Number(failing, m2))
             Of(kind) == Fitted(kind, V(kind), DerivedFit(xs, Ys(kind)), Cardinality(S))
  <2>1. Cardinality(S) \in Nat /\ IsFiniteSet(S)
    BY <1>1
  <2>2. \A k \in S : /\ Number(rows[k], target) \in Int
                     /\ Number(rows[k], m1) \in Int /\ Number(rows[k], m2) \in Int
    BY DEF HoldNumbers
  <2>3. ASSUME S # {}, NEW kind \in Kinds
        PROVE  IsWhole(Of(kind)) /\ Of(kind).fit \in Thousandths
    <3>1. xs \in [S -> Int]
      BY <2>2
    <3>2. Ys(kind) \in [S -> Int]
      <4>1. \A a, b \in Int : Apply(kind, a, b) \in Int
        BY <2>3 DEF Apply
      <4> QED
        BY <2>2, <4>1
    <3>3. DerivedFit(xs, Ys(kind)) \in Thousandths
      <4> HIDE DEF S, xs, Ys
      <4> QED
        BY <2>1, <2>3, <3>1, <3>2, DerivedIsThousandths
    <3> HIDE DEF S, xs, Ys, V
    <3> QED
      BY <2>1, <3>3, FittedIsWhole
  <2>4. S # {} => Derivations(group, columns, target, rows, failing, m1, m2) \subseteq {Of(kind) : kind \in Kinds}
    BY DEF Derivations
  <2>5. S = {} => Derivations(group, columns, target, rows, failing, m1, m2) = {}
    BY FS_EmptySet DEF Derivations, MinGroup
  <2> HIDE DEF S, Of
  <2> QED
    BY <2>3, <2>4, <2>5
<1> QED
  BY <1>2, <1>3, <1>4

LEMMA RelationshipIsWhole ==
  ASSUME NullIsNoFunction, NEW columns, NEW target \in DOMAIN columns, NEW rows,
         HoldNumbers(columns, rows), NEW failing
  PROVE  \A c \in RelationshipEvidence(columns, target, rows, failing) : IsWhole(c)
<1> DEFINE group == Group(columns, target, rows, failing)
           measures == {c \in DOMAIN columns \ {target} : Role(columns, rows, c) = "MEASURE"}
           pairs == {p \in measures \X measures : p[1] # p[2]}
           ratios == UNION {Ratios(group, columns, target, rows, failing, m) : m \in measures}
           derivations == UNION {Derivations(group, columns, target, rows, failing, p[1], p[2]) :
                                   p \in pairs}
           constants == Constants(group, columns, target, rows)
           shapes == constants \union ratios \union derivations
           fitting == {s \in shapes : s.fit >= 900}
           top == CHOOSE s \in fitting : \A r \in fitting : s.fit >= r.fit
<1>1. group \in SUBSET DOMAIN rows
  BY DEF Group
<1>2. \A s \in constants : IsWhole(s) /\ s.fit \in Thousandths
  BY <1>1, ShapesAreWhole
<1>3. \A s \in ratios : IsWhole(s) /\ s.fit \in Thousandths
  <2> SUFFICES ASSUME NEW m \in measures, NEW s \in Ratios(group, columns, target, rows, failing, m)
               PROVE  IsWhole(s) /\ s.fit \in Thousandths
    OBVIOUS
  <2> HIDE DEF group, measures
  <2> QED
    BY <1>1, ShapesAreWhole
<1>4. \A s \in derivations : IsWhole(s) /\ s.fit \in Thousandths
  <2> SUFFICES ASSUME NEW p \in pairs,
                      NEW s \in Derivations(group, columns, target, rows, failing, p[1], p[2])
               PROVE  IsWhole(s) /\ s.fit \in Thousandths
    OBVIOUS
  <2>1. p[1] \in DOMAIN columns /\ p[2] \in DOMAIN columns
    OBVIOUS
  <2> HIDE DEF group, pairs
  <2> QED
    BY <1>1, <2>1, ShapesAreWhole
<1> HIDE DEF constants, ratios, derivations, group
<1>5. \A s \in fitting : IsWhole(s) /\ s.fit \in Thousandths
  BY <1>2, <1>3, <1>4
<1>6. RelationshipEvidence(columns, target, rows, failing) \subseteq (IF fitting = {} THEN {} ELSE {top})
  BY DEF RelationshipEvidence, constants, ratios, derivations, group
<1> HIDE DEF fitting
<1>7. fitting # {} => top \in fitting
  BY <1>5, HighestFit
<1> HIDE DEF top
<1> QED
  BY <1>5, <1>6, <1>7

-----------------------------------------------------------------------------

LEMMA RangeIsFinite ==
  ASSUME NEW xs, IsFiniteSet(DOMAIN xs)
  PROVE  IsFiniteSet(Range(xs)) /\ Cardinality(Range(xs)) \in Nat
<1> DEFINE g == [x \in DOMAIN xs |-> xs[x]]
<1>2. g \in Surjection(DOMAIN xs, Range(xs))
  BY DEF Surjection, Range
<1>3. IsFiniteSet(Range(xs))
  <2> HIDE DEF g
  <2> QED
    BY <1>2, FS_Surjection
<1> QED
  BY <1>3, FS_CardinalityType

LEMMA ShapeCounts ==
  ASSUME NEW xs, IsFiniteSet(DOMAIN xs)
  PROVE  /\ Shape(xs).distinct = Cardinality(Range(xs))
         /\ Shape(xs).distinct \in Nat
         /\ Shape(xs).transitions = Shape(xs).distinct - 1
         /\ Shape(xs).distinct >= 1 => Shape(xs).supporting \in 0 .. Shape(xs).transitions
<1> DEFINE all == Range(xs)
           n == Cardinality(all)
           asc == [i \in 1 .. n |-> CHOOSE x \in all : Cardinality({y \in all : y < x}) = i - 1]
           diffs == [i \in 1 .. n - 1 |-> asc[i + 1] - asc[i]]
           Often(d) == Cardinality({i \in DOMAIN diffs : diffs[i] = d})
           mode == CHOOSE i \in DOMAIN diffs :
                     \A j \in DOMAIN diffs :
                        \/ Often(diffs[j]) < Often(diffs[i])
                        \/ Often(diffs[j]) = Often(diffs[i]) /\ i <= j
<1>1. n \in Nat
  BY RangeIsFinite
<1>2. /\ Shape(xs).distinct = n
      /\ Shape(xs).transitions = n - 1
      /\ Shape(xs).supporting = Often(diffs[mode])
  BY DEF Shape
<1>3. ASSUME n >= 1, NEW d
      PROVE  Often(d) \in 0 .. n - 1
  <2> DEFINE A == {i \in DOMAIN diffs : diffs[i] = d}
  <2>1. A \in SUBSET (1 .. n - 1)
    OBVIOUS
  <2> HIDE DEF A, n
  <2>2. 1 \in Int /\ n - 1 \in Int
    BY <1>1
  <2>3. IsFiniteSet(1 .. n - 1) /\ Cardinality(1 .. n - 1) = n - 1
    <3>1. /\ IsFiniteSet(1 .. n - 1)
          /\ Cardinality(1 .. n - 1) = IF 1 > n - 1 THEN 0 ELSE (n - 1) - 1 + 1
      BY <2>2, FS_Interval
    <3> QED
      BY <1>1, <1>3, <3>1
  <2>4. Cardinality(A) \in Nat /\ Cardinality(A) <= n - 1
    <3>1. IsFiniteSet(A) /\ Cardinality(A) <= Cardinality(1 .. n - 1)
      BY <2>1, <2>3, FS_Subset
    <3> QED
      BY <2>3, <3>1, FS_CardinalityType
  <2>5. Often(d) = Cardinality(A)
    BY DEF A, n
  <2> HIDE DEF Often
  <2> QED
    BY <1>1, <2>4, <2>5
<1> HIDE DEF n, Often, diffs, mode
<1>4. n >= 1 => Often(diffs[mode]) \in 0 .. n - 1
  BY <1>3
<1> QED
  BY <1>1, <1>2, <1>4 DEF n

\* What is proposed by either engine has the confidence that was computed.
LEMMA FilledWith ==
  \A p, v, conf : Filled(p, v, conf).value = v /\ Filled(p, v, conf).confidence = conf
  BY DEF Filled

LEMMA FamilyIsWhole ==
  ASSUME NullIsNoFunction, NEW template, NEW numbers, IsFiniteSet(DOMAIN numbers)
  PROVE  \A c \in FamilySequence(template, numbers) : IsWhole(c)
<1> DEFINE s == Shape(numbers)
           conf == (1000 * s.supporting * Min({s.distinct, 2 * MinObservations}))
                     \div (2 * MinObservations * s.transitions)
<1>1. s.distinct \in Nat /\ s.transitions = s.distinct - 1
  BY ShapeCounts
<1>2. ASSUME ~(s.distinct < 2)
      PROVE  conf \in Thousandths
  <2> DEFINE p == s.supporting
             t == s.transitions
             m == Min({s.distinct, 10})
  <2>1. t \in Nat \ {0} /\ p \in 0 .. t
    <3>1. s.distinct >= 1 /\ s.distinct - 1 \in Nat \ {0}
      BY <1>1, <1>2
    <3>2. p \in 0 .. t
      BY <3>1, ShapeCounts
    <3> QED
      BY <1>1, <3>1, <3>2
  <2>2. m \in 0 .. 10
    <3>1. s.distinct \in Int /\ 10 \in Int
      BY <1>1
    <3>2. m \in {s.distinct, 10} /\ m <= 10
      BY <3>1, MinIsOne
    <3> QED
      BY <1>1, <3>2
  <2>3. conf = (1000 * p * m) \div (10 * t)
    BY DEF MinObservations
  <2> HIDE DEF p, t, m, conf
  <2>4. p * m \in Nat /\ p * m <= 10 * t
    <3>1. p \in Nat /\ p <= t /\ m \in Nat /\ m <= 10
      BY <2>1, <2>2
    <3>2. p * m <= p * 10 /\ p * m \in Nat
      BY <3>1
    <3> QED
      BY <2>1, <3>1, <3>2
  <2> DEFINE a == 1000 * p * m
             b == 10 * t
  <2>5. a \in Nat /\ b \in Nat \ {0} /\ a <= 1000 * b
    <3>1. a = 1000 * (p * m)
      BY <2>1, <2>2
    <3> QED
      BY <2>1, <2>4, <3>1
  <2>6. conf = a \div b
    BY <2>3
  <2> HIDE DEF a, b
  <2>7. a \div b \in Nat /\ a \div b <= 1000
    BY <2>5, Quotient
  <2> QED
    BY <2>6, <2>7 DEF Thousandths
<1>3. \A n : Prefixed(template, n) # Null
  <2> SUFFICES ASSUME NEW n
               PROVE  Prefixed(template, n) # Null
    OBVIOUS
  <2> DEFINE v == Prefixed(template, n)
  <2>1. v = [x \in DOMAIN v |-> v[x]]
    BY DEF Prefixed
  <2> HIDE DEF v
  <2>2. v # Null
    BY <2>1, ValueIsNotNull
  <2> QED
    BY <2>2 DEF v
<1>4. \A c \in FamilySequence(template, numbers) :
        ~(s.distinct < 2) /\ \E n : c.value = Prefixed(template, n) /\ c.confidence = conf
  <2>1. s.distinct < 2 => FamilySequence(template, numbers) = {}
    BY DEF FamilySequence
  <2>2. \A c \in FamilySequence(template, numbers) :
          \E p : c = Filled(p, Prefixed(template, p.slot), conf)
    <3> DEFINE missing == Slots(s.lo, s.hi + s.step, s.step) \ Range(numbers)
               slots == Propose(missing, s.repeats, s.supporting, s.hi + s.step)
               filled == {Filled(p, Prefixed(template, p.slot), conf) : p \in slots}
    <3>1. FamilySequence(template, numbers) = {} \/ FamilySequence(template, numbers) = filled
      BY DEF FamilySequence
    <3>2. \A c \in filled : \E p : c = Filled(p, Prefixed(template, p.slot), conf)
      <4> HIDE DEF slots, conf
      <4> QED
        OBVIOUS
    <3> HIDE DEF filled, conf
    <3> QED
      BY <3>1, <3>2
  <2> HIDE DEF conf, s
  <2> QED
    BY <2>1, <2>2, FilledWith
<1> HIDE DEF conf, s
<1> QED
  BY <1>2, <1>3, <1>4 DEF IsWhole

LEMMA SequenceIsWhole ==
  ASSUME NullIsNoFunction, NEW given, IsFiniteSet(DOMAIN given)
  PROVE  \A c \in SequenceEvidence(given) : IsWhole(c)
<1> DEFINE parsed == {i \in DOMAIN given : IsIdentifier(given[i])}
           Family(f) == {i \in parsed : Prefixed(given[i], 0) = f}
           Numbers(f) == [i \in Family(f) |-> given[i].text[NumberAt(f)].n]
<1>1. \A c \in SequenceEvidence(given) : \E f : c \in FamilySequence(f, Numbers(f))
  BY DEF SequenceEvidence
<1>2. ASSUME NEW f
      PROVE  \A c \in FamilySequence(f, Numbers(f)) : IsWhole(c)
  <2>1. Family(f) \in SUBSET DOMAIN given
    OBVIOUS
  <2>2. IsFiniteSet(Family(f))
    <3> HIDE DEF Family
    <3> QED
      BY <2>1, FS_Subset
  <2>3. DOMAIN Numbers(f) = Family(f)
    OBVIOUS
  <2> HIDE DEF Numbers, Family
  <2> QED
    BY <2>2, <2>3, FamilyIsWhole
<1> QED
  BY <1>1, <1>2

LEMMA TemporalConfidenceIsThousandths ==
  ASSUME NEW xs, IsFiniteSet(DOMAIN xs)
  PROVE  TemporalConfidence(xs) \in Thousandths
<1> DEFINE n == Cardinality(Range(xs))
           m == Min({n, 6})
<1>1. n \in Nat
  BY RangeIsFinite
<1>2. m \in 0 .. 6
  <2> HIDE DEF n
  <2>1. n \in Int /\ 6 \in Int
    BY <1>1
  <2>2. m \in {n, 6} /\ m <= 6
    BY <2>1, MinIsOne
  <2> QED
    BY <1>1, <2>2
<1>3. TemporalConfidence(xs) = (1000 * m) \div 6
  BY DEF TemporalConfidence, MinSupporting
<1> HIDE DEF m
<1>4. (1000 * m) \div 6 \in 0 .. 1000
  BY <1>2
<1> QED
  BY <1>3, <1>4 DEF Thousandths

LEMMA TemporalIsWhole ==
  ASSUME NullIsNoFunction, NEW given, IsFiniteSet(DOMAIN given)
  PROVE  \A c \in TemporalEvidence(given) : IsWhole(c)
<1>0. \A x, z : [at |-> x, z |-> z] # Null
  BY ValueIsNotNull
<1>1. \A c \in FixedInterval(given) : IsWhole(c)
  <2> DEFINE hours == [i \in DOMAIN given |-> Instant(given[i])]
             conf == TemporalConfidence(hours)
  <2>1. conf \in Thousandths
    <3>1. DOMAIN hours = DOMAIN given
      OBVIOUS
    <3> HIDE DEF hours
    <3> QED
      BY <3>1, TemporalConfidenceIsThousandths
  <2> DEFINE Dated(p) == [at |-> p.slot, z |-> Example(given).z]
  <2>2. \A c \in FixedInterval(given) : c.confidence = conf /\ \E p : c.value = Dated(p)
    <3>1. \A c \in FixedInterval(given) : \E p : c = Filled(p, Dated(p), conf)
      BY DEF FixedInterval
    <3> HIDE DEF conf, Dated
    <3> QED
      BY <3>1, FilledWith
  <2>3. \A p : Dated(p) # Null
    BY <1>0
  <2> HIDE DEF conf, Dated
  <2> QED
    BY <2>1, <2>2, <2>3 DEF IsWhole
<1>2. \A c \in YearInterval(given) : IsWhole(c)
  <2> DEFINE years == [i \in DOMAIN given |-> given[i].m \div 12]
             conf == TemporalConfidence(years)
  <2>1. conf \in Thousandths
    <3>1. DOMAIN years = DOMAIN given
      OBVIOUS
    <3> HIDE DEF years
    <3> QED
      BY <3>1, TemporalConfidenceIsThousandths
  <2>2. \A c \in YearInterval(given) : c.confidence = conf /\ \E v, m, d : c.value = Written(v, m, d)
    <3>1. \A c \in YearInterval(given) : \E p, v, m, d : c = Filled(p, Written(v, m, d), conf)
      BY DEF YearInterval
    <3> HIDE DEF conf
    <3> QED
      BY <3>1, FilledWith
  <2> HIDE DEF conf
  <2> QED
    BY <1>0, <2>1, <2>2 DEF IsWhole, Written
<1>3. \A c \in MonthInterval(given) : IsWhole(c)
  <2> DEFINE months == [i \in DOMAIN given |-> given[i].m]
             conf == TemporalConfidence(months)
  <2>1. conf \in Thousandths
    <3>1. DOMAIN months = DOMAIN given
      OBVIOUS
    <3> HIDE DEF months
    <3> QED
      BY <3>1, TemporalConfidenceIsThousandths
  <2>2. \A c \in MonthInterval(given) : c.confidence = conf /\ \E v, m, d : c.value = Written(v, m, d)
    <3>1. \A c \in MonthInterval(given) : \E p, v, m, d : c = Filled(p, Written(v, m, d), conf)
      BY DEF MonthInterval
    <3> HIDE DEF conf
    <3> QED
      BY <3>1, FilledWith
  <2> HIDE DEF conf
  <2> QED
    BY <1>0, <2>1, <2>2 DEF IsWhole, Written
<1> QED
  BY <1>1, <1>2, <1>3 DEF TemporalEvidence

LEMMA TemplateIsWhole ==
  ASSUME NullIsNoFunction, NEW src, NEW tgt, NEW query, IsFiniteSet(DOMAIN src)
  PROVE  \A c \in TemplateEvidence(src, tgt, query) : IsWhole(c)
<1> DEFINE usable == {k \in DOMAIN src : tgt[k] # Null /\ Tokens(src[k]) # <<>>}
           conf == (1000 * Min({Cardinality(usable), 2 * MinPairs})) \div (2 * MinPairs)
<1>1. Cardinality(usable) \in Nat
  <2>1. usable \in SUBSET DOMAIN src
    OBVIOUS
  <2> HIDE DEF usable
  <2> QED
    BY <2>1, FS_Subset, FS_CardinalityType
<1>2. conf \in Thousandths
  <2> DEFINE n == Cardinality(usable)
             m == Min({n, 6})
  <2>1. m \in 0 .. 6
    <3> HIDE DEF n
    <3>1. n \in Int /\ 6 \in Int
      BY <1>1 DEF n
    <3>2. m \in {n, 6} /\ m <= 6
      BY <3>1, MinIsOne
    <3> QED
      BY <1>1, <3>2 DEF n
  <2>2. conf = (1000 * m) \div 6
    BY DEF MinPairs
  <2> HIDE DEF m, conf
  <2>3. (1000 * m) \div 6 \in 0 .. 1000
    BY <2>1
  <2> QED
    BY <2>2, <2>3 DEF Thousandths
<1>3. \A h, q : Predict(h, q) # Null
  BY ValueIsNotNull DEF Predict
<1>4. \A c \in TemplateEvidence(src, tgt, query) : (\E h : c.value = Predict(h, query)) /\ c.confidence = conf
  BY DEF TemplateEvidence
<1> HIDE DEF conf
<1> QED
  BY <1>2, <1>3, <1>4 DEF IsWhole

-----------------------------------------------------------------------------

LEMMA AggregateIsOne ==
  ASSUME NEW candidates, \A c \in candidates : IsWhole(c)
  PROVE  Aggregate(candidates) \subseteq candidates
<1> DEFINE Best == {c \in candidates : \A d \in candidates : c.confidence >= d.confidence}
           top == CHOOSE c \in Best : TRUE
<1>1. candidates # {} => Best # {}
  BY HighestConfidence DEF IsWhole
<1>2. candidates # {} => top \in candidates
  BY <1>1
<1>3. Aggregate(candidates) \subseteq (IF candidates = {} THEN {} ELSE {top})
  BY DEF Aggregate
<1> HIDE DEF top
<1> QED
  BY <1>2, <1>3

LEMMA AdvancedIsWhole ==
  ASSUME NullIsNoFunction, NEW columns, Target \in DOMAIN columns, NEW rule, NEW rows,
         HoldNumbers(columns, rows), NEW failing, NEW siblings
  PROVE  \A c \in AdvancedEvidence(columns, rule, rows, failing, siblings).best : IsWhole(c)
<1> DEFINE engines == Applicable(columns[Target].type, rule)
           own == OwnValues(rows, failing)
           Matching(S) == {c \in S : StrategyMatchesRule(c.strategy, rule)}
           all == (IF "RELATIONSHIP" \in engines
                     THEN RelationshipEvidence(columns, Target, rows, failing) ELSE {})
                  \union (IF "SEQUENCE" \in engines THEN Matching(SequenceEvidence(own)) ELSE {})
                  \union (IF "TEMPORAL" \in engines THEN Matching(TemporalEvidence(own)) ELSE {})
                  \union (IF "TEMPLATE" \in engines
                            THEN TemplateCandidates(columns, rows, failing, siblings) ELSE {})
<1>1. \A c \in RelationshipEvidence(columns, Target, rows, failing) : IsWhole(c)
  BY RelationshipIsWhole
<1>2. IsFiniteSet(DOMAIN own)
  <2> DEFINE others == {k \in DOMAIN rows : rows[k] # failing}
             A == {<<k>> : k \in others}
             g == [k \in others |-> <<k>>]
  <2>1. others \in SUBSET DOMAIN rows /\ IsFiniteSet(DOMAIN rows)
    BY DEF HoldNumbers
  <2>2. IsFiniteSet(others)
    <3> HIDE DEF others
    <3> QED
      BY <2>1, FS_Subset
  <2>3. g \in Surjection(others, A)
    BY DEF Surjection
  <2>4. IsFiniteSet(A)
    <3> HIDE DEF others, A, g
    <3> QED
      BY <2>2, <2>3, FS_Surjection
  <2> DEFINE B == A \union {<<>>}
  <2>5. IsFiniteSet(B)
    <3> HIDE DEF A
    <3> QED
      BY <2>4, FS_AddElement
  <2>6. DOMAIN own \in SUBSET B
    BY DEF OwnValues
  <2> HIDE DEF B, own
  <2> QED
    BY <2>5, <2>6, FS_Subset
<1>3. \A c \in SequenceEvidence(own) : IsWhole(c)
  <2> HIDE DEF own
  <2> QED
    BY <1>2, SequenceIsWhole
<1>4. \A c \in TemporalEvidence(own) : IsWhole(c)
  <2> HIDE DEF own
  <2> QED
    BY <1>2, TemporalIsWhole
<1>5. \A c \in TemplateCandidates(columns, rows, failing, siblings) : IsWhole(c)
  <2> DEFINE training == {k \in DOMAIN rows \ siblings : rows[k] # failing /\ rows[k][Target] # Null}
             Cells(c) == [k \in training |-> rows[k][c]]
  <2>1. \A c \in TemplateCandidates(columns, rows, failing, siblings) :
          \E d : c \in TemplateEvidence(Cells(d), Cells(Target), failing[d])
    BY DEF TemplateCandidates
  <2>2. ASSUME NEW d
        PROVE  \A c \in TemplateEvidence(Cells(d), Cells(Target), failing[d]) : IsWhole(c)
    <3>1. training \in SUBSET DOMAIN rows /\ IsFiniteSet(DOMAIN rows)
      BY DEF HoldNumbers
    <3>2. IsFiniteSet(training)
      <4> HIDE DEF training
      <4> QED
        BY <3>1, FS_Subset
    <3>3. DOMAIN Cells(d) = training
      OBVIOUS
    <3> HIDE DEF Cells, training
    <3> QED
      BY <3>2, <3>3, TemplateIsWhole
  <2> QED
    BY <2>1, <2>2
<1>6. \A c \in all : IsWhole(c)
  <2> HIDE DEF engines, own
  <2> QED
    BY <1>1, <1>3, <1>4, <1>5
<1>7. AdvancedEvidence(columns, rule, rows, failing, siblings).best = Aggregate(all)
  BY DEF AdvancedEvidence
<1> HIDE DEF all
<1> QED
  BY <1>6, <1>7, AggregateIsOne

\* The numbers of a version are those of the table.
LEMMA VersionsHoldNumbers ==
  ASSUME NEW t \in Tables, NEW rows, AreVersions(t, rows)
  PROVE  HoldNumbers(t.columns, rows)
<1>1. IsFiniteSet(DOMAIN rows)
  <2>1. DOMAIN rows \in SUBSET DOMAIN t.rows /\ IsFiniteSet(DOMAIN t.rows)
    BY NumbersAreWritten DEF AreVersions
  <2> QED
    BY <2>1, FS_Subset
<1>2. ASSUME NEW k \in DOMAIN rows, NEW c \in DOMAIN t.columns, IsNumber(t.columns, rows[k], c)
      PROVE  Number(rows[k], c) \in Int
  <2>1. k \in DOMAIN t.rows /\ IsVersion(t, k, rows[k])
    BY DEF AreVersions
  <2>2. \A j \in DOMAIN t.rows : IsNumber(t.columns, t.rows[j], c) => Number(t.rows[j], c) \in Int
    BY NumbersAreWritten
  <2>3. \E j \in DOMAIN t.rows : rows[k][c] = t.rows[j][c]
    <3>1. CASE rows[k] = t.rows[k]
      BY <2>1, <3>1
    <3>2. CASE rows[k] # t.rows[k]
      <4>1. PICK v \in {t.rows[j][Target] : j \in DOMAIN t.rows} \union {Null} :
              rows[k] = [t.rows[k] EXCEPT ![Target] = v]
        BY <2>1, <3>2 DEF IsVersion
      <4>2. DOMAIN t.rows[k] = DOMAIN t.columns
        BY <2>1, RowsFillTheirColumns
      <4>3. CASE c # Target
        BY <2>1, <4>1, <4>3, <4>2
      <4>4. CASE c = Target
        <5>1. rows[k][c] = v
          BY <4>1, <4>2, <4>4
        <5>2. v # Null
          BY <1>2, <5>1 DEF IsNumber
        <5> QED
          BY <4>4, <5>1, <5>2
      <4> QED
        BY <4>3, <4>4
    <3> QED
      BY <3>1, <3>2
  <2>4. PICK j \in DOMAIN t.rows : rows[k][c] = t.rows[j][c]
    BY <2>3
  <2>5. IsNumber(t.columns, t.rows[j], c) /\ Number(rows[k], c) = Number(t.rows[j], c)
    BY <1>2, <2>4 DEF IsNumber, Number
  <2> QED
    BY <2>2, <2>5
<1> QED
  BY <1>1, <1>2 DEF HoldNumbers

\* Every candidate that the engines recommend from versions of a table's rows
\* has a value, and a confidence between 0 and 1 (EvidenceCandidate of
\* candidates.py:44-77).
THEOREM EnginesSayWhole ==
  ASSUME NullIsNoFunction, NEW t \in Tables, NEW k, NEW rows, AreVersions(t, rows), NEW row
  PROVE  \A c \in Recommended(t, k, rows, row) : IsWhole(c)
<1>1. Target \in DOMAIN t.columns /\ HoldNumbers(t.columns, rows)
  BY VersionsHoldNumbers, RowsFillTheirColumns
<1>2. \A c \in RelationshipEvidence(t.columns, Target, rows, row) : IsWhole(c)
  BY <1>1, RelationshipIsWhole
<1>3. \A c \in AdvancedEvidence(t.columns, t.rule, rows, row, t.issues \ {k}).best : IsWhole(c)
  BY <1>1, AdvancedIsWhole
<1> QED
  BY <1>2, <1>3 DEF Recommended

-----------------------------------------------------------------------------
(* What is stored.                                                         *)

WholeEvidence(e) == e # NoEvidence => \A c \in e.best : IsWhole(c)

\* What ConfidentIsDerived says of one suggestion.
IsDerived(kept, e) ==
    LET agreed == {c \in e.best : c.value = kept.value}
    IN /\ kept.category = "AI_HIGH_CONFIDENCE" => kept.value # Null
       /\ e # NoEvidence =>
            /\ kept.value # Null => agreed # {}
            /\ kept.category = "AI_HIGH_CONFIDENCE" =>
                 \E c \in agreed : kept.confidence <= c.confidence
            /\ table.engine = "ADVANCED" /\ e.best # {} => kept.value # Null

\* A confidence that is kept is never above the candidate's.
LEMMA CappedIsDerived ==
  ASSUME NEW answer, answer.confidence \in Int \union {Null}, NEW c, IsWhole(c)
  PROVE  /\ Capped(answer, c).category = "AI_HIGH_CONFIDENCE"
         /\ Capped(answer, c).value = c.value
         /\ Capped(answer, c).confidence <= c.confidence
<1>0. c.confidence \in Int
  BY DEF IsWhole, Thousandths
<1>1. CASE answer.confidence = Null
  BY <1>0, <1>1 DEF Capped
<1>2. CASE answer.confidence # Null
  <2>1. Min({answer.confidence, c.confidence}) <= c.confidence
    <3>1. answer.confidence \in Int
      BY <1>2
    <3> QED
      BY <1>0, <3>1, MinIsOne
  <2> QED
    BY <1>2, <2>1 DEF Capped
<1> QED
  BY <1>1, <1>2

LEMMA ParsedAnswer ==
  ASSUME NEW answer, answer.confidence \in Int \union {Null}
  PROVE  /\ Parse(answer).category = "AI_HIGH_CONFIDENCE" =>
              Parse(answer) = answer /\ answer.value # Null
         /\ Parse(answer).category # "AI_HIGH_CONFIDENCE" => Parse(answer).value = Null
<1>1. CASE answer.category = "AI_HIGH_CONFIDENCE"
  BY <1>1 DEF Parse, NeedsReview
<1>2. CASE answer.category \in {"NEEDS_REVIEW", "CANNOT_INFER"}
  BY <1>2 DEF Parse, NeedsReview
<1>3. CASE answer.category \notin {"AI_HIGH_CONFIDENCE", "NEEDS_REVIEW", "CANNOT_INFER"}
  <2>1. Parse(answer) = NeedsReview
    BY <1>3 DEF Parse
  <2> QED
    BY <2>1 DEF NeedsReview
<1> QED
  BY <1>1, <1>2, <1>3

LEMMA KeptIsDerived ==
  ASSUME NEW answer, answer.confidence \in Int \union {Null},
         NEW e, WholeEvidence(e)
  PROVE  IsDerived(Kept(answer, e), e)
<1> DEFINE p == Parse(answer)
           k == Kept(answer, e)
<1>1. /\ p.category = "AI_HIGH_CONFIDENCE" => p = answer /\ p.value # Null
      /\ p.category # "AI_HIGH_CONFIDENCE" => p.value = Null
  BY ParsedAnswer
<1>2. k = IF table.engine = "ADVANCED" THEN ApplyAdvancedSafety(p, e) ELSE ApplyEvidenceSafety(p, e)
  BY DEF Kept
<1>3. /\ NeedsReview.category # "AI_HIGH_CONFIDENCE" /\ NeedsReview.value = Null
      /\ \A x : /\ [NeedsReview EXCEPT !.value = x].category # "AI_HIGH_CONFIDENCE"
                /\ [NeedsReview EXCEPT !.value = x].value = x
                /\ [NeedsReview EXCEPT !.category = x].category = x
                /\ [NeedsReview EXCEPT !.category = x].value = Null
  BY DEF NeedsReview
<1> HIDE DEF p, k
<1>4. CASE e = NoEvidence
  <2>1. k = p
    BY <1>2, <1>4 DEF ApplyAdvancedSafety, ApplyEvidenceSafety
  <2> QED
    BY <1>1, <1>4, <2>1 DEF IsDerived, k
<1>5. CASE e # NoEvidence /\ table.engine # "ADVANCED"
  <2> DEFINE agreed == {c \in e.best : c.value = p.value}
  <2>1. CASE p.category # "AI_HIGH_CONFIDENCE"
    <3>1. k = p
      BY <1>2, <1>5, <2>1 DEF ApplyEvidenceSafety
    <3> QED
      BY <1>1, <1>5, <2>1, <3>1 DEF IsDerived, k
  <2>2. CASE p.category = "AI_HIGH_CONFIDENCE" /\ agreed = {}
    <3>1. k = NeedsReview
      BY <1>2, <1>5, <2>2 DEF ApplyEvidenceSafety
    <3> QED
      BY <1>3, <1>5, <3>1 DEF IsDerived, k
  <2>3. CASE p.category = "AI_HIGH_CONFIDENCE" /\ agreed # {}
    <3>1. PICK c \in agreed : k = Capped(p, c)
      <4>1. k = Capped(p, CHOOSE c \in agreed : TRUE)
        BY <1>2, <1>5, <2>3 DEF ApplyEvidenceSafety
      <4>2. (CHOOSE c \in agreed : TRUE) \in agreed
        BY <2>3
      <4> QED
        BY <4>1, <4>2
    <3>2. IsWhole(c) /\ c \in e.best /\ c.value = p.value /\ p.value # Null
      BY <1>1, <1>5, <2>3 DEF WholeEvidence
    <3>3. k.value = c.value /\ k.confidence <= c.confidence
      BY <1>1, <2>3, <3>1, <3>2, CappedIsDerived
    <3> QED
      BY <1>5, <3>2, <3>3 DEF IsDerived, k
  <2> QED
    BY <2>1, <2>2, <2>3
<1>6. CASE e # NoEvidence /\ table.engine = "ADVANCED"
  <2>1. CASE e.best = {}
    <3>1. k.category # "AI_HIGH_CONFIDENCE" /\ k.value = Null
      BY <1>2, <1>3, <1>6, <2>1 DEF ApplyAdvancedSafety
    <3> QED
      BY <1>6, <2>1, <3>1 DEF IsDerived, k
  <2>2. CASE e.best # {}
    <3> DEFINE c == CHOOSE d \in e.best : TRUE
    <3>1. c \in e.best /\ IsWhole(c)
      BY <1>6, <2>2 DEF WholeEvidence
    <3>2. k = IF p.category = "AI_HIGH_CONFIDENCE" /\ p.value = c.value
              THEN Capped(p, c) ELSE [NeedsReview EXCEPT !.value = c.value]
      BY <1>2, <1>6, <2>2 DEF ApplyAdvancedSafety
    <3> HIDE DEF c
    <3>3. CASE p.category = "AI_HIGH_CONFIDENCE" /\ p.value = c.value
      <4>1. k.value = c.value /\ k.confidence <= c.confidence
        BY <1>1, <3>1, <3>2, <3>3, CappedIsDerived
      <4> QED
        BY <1>6, <3>1, <4>1 DEF IsDerived, k, IsWhole
    <3>4. CASE ~(p.category = "AI_HIGH_CONFIDENCE" /\ p.value = c.value)
      <4>1. k.value = c.value /\ k.category # "AI_HIGH_CONFIDENCE"
        BY <1>3, <3>2, <3>4
      <4> QED
        BY <1>6, <3>1, <4>1 DEF IsDerived, k, IsWhole
    <3> QED
      BY <3>3, <3>4
  <2> QED
    BY <2>1, <2>2
<1> QED
  BY <1>4, <1>5, <1>6

\* The source holds versions of the rows of its table, the evidence was read
\* of them, and what is stored was derived from its evidence.
SourceInv ==
    /\ table \in Tables
    /\ AreVersions(table, source)

EvidenceOf(b) ==
    /\ batch[b].step \in {"fetch", "sample", "ask", "write"} =>
         batch[b].issue \in table.issues
    /\ batch[b].step \in {"next", "fetch", "sample"} => batch[b].evidence = NoEvidence
    /\ batch[b].step = "sample" => IsVersion(table, batch[b].issue, batch[b].row)
    /\ batch[b].step = "ask" => WholeEvidence(batch[b].evidence)
    /\ batch[b].step = "write" => IsDerived(batch[b].outcome, batch[b].evidence)

EvidenceInv == \A b \in Batches : EvidenceOf(b)

StoredInv ==
    \A i \in DOMAIN suggestions : IsDerived(suggestions[i].kept, suggestions[i].evidence)

DerivedInv == SourceInv /\ EvidenceInv /\ StoredInv

\* A cell of a version is one the table had, or none.
LEMMA CellsOfVersions ==
  ASSUME NEW t \in Tables, NEW k \in DOMAIN t.rows, NEW row, IsVersion(t, k, row),
         NEW v
  PROVE  /\ row[Target] \in {t.rows[j][Target] : j \in DOMAIN t.rows} \union {Null}
         /\ v \in {t.rows[j][Target] : j \in DOMAIN t.rows} \union {Null} =>
              IsVersion(t, k, [row EXCEPT ![Target] = v])
<1> DEFINE Cells == {t.rows[j][Target] : j \in DOMAIN t.rows} \union {Null}
<1>1. Target \in DOMAIN t.rows[k]
  BY RowsFillTheirColumns
<1>2. CASE row = t.rows[k]
  BY <1>2 DEF IsVersion
<1>3. CASE \E w \in Cells : row = [t.rows[k] EXCEPT ![Target] = w]
  <2>1. PICK w \in Cells : row = [t.rows[k] EXCEPT ![Target] = w]
    BY <1>3
  <2>2. row[Target] = w
    BY <1>1, <2>1
  <2>3. [row EXCEPT ![Target] = v] = [t.rows[k] EXCEPT ![Target] = v]
    BY <1>1, <2>1
  <2> QED
    BY <2>2, <2>3 DEF IsVersion
<1> QED
  BY <1>2, <1>3 DEF IsVersion

LEMMA SourceInvHolds ==
  ASSUME SourceInv, [Next]_vars
  PROVE  SourceInv'
<1>1. CASE SourceChanges
  <2>1. table' = table /\ table \in Tables
    BY <1>1 DEF SourceChanges, SourceInv
  <2>2. PICK k \in DOMAIN source :
          \/ source' = [j \in DOMAIN source \ {k} |-> source[j]]
          \/ \E v \in {source[j][Target] : j \in DOMAIN source} \union {Null} :
               source' = [source EXCEPT ![k][Target] = v]
    BY <1>1 DEF SourceChanges
  <2>3. /\ DOMAIN source \subseteq DOMAIN table.rows
        /\ \A j \in DOMAIN source : IsVersion(table, j, source[j])
    BY DEF SourceInv, AreVersions
  <2>4. CASE source' = [j \in DOMAIN source \ {k} |-> source[j]]
    BY <2>1, <2>3, <2>4 DEF SourceInv, AreVersions, IsVersion
  <2>5. CASE \E v \in {source[j][Target] : j \in DOMAIN source} \union {Null} :
               source' = [source EXCEPT ![k][Target] = v]
    <3>1. PICK v \in {source[j][Target] : j \in DOMAIN source} \union {Null} :
            source' = [source EXCEPT ![k][Target] = v]
      BY <2>5
    <3>2. v \in {table.rows[j][Target] : j \in DOMAIN table.rows} \union {Null}
      BY <2>1, <2>3, CellsOfVersions
    <3>3. IsVersion(table, k, [source[k] EXCEPT ![Target] = v])
      BY <2>1, <2>3, <3>2, CellsOfVersions
    <3>4. /\ DOMAIN source' = DOMAIN source
          /\ \A j \in DOMAIN source :
               source'[j] = IF j = k THEN [source[k] EXCEPT ![Target] = v] ELSE source[j]
      BY <3>1
    <3>5. \A j \in DOMAIN source : IsVersion(table, j, source'[j])
      BY <2>3, <3>3, <3>4
    <3>6. AreVersions(table, source')
      BY <2>3, <3>4, <3>5 DEF AreVersions
    <3> QED
      BY <2>1, <3>6 DEF SourceInv, AreVersions, IsVersion
  <2> QED
    BY <2>2, <2>4, <2>5
<1>2. CASE ~SourceChanges
  <2>1. UNCHANGED <<table, source>>
    BY <1>2 DEF Next, BatchStep, vars, Generate, NextIssue, Finish, FetchRow, NothingGathered,
                SampleRows, Answer, FailAfterCall, FailBeforeCall, Write, Crash
  <2> QED
    BY <2>1 DEF SourceInv, AreVersions, IsVersion
<1> QED
  BY <1>1, <1>2

\* Nothing was derived from nothing, and nothing is said.
LEMMA CannotInferIsDerived ==
  /\ WholeEvidence(NoEvidence)
  /\ IsDerived(CannotInfer, NoEvidence)
  BY DEF WholeEvidence, IsDerived, CannotInfer

LEMMA SampleIsWhole ==
  ASSUME BatchShape, SourceInv, NEW b \in Batches, EvidenceOf(b), SampleRows(b),
         NullIsNoFunction
  PROVE  WholeEvidence(batch'[b].evidence)
<1>1. PICK S \in SUBSET DOMAIN source :
        batch'[b].evidence
          = Gathered([k \in S |-> source[k]], batch[b].row, batch[b].issue)
  BY SampleRowsMoves
<1> DEFINE rows == [k \in S |-> source[k]]
           k    == batch[b].issue
           row  == batch[b].row
<1>2. AreVersions(table, rows)
  BY DEF SourceInv, AreVersions
<1>3. table \in Tables /\ k \in table.issues /\ IsVersion(table, k, row)
  BY DEF SampleRows, SourceInv, EvidenceOf
<1> HIDE DEF rows, k, row
<1>4. \A c \in Recommended(table, k, rows, row) : IsWhole(c)
  BY <1>2, <1>3, EnginesSayWhole
<1>5. Gathered(rows, row, k).best = Recommended(table, k, rows, row)
  BY DEF Gathered, RelationshipOnly, Recommended, AdvancedEvidence
<1>6. WholeEvidence(Gathered(rows, row, k))
  BY <1>4, <1>5 DEF WholeEvidence
<1> QED
  BY <1>1, <1>6 DEF rows, row, k

LEMMA EvidenceOfOneHolds ==
  ASSUME AccountInv, SourceInv, NEW b \in Batches, EvidenceOf(b), BatchStep(b),
         NullIsNoFunction
  PROVE  LET new == batch'[b]
         IN /\ new.step \in {"fetch", "sample", "ask", "write"} => new.issue \in table.issues
            /\ new.step \in {"next", "fetch", "sample"} => new.evidence = NoEvidence
            /\ new.step = "sample" => IsVersion(table, new.issue, new.row)
            /\ new.step = "ask" => WholeEvidence(new.evidence)
            /\ new.step = "write" => IsDerived(new.outcome, new.evidence)
<1>0. BatchShape
  BY DEF AccountInv
<1> DEFINE new == batch'[b]
<1>1. CASE Generate(b) \/ Finish(b) \/ Crash(b) \/ Write(b)
  <2>1. new.step \in {"next", "idle"} /\ new.evidence = NoEvidence
    BY <1>0, <1>1, GenerateMoves, EndMoves, WriteMoves, IdleIsABatch
  <2> QED
    BY <2>1
<1>2. CASE NextIssue(b)
  <2>1. /\ new.step \in {"ask", "fetch"} /\ new.issue \in batch[b].todo
        /\ new.evidence = NoEvidence
    BY <1>0, <1>2, NextIssueMoves
  <2>2. batch[b].todo \subseteq table.issues
    BY <1>2 DEF NextIssue, AccountInv, WorkInv, WorkOf, Ahead
  <2> QED
    BY <2>1, <2>2, CannotInferIsDerived
<1>3. CASE FetchRow(b)
  <2>1. /\ batch[b].issue \in table.issues /\ batch[b].evidence = NoEvidence
        /\ new.issue = batch[b].issue /\ new.evidence = batch[b].evidence
        /\ \/ new.step = "ask"
           \/ new.step = "sample" /\ new.row = source[batch[b].issue] /\ batch[b].issue \in DOMAIN source
    BY <1>0, <1>3, FetchRowMoves DEF EvidenceOf, GoesOn
  <2>2. new.step = "sample" => IsVersion(table, new.issue, new.row)
    BY <2>1 DEF SourceInv, AreVersions
  <2> QED
    BY <2>1, <2>2, CannotInferIsDerived
<1>4. CASE NothingGathered(b)
  <2>1. /\ batch[b].issue \in table.issues /\ batch[b].evidence = NoEvidence
        /\ new.issue = batch[b].issue /\ new.evidence = batch[b].evidence
        /\ new.step = "ask"
    BY <1>0, <1>4, NothingGatheredMoves DEF EvidenceOf, GoesOn
  <2> QED
    BY <2>1, CannotInferIsDerived
<1>5. CASE SampleRows(b)
  <2>1. /\ new.step = "ask" /\ new.issue = batch[b].issue /\ batch[b].issue \in table.issues
    BY <1>0, <1>5, SampleRowsMoves DEF EvidenceOf, GoesOn
  <2>2. WholeEvidence(new.evidence)
    BY <1>0, <1>5, SampleIsWhole
  <2> QED
    BY <2>1, <2>2
<1>6. CASE Answer(b)
  <2>1. PICK answer \in Answers(batch[b].evidence) :
          new.outcome = Kept(answer, batch[b].evidence)
    BY <1>0, <1>6, AnswerMoves
  <2>2. answer.confidence \in Int \union {Null}
    BY ConfidencesAreNumbers DEF Answers
  <2>3. /\ batch[b].step = "ask" /\ new.step = "write"
        /\ new.evidence = batch[b].evidence /\ new.issue = batch[b].issue
    BY <1>0, <1>6, AnswerMoves DEF GoesOn
  <2>4. IsDerived(Kept(answer, batch[b].evidence), batch[b].evidence)
        /\ batch[b].issue \in table.issues
    BY <2>2, <2>3, KeptIsDerived DEF EvidenceOf
  <2> QED
    BY <2>1, <2>3, <2>4
<1>7. CASE FailAfterCall(b) \/ (FailBeforeCall(b) /\ table.prompt)
  <2>1. /\ new.step = "write" /\ new.outcome = CannotInfer
        /\ new.evidence = NoEvidence /\ new.issue = batch[b].issue
        /\ batch[b].step \in {"fetch", "ask"}
    BY <1>0, <1>7, FailAfterCallMoves, FailBeforeCallMoves DEF GoesOn
  <2> QED
    BY <2>1, CannotInferIsDerived DEF EvidenceOf
<1>8. CASE FailBeforeCall(b) /\ ~table.prompt
  <2>1. new.step = "next" /\ new.evidence = NoEvidence
    BY <1>0, <1>8, FailBeforeCallMoves
  <2> QED
    BY <2>1
<1> QED
  BY <1>1, <1>2, <1>3, <1>4, <1>5, <1>6, <1>7, <1>8 DEF BatchStep

\* What holds of the record a batch has after a step, in the words of the next
\* state.
LEMMA EvidenceOfNext ==
  ASSUME NEW c \in Batches, table' = table, NEW new, new = batch'[c],
         new.step \in {"fetch", "sample", "ask", "write"} => new.issue \in table.issues,
         new.step \in {"next", "fetch", "sample"} => new.evidence = NoEvidence,
         new.step = "sample" => IsVersion(table, new.issue, new.row),
         new.step = "ask" => WholeEvidence(new.evidence),
         new.step = "write" => IsDerived(new.outcome, new.evidence)
  PROVE  EvidenceOf(c)'
<1>1. new.step = "sample" => IsVersion(table, batch[c].issue, batch[c].row)'
  BY DEF IsVersion
<1>2. new.step = "ask" => WholeEvidence(batch[c].evidence)'
  BY DEF WholeEvidence, IsWhole
<1>3. new.step = "write" => IsDerived(batch[c].outcome, batch[c].evidence)'
  BY DEF IsDerived
<1> QED
  BY <1>1, <1>2, <1>3 DEF EvidenceOf

LEMMA EvidenceInvHolds ==
  ASSUME AccountInv, SourceInv, EvidenceInv, [Next]_vars, NullIsNoFunction
  PROVE  EvidenceInv'
<1>0. table' = table /\ BatchShape
  BY ShapeHolds DEF AccountInv
<1>1. ASSUME NEW b \in Batches, BatchStep(b), NEW c \in Batches
      PROVE  EvidenceOf(c)'
  <2>1. PICK new : new = batch'[c]
    OBVIOUS
  <2>2. /\ new.step \in {"fetch", "sample", "ask", "write"} => new.issue \in table.issues
        /\ new.step \in {"next", "fetch", "sample"} => new.evidence = NoEvidence
        /\ new.step = "sample" => IsVersion(table, new.issue, new.row)
        /\ new.step = "ask" => WholeEvidence(new.evidence)
        /\ new.step = "write" => IsDerived(new.outcome, new.evidence)
    <3>1. CASE c = b
      BY <1>1, <2>1, <3>1, EvidenceOfOneHolds DEF EvidenceInv
    <3>2. CASE c # b
      <4>1. new = batch[c]
        BY <1>0, <1>1, <2>1, <3>2, StepMoves DEF OnlyMoves
      <4> QED
        BY <4>1 DEF EvidenceInv, EvidenceOf
    <3> QED
      BY <3>1, <3>2
  <2> QED
    BY <1>0, <2>1, <2>2, EvidenceOfNext
<1>2. CASE SourceChanges \/ UNCHANGED vars
  <2>1. batch' = batch
    BY <1>2 DEF SourceChanges, vars
  <2>2. ASSUME NEW c \in Batches
        PROVE  EvidenceOf(c)'
    <3>1. PICK new : new = batch[c] /\ new = batch'[c]
      BY <2>1
    <3>2. /\ new.step \in {"fetch", "sample", "ask", "write"} => new.issue \in table.issues
          /\ new.step \in {"next", "fetch", "sample"} => new.evidence = NoEvidence
          /\ new.step = "sample" => IsVersion(table, new.issue, new.row)
          /\ new.step = "ask" => WholeEvidence(new.evidence)
          /\ new.step = "write" => IsDerived(new.outcome, new.evidence)
      BY <3>1 DEF EvidenceInv, EvidenceOf
    <3> QED
      BY <1>0, <3>1, <3>2, EvidenceOfNext
  <2> QED
    BY <2>2 DEF EvidenceInv
<1> QED
  BY <1>1, <1>2 DEF Next, EvidenceInv

LEMMA StoredInvHolds ==
  ASSUME AccountInv, EvidenceInv, StoredInv, [Next]_vars
  PROVE  StoredInv'
<1>0. table' = table
  BY ShapeHolds DEF AccountInv
<1>1. ASSUME NEW b \in Batches, Write(b)
      PROVE  StoredInv'
  <2>1. /\ DOMAIN suggestions' = DOMAIN suggestions \union {Len(suggestions) + 1}
        /\ \A i \in DOMAIN suggestions : suggestions'[i] = suggestions[i]
        /\ suggestions'[Len(suggestions) + 1] = Suggestion(b)
        /\ batch[b].step = "write"
    BY <1>1, WriteLinks DEF AccountInv
  <2>2. IsDerived(Suggestion(b).kept, Suggestion(b).evidence)
    BY <2>1 DEF EvidenceInv, EvidenceOf, Suggestion
  <2>3. \A i \in DOMAIN suggestions' : IsDerived(suggestions'[i].kept, suggestions'[i].evidence)
    BY <2>1, <2>2 DEF StoredInv
  <2> QED
    BY <1>0, <2>3 DEF StoredInv, IsDerived
<1>2. CASE ~\E b \in Batches : Write(b)
  <2>1. suggestions' = suggestions
    BY <1>2 DEF Next, BatchStep, vars, Generate, NextIssue, Finish, FetchRow,
                NothingGathered, SampleRows, Answer, FailAfterCall, FailBeforeCall, Crash,
                SourceChanges
  <2> QED
    BY <1>0, <2>1 DEF StoredInv, IsDerived
<1> QED
  BY <1>1, <1>2

\* Whatever the model answers, and however often, no more is stored than the
\* engines derived: for all tables, versions of their rows and answers
\* (_apply_evidence_safety and _apply_advanced_evidence_safety,
\* suggestion_service.py:1190-1372).
THEOREM StoredIsDerived == NullIsNoFunction => (Spec => []ConfidentIsDerived)
<1> SUFFICES ASSUME NullIsNoFunction
             PROVE  Spec => []ConfidentIsDerived
  OBVIOUS
<1>1. Init => DerivedInv
  <2> SUFFICES ASSUME Init
               PROVE  DerivedInv
    OBVIOUS
  <2>1. SourceInv
    BY DEF Init, SourceInv, AreVersions, IsVersion
  <2>2. EvidenceInv
    BY IdleIsABatch DEF Init, EvidenceInv, EvidenceOf
  <2>3. StoredInv
    BY DEF Init, StoredInv
  <2> QED
    BY <2>1, <2>2, <2>3 DEF DerivedInv
<1>2. AccountInv /\ DerivedInv /\ [Next]_vars => DerivedInv'
  BY SourceInvHolds, EvidenceInvHolds, StoredInvHolds DEF DerivedInv
<1>3. DerivedInv => ConfidentIsDerived
  BY DEF DerivedInv, StoredInv, IsDerived, ConfidentIsDerived
<1> QED
  BY <1>1, <1>2, <1>3, AccountsHold, PTL DEF Spec

-----------------------------------------------------------------------------
(* The value under review.                                                 *)

\* Other rows and another failing row, which differ from the first ones in
\* nothing but what the failing row holds in the target column.
AlikeElsewhere(columns, rows, failing, others, other) ==
    /\ DOMAIN others = DOMAIN rows
    /\ \A c \in DOMAIN columns \ {Target} :
         /\ other[c] = failing[c]
         /\ \A k \in DOMAIN rows : others[k][c] = rows[k][c]
    /\ \A k \in DOMAIN rows :
         /\ others[k] = other <=> rows[k] = failing
         /\ rows[k] # failing => others[k] = rows[k]

\* What a column is taken for depends on that column alone.
LEMMA SameRole ==
  ASSUME NEW columns, NEW rows, NEW failing, NEW others, NEW other,
         AlikeElsewhere(columns, rows, failing, others, other),
         NEW c \in DOMAIN columns \ {Target}
  PROVE  Role(columns, others, c) = Role(columns, rows, c)
<1>1. DOMAIN others = DOMAIN rows /\ \A k \in DOMAIN rows : others[k][c] = rows[k][c]
  BY DEF AlikeElsewhere
<1>2. {k \in DOMAIN others : others[k][c] # Null} = {k \in DOMAIN rows : rows[k][c] # Null}
  BY <1>1
<1> DEFINE given == {k \in DOMAIN rows : rows[k][c] # Null}
<1>3. {others[k][c] : k \in given} = {rows[k][c] : k \in given}
  BY <1>1
<1>4. MostlyDistinct(columns, others, c) = MostlyDistinct(columns, rows, c)
  BY <1>2, <1>3 DEF MostlyDistinct
<1> QED
  BY <1>1, <1>4 DEF Role

LEMMA SameGroup ==
  ASSUME NEW columns, NEW rows, NEW failing, NEW others, NEW other,
         AlikeElsewhere(columns, rows, failing, others, other)
  PROVE  /\ Group(columns, Target, others, other) = Group(columns, Target, rows, failing)
         /\ \A k \in Group(columns, Target, rows, failing) : others[k] = rows[k]
<1> DEFINE Dims(rs) == {c \in DOMAIN columns \ {Target} : Role(columns, rs, c) = "DIMENSION"}
<1>1. Dims(others) = Dims(rows)
  BY SameRole
<1>2. Group(columns, Target, rows, failing)
        = {k \in DOMAIN rows : rows[k] # failing /\ \A c \in Dims(rows) : rows[k][c] = failing[c]}
  BY DEF Group
<1>3. Group(columns, Target, others, other)
        = {k \in DOMAIN others : others[k] # other /\ \A c \in Dims(others) : others[k][c] = other[c]}
  BY DEF Group
<1>4. Dims(rows) \subseteq DOMAIN columns \ {Target}
  OBVIOUS
<1> HIDE DEF Dims
<1> QED
  BY <1>1, <1>2, <1>3, <1>4 DEF AlikeElsewhere

LEMMA SameConstants ==
  ASSUME NEW columns, NEW rows, NEW others, NEW group,
         \A k \in group : others[k] = rows[k]
  PROVE  Constants(group, columns, Target, others) = Constants(group, columns, Target, rows)
<1> DEFINE S(rs)  == {k \in group : IsNumber(columns, rs[k], Target)}
           Xs(rs) == [k \in S(rs) |-> 100 * Number(rs[k], Target)]
<1>1. S(others) = S(rows)
  OBVIOUS
<1>2. Xs(others) = Xs(rows)
  BY <1>1
<1>3. ASSUME NEW rs
      PROVE  Constants(group, columns, Target, rs)
               = IF Cardinality(S(rs)) < MinGroup \/ SumFunction(Xs(rs)) = 0 THEN {}
                 ELSE {Fitted("constant_within_group",
                              (10 * SumFunction(Xs(rs))) \div Cardinality(S(rs)),
                              SpreadFit(Xs(rs)), Cardinality(S(rs)))}
  BY DEF Constants
<1> HIDE DEF S, Xs
<1> QED
  BY <1>1, <1>2, <1>3

LEMMA SameRatios ==
  ASSUME NEW columns, NEW rows, NEW others, NEW failing, NEW other, NEW group, NEW m,
         \A k \in group : others[k] = rows[k], other[m] = failing[m]
  PROVE  Ratios(group, columns, Target, others, other, m)
           = Ratios(group, columns, Target, rows, failing, m)
<1> DEFINE S(rs)  == {k \in group : /\ IsNumber(columns, rs[k], Target)
                                    /\ IsNumber(columns, rs[k], m)
                                    /\ Number(rs[k], m) # 0}
           Xs(rs) == [k \in S(rs) |-> (100 * Number(rs[k], Target)) \div Number(rs[k], m)]
<1>1. S(others) = S(rows)
  OBVIOUS
<1>2. Xs(others) = Xs(rows)
  BY <1>1
<1>3. IsNumber(columns, other, m) = IsNumber(columns, failing, m) /\ Number(other, m) = Number(failing, m)
  BY DEF IsNumber, Number
<1>4. ASSUME NEW rs, NEW row
      PROVE  Ratios(group, columns, Target, rs, row, m)
               = IF \/ Cardinality(S(rs)) < MinGroup \/ SumFunction(Xs(rs)) = 0
                    \/ ~IsNumber(columns, row, m) \/ Number(row, m) = 0
                 THEN {}
                 ELSE {Fitted("ratio_consistency",
                              (10 * SumFunction(Xs(rs)) * Number(row, m)) \div Cardinality(S(rs)),
                              SpreadFit(Xs(rs)), Cardinality(S(rs)))}
  BY DEF Ratios
<1> HIDE DEF S, Xs
<1> QED
  BY <1>1, <1>2, <1>3, <1>4

LEMMA SameDerivations ==
  ASSUME NEW columns, NEW rows, NEW others, NEW failing, NEW other, NEW group, NEW m1, NEW m2,
         \A k \in group : others[k] = rows[k], other[m1] = failing[m1], other[m2] = failing[m2]
  PROVE  Derivations(group, columns, Target, others, other, m1, m2)
           = Derivations(group, columns, Target, rows, failing, m1, m2)
<1> DEFINE S(rs)  == {k \in group : \A c \in {Target, m1, m2} : IsNumber(columns, rs[k], c)}
           Xs(rs) == [k \in S(rs) |-> Number(rs[k], Target)]
           Ys(rs, kind) == [k \in S(rs) |-> Apply(kind, Number(rs[k], m1), Number(rs[k], m2))]
           Of(rs, row, kind) == Fitted(kind, 1000 * Apply(kind, Number(row, m1), Number(row, m2)),
                                       DerivedFit(Xs(rs), Ys(rs, kind)), Cardinality(S(rs)))
           Kinds == {"product_consistency", "sum_consistency", "difference_consistency"}
<1>1. S(others) = S(rows)
  OBVIOUS
<1>2. Xs(others) = Xs(rows) /\ \A kind : Ys(others, kind) = Ys(rows, kind)
  BY <1>1
<1>3. \A m \in {m1, m2} : /\ IsNumber(columns, other, m) = IsNumber(columns, failing, m)
                          /\ Number(other, m) = Number(failing, m)
  BY DEF IsNumber, Number
<1>4. ASSUME NEW rs, NEW row
      PROVE  Derivations(group, columns, Target, rs, row, m1, m2)
               = IF \/ Cardinality(S(rs)) < MinGroup
                    \/ \E c \in {m1, m2} : ~IsNumber(columns, row, c)
                 THEN {}
                 ELSE {Of(rs, row, kind) : kind \in Kinds}
  BY DEF Derivations
<1> HIDE DEF S, Xs, Ys
<1>5. \A kind : Of(others, other, kind) = Of(rows, failing, kind)
  BY <1>1, <1>2, <1>3
<1> HIDE DEF Of, Kinds
<1>6. {Of(others, other, kind) : kind \in Kinds} = {Of(rows, failing, kind) : kind \in Kinds}
  BY <1>5
<1> QED
  BY <1>1, <1>3, <1>4, <1>6

LEMMA SameRelationships ==
  ASSUME NEW columns, NEW rows, NEW failing, NEW others, NEW other,
         AlikeElsewhere(columns, rows, failing, others, other)
  PROVE  RelationshipEvidence(columns, Target, others, other)
           = RelationshipEvidence(columns, Target, rows, failing)
<1> DEFINE Measures(rs) == {c \in DOMAIN columns \ {Target} : Role(columns, rs, c) = "MEASURE"}
           Pairs(M) == {q \in M \X M : q[1] # q[2]}
           ByRatio(G, rs, row, M) ==
             UNION {Ratios(G, columns, Target, rs, row, m) : m \in M}
           ByDerivation(G, rs, row, M) ==
             UNION {Derivations(G, columns, Target, rs, row, p[1], p[2]) : p \in Pairs(M)}
           Shapes(G, rs, row, M) ==
             Constants(G, columns, Target, rs)
               \union ByRatio(G, rs, row, M) \union ByDerivation(G, rs, row, M)
           Chosen(G, shapes) ==
             LET fitting == {s \in shapes : s.fit >= 900}
                 top == CHOOSE s \in fitting : \A r \in fitting : s.fit >= r.fit
             IN IF \/ Cardinality(G) < MinGroup \/ fitting = {}
                   \/ \E s \in fitting : /\ top.fit - s.fit <= 30
                                         /\ ~Close(s.value.milli, top.value.milli)
                THEN {} ELSE {top}
           g == Group(columns, Target, rows, failing)
           M == Measures(rows)
<1>1. Group(columns, Target, others, other) = g /\ \A k \in g : others[k] = rows[k]
  BY SameGroup
<1>2. Measures(others) = M
  BY SameRole
<1>3. \A m \in M : other[m] = failing[m]
  BY DEF AlikeElsewhere
<1>4. ASSUME NEW rs, NEW row
      PROVE  RelationshipEvidence(columns, Target, rs, row)
               = Chosen(Group(columns, Target, rs, row),
                        Shapes(Group(columns, Target, rs, row), rs, row, Measures(rs)))
  BY DEF RelationshipEvidence
<1> HIDE DEF g, M, Measures, Chosen
<1>5. Constants(g, columns, Target, others) = Constants(g, columns, Target, rows)
  BY <1>1, SameConstants
<1>6. ByRatio(g, others, other, M) = ByRatio(g, rows, failing, M)
  <2>1. \A m \in M : Ratios(g, columns, Target, others, other, m)
                       = Ratios(g, columns, Target, rows, failing, m)
    BY <1>1, <1>3, SameRatios
  <2> QED
    BY <2>1
<1>7. ByDerivation(g, others, other, M) = ByDerivation(g, rows, failing, M)
  <2>1. ASSUME NEW p \in Pairs(M)
        PROVE  Derivations(g, columns, Target, others, other, p[1], p[2])
                 = Derivations(g, columns, Target, rows, failing, p[1], p[2])
    <3>1. p[1] \in M /\ p[2] \in M
      OBVIOUS
    <3>2. other[p[1]] = failing[p[1]] /\ other[p[2]] = failing[p[2]]
      BY <1>3, <3>1
    <3> QED
      BY <1>1, <3>2, SameDerivations
  <2> HIDE DEF Pairs
  <2> QED
    BY <2>1
<1>8. Shapes(g, others, other, M) = Shapes(g, rows, failing, M)
  <2> HIDE DEF ByRatio, ByDerivation
  <2> QED
    BY <1>5, <1>6, <1>7
<1> HIDE DEF Shapes
<1>9. RelationshipEvidence(columns, Target, others, other) = Chosen(g, Shapes(g, others, other, M))
  BY <1>1, <1>2, <1>4
<1>10. RelationshipEvidence(columns, Target, rows, failing) = Chosen(g, Shapes(g, rows, failing, M))
  BY <1>4 DEF g, M
<1> QED
  BY <1>8, <1>9, <1>10

LEMMA SameTemplates ==
  ASSUME NEW columns, NEW rows, NEW failing, NEW others, NEW other, NEW siblings,
         AlikeElsewhere(columns, rows, failing, others, other)
  PROVE  TemplateCandidates(columns, others, other, siblings)
           = TemplateCandidates(columns, rows, failing, siblings)
<1> DEFINE Training(rs, row) == {k \in DOMAIN rs \ siblings : rs[k] # row /\ rs[k][Target] # Null}
           Cells(K, rs, c) == [k \in K |-> rs[k][c]]
           Texts == {d \in DOMAIN columns \ {Target} : columns[d].type \in {"STRING", "TEXT"}}
           K == Training(rows, failing)
<1>1. Training(others, other) = K /\ \A k \in K : others[k] = rows[k]
  BY DEF AlikeElsewhere
<1>2. \A c : Cells(K, others, c) = Cells(K, rows, c)
  BY <1>1
<1>3. \A c \in Texts : other[c] = failing[c]
  BY DEF AlikeElsewhere
<1>4. ASSUME NEW rs, NEW row
      PROVE  TemplateCandidates(columns, rs, row, siblings)
               = UNION {TemplateEvidence(Cells(Training(rs, row), rs, c),
                                         Cells(Training(rs, row), rs, Target), row[c]) :
                          c \in Texts}
  BY DEF TemplateCandidates
<1> HIDE DEF Training, Cells, K, Texts
<1>5. \A c \in Texts : TemplateEvidence(Cells(K, others, c), Cells(K, others, Target), other[c])
                         = TemplateEvidence(Cells(K, rows, c), Cells(K, rows, Target), failing[c])
  BY <1>2, <1>3
<1> DEFINE Found(K0, rs, row) == UNION {TemplateEvidence(Cells(K0, rs, c), Cells(K0, rs, Target),
                                                      row[c]) : c \in Texts}
<1>6. Found(K, others, other) = Found(K, rows, failing)
  BY <1>5
<1>7. TemplateCandidates(columns, others, other, siblings) = Found(K, others, other)
  BY <1>1, <1>4
<1>8. TemplateCandidates(columns, rows, failing, siblings) = Found(K, rows, failing)
  BY <1>4 DEF K
<1> QED
  BY <1>6, <1>7, <1>8

\* The engines that learn from other rows say the same.
LEMMA SameRecommendation ==
  ASSUME NEW t, NEW k, NEW rows, NEW failing, NEW others, NEW other,
         AlikeElsewhere(t.columns, rows, failing, others, other),
         Applicable(t.columns[Target].type, t.rule) \subseteq {"RELATIONSHIP", "TEMPLATE"}
  PROVE  Recommended(t, k, others, other) = Recommended(t, k, rows, failing)
<1> DEFINE engines == Applicable(t.columns[Target].type, t.rule)
           Relations(rs, row) == IF "RELATIONSHIP" \in engines
                                 THEN RelationshipEvidence(t.columns, Target, rs, row) ELSE {}
           Patterns(rs, row) == IF "TEMPLATE" \in engines
                                THEN TemplateCandidates(t.columns, rs, row, t.issues \ {k}) ELSE {}
<1>1. Relations(others, other) = Relations(rows, failing)
  BY SameRelationships
<1>2. Patterns(others, other) = Patterns(rows, failing)
  BY SameTemplates
<1>3. "SEQUENCE" \notin engines /\ "TEMPORAL" \notin engines
  OBVIOUS
<1> HIDE DEF engines
<1>4. ASSUME NEW rs, NEW row
      PROVE  AdvancedEvidence(t.columns, t.rule, rs, row, t.issues \ {k}).best
               = Aggregate(Relations(rs, row) \union {} \union {} \union Patterns(rs, row))
  BY <1>3 DEF AdvancedEvidence, engines
<1> HIDE DEF Relations, Patterns
<1>5. Aggregate(Relations(others, other) \union {} \union {} \union Patterns(others, other))
        = Aggregate(Relations(rows, failing) \union {} \union {} \union Patterns(rows, failing))
  BY <1>1, <1>2
<1>6. AdvancedEvidence(t.columns, t.rule, others, other, t.issues \ {k}).best
        = AdvancedEvidence(t.columns, t.rule, rows, failing, t.issues \ {k}).best
  BY <1>4, <1>5
<1>7. RelationshipEvidence(t.columns, Target, others, other)
        = RelationshipEvidence(t.columns, Target, rows, failing)
  BY SameRelationships
<1> QED
  BY <1>6, <1>7 DEF Recommended

\* The owner of the source changes nothing but the target column.
LEMMA VersionsAgreeElsewhere ==
  ASSUME NEW t \in Tables, NEW k \in DOMAIN t.rows, NEW row, IsVersion(t, k, row)
  PROVE  /\ DOMAIN row = DOMAIN t.columns
         /\ \A c \in DOMAIN t.columns \ {Target} : row[c] = t.rows[k][c]
<1>1. DOMAIN t.rows[k] = DOMAIN t.columns
  BY RowsFillTheirColumns
<1> QED
  BY <1>1 DEF IsVersion

LEMMA AnotherValueIsAlike ==
  ASSUME KeyIsElsewhere, NEW t \in Tables, NEW k \in DOMAIN t.rows,
         NEW rows, AreVersions(t, rows), NEW row, IsVersion(t, k, row),
         k \in DOMAIN rows => rows[k] = row, NEW v
  PROVE  AlikeElsewhere(t.columns, rows, row,
                        [j \in DOMAIN rows |->
                           IF j = k THEN [row EXCEPT ![Target] = v] ELSE rows[j]],
                        [row EXCEPT ![Target] = v])
<1> DEFINE other  == [row EXCEPT ![Target] = v]
           others == [j \in DOMAIN rows |-> IF j = k THEN other ELSE rows[j]]
           Elsewhere == DOMAIN t.columns \ {Target}
<1>1. DOMAIN row = DOMAIN t.columns /\ \A c \in Elsewhere : row[c] = t.rows[k][c]
  BY VersionsAgreeElsewhere
<1>2. \A c \in Elsewhere : other[c] = row[c]
  BY <1>1
<1>3. ASSUME NEW j \in DOMAIN rows, j # k
      PROVE  rows[j] # row /\ rows[j] # other
  <2>1. j \in DOMAIN t.rows /\ \A c \in Elsewhere : rows[j][c] = t.rows[j][c]
    BY VersionsAgreeElsewhere DEF AreVersions
  <2>2. PICK c \in Elsewhere : t.rows[j][c] # t.rows[k][c]
    BY <1>3, <2>1 DEF KeyIsElsewhere
  <2> QED
    BY <1>1, <1>2, <2>1, <2>2
<1> HIDE DEF other, Elsewhere
<1>4. /\ DOMAIN others = DOMAIN rows
      /\ \A j \in DOMAIN rows : others[j] = IF j = k THEN other ELSE rows[j]
  OBVIOUS
<1> HIDE DEF others
<1>5. \A c \in Elsewhere : \A j \in DOMAIN rows : others[j][c] = rows[j][c]
  BY <1>2, <1>4
<1>6. \A j \in DOMAIN rows : /\ others[j] = other <=> rows[j] = row
                             /\ rows[j] # row => others[j] = rows[j]
  BY <1>3, <1>4
<1>7. AlikeElsewhere(t.columns, rows, row, others, other)
  BY <1>2, <1>4, <1>5, <1>6 DEF AlikeElsewhere, Elsewhere
<1> QED
  BY <1>7 DEF others, other

\* The failing row is a version of the row under review until the evidence has
\* been used, and what evidence there is was gathered from it and from versions
\* of the table's rows.
GatheredOf(b) ==
    /\ batch[b].step \in {"next", "fetch", "sample"} => batch[b].evidence = NoEvidence
    /\ batch[b].step = "sample" =>
         /\ batch[b].issue \in DOMAIN table.rows
         /\ IsVersion(table, batch[b].issue, batch[b].row)
    /\ batch[b].step = "ask" /\ batch[b].evidence # NoEvidence =>
         /\ batch[b].issue \in DOMAIN table.rows
         /\ IsVersion(table, batch[b].issue, batch[b].row)
         /\ AreVersions(table, batch[b].rows)
         /\ batch[b].evidence
              = [best |-> Recommended(table, batch[b].issue, batch[b].rows, batch[b].row)]

GatheredInv == \A b \in Batches : GatheredOf(b)

LEMMA GatheredIsRecommended ==
  ASSUME NEW rows, NEW row, NEW k
  PROVE  Gathered(rows, row, k) = [best |-> Recommended(table, k, rows, row)]
  BY DEF Gathered, RelationshipOnly, Recommended, AdvancedEvidence

LEMMA GatheredOfOneHolds ==
  ASSUME BatchShape, SourceInv, NEW b \in Batches, GatheredOf(b), BatchStep(b)
  PROVE  LET new == batch'[b]
         IN /\ new.step \in {"next", "fetch", "sample"} => new.evidence = NoEvidence
            /\ new.step = "sample" =>
                 new.issue \in DOMAIN table.rows /\ IsVersion(table, new.issue, new.row)
            /\ new.step = "ask" /\ new.evidence # NoEvidence =>
                 /\ new.issue \in DOMAIN table.rows /\ IsVersion(table, new.issue, new.row)
                 /\ AreVersions(table, new.rows)
                 /\ new.evidence = [best |-> Recommended(table, new.issue, new.rows, new.row)]
<1> DEFINE new == batch'[b]
<1>1. CASE Generate(b) \/ NextIssue(b) \/ Finish(b) \/ Crash(b) \/ Write(b)
  <2>1. new.step \in {"idle", "next", "ask", "fetch"} /\ new.evidence = NoEvidence
    BY <1>1, GenerateMoves, NextIssueMoves, EndMoves, WriteMoves, IdleIsABatch
  <2> QED
    BY <2>1
<1>2. CASE FetchRow(b)
  <2>1. /\ batch[b].evidence = NoEvidence
        /\ new.issue = batch[b].issue /\ new.evidence = batch[b].evidence
        /\ \/ new.step = "ask"
           \/ /\ new.step = "sample" /\ new.row = source[batch[b].issue]
              /\ batch[b].issue \in DOMAIN source
    BY <1>2, FetchRowMoves DEF GatheredOf, GoesOn
  <2>2. new.step = "sample" =>
          new.issue \in DOMAIN table.rows /\ IsVersion(table, new.issue, new.row)
    BY <2>1 DEF SourceInv, AreVersions
  <2> QED
    BY <2>1, <2>2
<1>3. CASE NothingGathered(b)
  <2>1. /\ batch[b].evidence = NoEvidence /\ new.evidence = batch[b].evidence
        /\ new.step = "ask"
    BY <1>3, NothingGatheredMoves DEF GatheredOf
  <2> QED
    BY <2>1
<1>4. CASE SampleRows(b)
  <2>1. PICK S \in SUBSET DOMAIN source :
          /\ new.rows = [k \in S |-> source[k]]
          /\ new.evidence = Gathered([k \in S |-> source[k]], batch[b].row, batch[b].issue)
    BY <1>4, SampleRowsMoves
  <2> DEFINE rows == [k \in S |-> source[k]]
  <2>2. AreVersions(table, rows)
    BY DEF SourceInv, AreVersions
  <2> HIDE DEF rows
  <2>3. /\ new.step = "ask" /\ new.issue = batch[b].issue /\ new.row = batch[b].row
        /\ new.rows = rows /\ new.evidence = Gathered(rows, batch[b].row, batch[b].issue)
    BY <1>4, <2>1, SampleRowsMoves DEF rows, GoesOn
  <2>4. /\ batch[b].issue \in DOMAIN table.rows
        /\ IsVersion(table, batch[b].issue, batch[b].row)
    BY <1>4 DEF SampleRows, GatheredOf
  <2>5. new.evidence = [best |-> Recommended(table, batch[b].issue, rows, batch[b].row)]
    BY <2>3, GatheredIsRecommended
  <2> QED
    BY <2>2, <2>3, <2>4, <2>5
<1>5. CASE Answer(b) \/ FailAfterCall(b)
  <2>1. new.step = "write"
    BY <1>5, AnswerMoves, FailAfterCallMoves
  <2> QED
    BY <2>1
<1>6. CASE FailBeforeCall(b)
  <2>1. new.step \in {"next", "write"} /\ new.evidence = NoEvidence
    BY <1>6, FailBeforeCallMoves
  <2> QED
    BY <2>1
<1> QED
  BY <1>1, <1>2, <1>3, <1>4, <1>5, <1>6 DEF BatchStep

LEMMA VersionsNext ==
  ASSUME table' = table, NEW c
  PROVE  /\ IsVersion(table, batch'[c].issue, batch'[c].row)
              => IsVersion(table, batch[c].issue, batch[c].row)'
         /\ AreVersions(table, batch'[c].rows) => AreVersions(table, batch[c].rows)'
<1>1. IsVersion(table, batch'[c].issue, batch'[c].row)
        => IsVersion(table, batch[c].issue, batch[c].row)'
  BY DEF IsVersion
<1>2. PICK rows : rows = batch'[c].rows
  OBVIOUS
<1>3. AreVersions(table, rows) => AreVersions(table, batch[c].rows)'
  <2> SUFFICES ASSUME AreVersions(table, rows)
               PROVE  AreVersions(table, batch[c].rows)'
    OBVIOUS
  <2>1. DOMAIN rows \subseteq DOMAIN table.rows /\ \A k \in DOMAIN rows : IsVersion(table, k, rows[k])
    BY DEF AreVersions
  <2>2. ASSUME NEW k \in DOMAIN rows
        PROVE  IsVersion(table, k, batch[c].rows[k])'
    <3>1. PICK row : row = rows[k]
      OBVIOUS
    <3>2. row = batch'[c].rows[k] /\ IsVersion(table, k, row)
      BY <1>2, <2>1, <3>1
    <3> QED
      BY <3>2 DEF IsVersion
  <2> QED
    BY <1>2, <2>1, <2>2 DEF AreVersions
<1> QED
  BY <1>1, <1>2, <1>3

LEMMA GatheredOfNext ==
  ASSUME NEW c \in Batches, table' = table, NEW new, new = batch'[c],
         new.step \in {"next", "fetch", "sample"} => new.evidence = NoEvidence,
         new.step = "sample" =>
           new.issue \in DOMAIN table.rows /\ IsVersion(table, new.issue, new.row),
         new.step = "ask" /\ new.evidence # NoEvidence =>
           /\ new.issue \in DOMAIN table.rows /\ IsVersion(table, new.issue, new.row)
           /\ AreVersions(table, new.rows)
           /\ new.evidence = [best |-> Recommended(table, new.issue, new.rows, new.row)]
  PROVE  GatheredOf(c)'
<1>1. /\ IsVersion(table, new.issue, new.row) => IsVersion(table, batch[c].issue, batch[c].row)'
      /\ AreVersions(table, new.rows) => AreVersions(table, batch[c].rows)'
  BY VersionsNext
<1>3. Recommended(table, batch[c].issue, batch[c].rows, batch[c].row)'
        = Recommended(table, new.issue, new.rows, new.row)
  BY DEF Recommended
<1> QED
  BY <1>1, <1>3 DEF GatheredOf

LEMMA GatheredInvHolds ==
  ASSUME BatchShape, SourceInv, GatheredInv, [Next]_vars
  PROVE  GatheredInv'
<1>0. table' = table
  BY ShapeHolds
<1>1. ASSUME NEW c \in Batches
      PROVE  GatheredOf(c)'
  <2>1. PICK new : new = batch'[c]
    OBVIOUS
  <2>2. /\ new.step \in {"next", "fetch", "sample"} => new.evidence = NoEvidence
        /\ new.step = "sample" =>
             new.issue \in DOMAIN table.rows /\ IsVersion(table, new.issue, new.row)
        /\ new.step = "ask" /\ new.evidence # NoEvidence =>
             /\ new.issue \in DOMAIN table.rows /\ IsVersion(table, new.issue, new.row)
             /\ AreVersions(table, new.rows)
             /\ new.evidence = [best |-> Recommended(table, new.issue, new.rows, new.row)]
    <3>1. CASE BatchStep(c)
      BY <2>1, <3>1, GatheredOfOneHolds DEF GatheredInv
    <3>2. CASE ~BatchStep(c)
      <4>1. new = batch[c]
        <5>1. (SourceChanges \/ UNCHANGED vars) => batch' = batch
          BY DEF SourceChanges, vars
        <5>2. ASSUME NEW b \in Batches, BatchStep(b)
              PROVE  batch'[c] = batch[c]
          BY <3>2, <5>2, StepMoves DEF OnlyMoves
        <5> QED
          BY <2>1, <5>1, <5>2 DEF Next
      <4> QED
        BY <4>1 DEF GatheredInv, GatheredOf
    <3> QED
      BY <3>1, <3>2
  <2> QED
    BY <1>0, <2>1, <2>2, GatheredOfNext
<1> QED
  BY <1>1 DEF GatheredInv

LEMMA GatheredHolds == Spec => [](SourceInv /\ GatheredInv)
<1>1. Init => SourceInv /\ GatheredInv
  BY IdleIsABatch DEF Init, SourceInv, AreVersions, IsVersion, GatheredInv, GatheredOf
<1>2. BatchShape /\ SourceInv /\ GatheredInv /\ [Next]_vars => (SourceInv /\ GatheredInv)'
  BY SourceInvHolds, GatheredInvHolds
<1>3. AccountInv => BatchShape
  BY DEF AccountInv
<1> QED
  BY <1>1, <1>2, <1>3, AccountsHold, PTL DEF Spec

\* The failing row's own value is no evidence for its replacement, for all
\* tables whose key is not the column under review, all samples of them and
\* everything the owner may have done to the target column in between: the
\* engines that learn from other rows would have recommended the same had the
\* failing row held anything else (the module comment of evidence.py;
\* _gather_advanced_evidence, suggestion_service.py:699-758).
THEOREM OwnValueSaysNothing == KeyIsElsewhere => (Spec => []OwnValueIsNotEvidence)
<1> SUFFICES ASSUME KeyIsElsewhere
             PROVE  Spec => []OwnValueIsNotEvidence
  OBVIOUS
<1>1. SourceInv /\ GatheredInv => OwnValueIsNotEvidence
  <2> SUFFICES ASSUME SourceInv, GatheredInv, NEW b \in Batches, NEW at, at = batch[b],
                      at.step = "ask", at.evidence # NoEvidence,
                      Applicable(table.columns[Target].type, table.rule)
                        \subseteq {"RELATIONSHIP", "TEMPLATE"},
                      at.issue \in DOMAIN at.rows => at.rows[at.issue] = at.row,
                      NEW v \in {Null} \union {source[k][Target] : k \in DOMAIN source}
               PROVE  LET row == [at.row EXCEPT ![Target] = v]
                          rows == [k \in DOMAIN at.rows |->
                                     IF k = at.issue THEN row ELSE at.rows[k]]
                      IN {c.value : c \in Gathered(rows, row, at.issue).best}
                           = {c.value : c \in at.evidence.best}
    BY DEF OwnValueIsNotEvidence
  <2> DEFINE row == [at.row EXCEPT ![Target] = v]
             rows == [k \in DOMAIN at.rows |->
                        IF k = at.issue THEN row ELSE at.rows[k]]
  <2>1. /\ table \in Tables /\ at.issue \in DOMAIN table.rows
        /\ IsVersion(table, at.issue, at.row) /\ AreVersions(table, at.rows)
        /\ at.evidence = [best |-> Recommended(table, at.issue, at.rows, at.row)]
    BY DEF SourceInv, GatheredInv, GatheredOf
  <2>2. AlikeElsewhere(table.columns, at.rows, at.row, rows, row)
    BY <2>1, AnotherValueIsAlike
  <2> HIDE DEF row, rows
  <2>3. Recommended(table, at.issue, rows, row)
          = Recommended(table, at.issue, at.rows, at.row)
    BY <2>2, SameRecommendation
  <2>4. Gathered(rows, row, at.issue) = [best |-> Recommended(table, at.issue, rows, row)]
    BY GatheredIsRecommended
  <2>5. Gathered(rows, row, at.issue) = at.evidence
    BY <2>1, <2>3, <2>4
  <2> QED
    BY <2>5 DEF rows, row
<1> QED
  BY <1>1, GatheredHolds, PTL

=============================================================================
