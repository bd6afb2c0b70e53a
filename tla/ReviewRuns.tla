----------------------------- MODULE ReviewRuns -----------------------------
(***************************************************************************)
(* The life of a review run outside approval: ReviewService archives and   *)
(* restores it, the two suggestion generators start it.                    *)
(*                                                                         *)
(* None of them locks the run.  Each writes, at its commit, the status it  *)
(* chose from the status it has read.                                      *)
(***************************************************************************)
EXTENDS ReviewDb

RunCall == [op : {"archive", "restore"}, run : Run]

\* wasDraft: the DRAFT -> IN_REVIEW write that is not flushed yet.
\* todo: issues still to be given suggestions.
GenerateCall ==
  [op : {"generate", "ai_start", "ai_generate"}, run : Run, wasDraft : BOOLEAN,
   todo : SUBSET Issue]

\* (Broken variant: Archiving does not look for an open request.)
ArchiveUnguarded(c, r) ==
  /\ "archive" \in Endpoint
  /\ IsIdle(c)
  /\ runStatus[r] \in {"DRAFT", "IN_REVIEW", "READY_FOR_APPROVAL"}
  /\ call' = [call EXCEPT ![c] = [op |-> "archive", run |-> r]]
  /\ UNCHANGED db

\* validate_archive_transition and the guard on an open approval request.
Archive(c, r) ==
  /\ "archive" \in Endpoint
  /\ IsIdle(c)
  /\ runStatus[r] \in {"DRAFT", "IN_REVIEW", "READY_FOR_APPROVAL"}
  /\ OpenRequests(r) = {}
  /\ call' = [call EXCEPT ![c] = [op |-> "archive", run |-> r]]
  /\ UNCHANGED db

CommitArchive(c) ==
  /\ call[c].op = "archive"
  /\ runStatus' = [runStatus EXCEPT ![call[c].run] = "ARCHIVED"]
  /\ Finish(c)
  /\ UNCHANGED <<issueStatus, suggestions, selected, correction, request, decisions>>

\* A restored run is IN_REVIEW, whatever it was when it was archived.
Restore(c, r) ==
  /\ "restore" \in Endpoint
  /\ IsIdle(c)
  /\ runStatus[r] = "ARCHIVED"
  /\ call' = [call EXCEPT ![c] = [op |-> "restore", run |-> r]]
  /\ UNCHANGED db

CommitRestore(c) ==
  /\ call[c].op = "restore"
  /\ runStatus' = [runStatus EXCEPT ![call[c].run] = "IN_REVIEW"]
  /\ Finish(c)
  /\ UNCHANGED <<issueStatus, suggestions, selected, correction, request, decisions>>

-----------------------------------------------------------------------------
(* SuggestionService.generate_for_review_run *)

\* Pending issues without a suggestion, read once before the first batch.
Targets(r) ==
  {i \in IssuesOf(r) : issueStatus[i] = "PENDING" /\ \A s \in suggestions : IssueOf[s] # i}

Generate(c, r) ==
  /\ "generate" \in Endpoint
  /\ IsIdle(c)
  /\ call' = [call EXCEPT ![c] =
       [op |-> "generate", run |-> r, wasDraft |-> runStatus[r] = "DRAFT", todo |-> Targets(r)]]
  /\ UNCHANGED db

\* The first flush writes the status, if it was DRAFT when the run was read.
StartReview(c) ==
  runStatus' = IF call[c].wasDraft THEN [runStatus EXCEPT ![call[c].run] = "IN_REVIEW"]
                                   ELSE runStatus

\* The ids a generator can still insert for some issues.
NewSuggestions(issues, source) ==
  {s \in Suggestion \ suggestions : IssueOf[s] \in issues /\ SourceOf[s] = source}

\* One batch and its commit; which generators have a draft for which issue is
\* left open.  Whether an issue was decided meanwhile is not looked at.
GenerateBatch(c, batch, added) ==
  /\ call[c].op = "generate"
  /\ batch # {} /\ batch \subseteq call[c].todo
  /\ added \subseteq NewSuggestions(batch, "RULE_BASED")
  /\ suggestions' = suggestions \cup added
  /\ StartReview(c)
  /\ call' = [call EXCEPT ![c].todo = @ \ batch, ![c].wasDraft = FALSE]
  /\ UNCHANGED <<issueStatus, selected, correction, request, decisions>>

\* The commit of the audit event, which flushes the status when there was no
\* batch.
FinishGenerate(c) ==
  /\ call[c].op = "generate"
  /\ call[c].todo = {}
  /\ StartReview(c)
  /\ Finish(c)
  /\ UNCHANGED <<issueStatus, suggestions, selected, correction, request, decisions>>

-----------------------------------------------------------------------------
(* AISuggestionService.generate_corrections, run by a worker *)

AiGenerate(c, r) ==
  /\ "ai_generate" \in Endpoint
  /\ IsIdle(c)
  /\ call' = [call EXCEPT ![c] =
       [op |-> "ai_start", run |-> r, wasDraft |-> runStatus[r] = "DRAFT", todo |-> {}]]
  /\ UNCHANGED db

\* The status is committed before the issues are read.
AiStartReview(c) ==
  /\ call[c].op = "ai_start"
  /\ StartReview(c)
  /\ call' = [call EXCEPT ![c].op = "ai_generate", ![c].wasDraft = FALSE,
                          ![c].todo = Targets(call[c].run)]
  /\ UNCHANGED <<issueStatus, suggestions, selected, correction, request, decisions>>

\* One issue, one commit.  Without an active prompt the issue is passed over;
\* any other failure still inserts a suggestion, with a blank value.
AiSuggest(c, i, added) ==
  /\ call[c].op = "ai_generate"
  /\ i \in call[c].todo
  /\ added \subseteq NewSuggestions({i}, "AI") /\ Cardinality(added) <= 1
  /\ suggestions' = suggestions \cup added
  /\ call' = [call EXCEPT ![c].todo = @ \ {i}]
  /\ UNCHANGED <<runStatus, issueStatus, selected, correction, request, decisions>>

FinishAi(c) ==
  /\ call[c].op = "ai_generate"
  /\ call[c].todo = {}
  /\ RollBack(c)

RunNext(c) ==
  \/ \E r \in Run : Archive(c, r) \/ Restore(c, r) \/ Generate(c, r) \/ AiGenerate(c, r)
  \/ CommitArchive(c) \/ CommitRestore(c)
  \/ \E batch \in SUBSET Issue, added \in SUBSET Suggestion : GenerateBatch(c, batch, added)
  \/ FinishGenerate(c) \/ AiStartReview(c) \/ FinishAi(c)
  \/ \E i \in Issue, added \in SUBSET Suggestion : AiSuggest(c, i, added)
=============================================================================
