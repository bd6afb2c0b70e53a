------------------------ MODULE ReviewApprovalProofs ------------------------
(***************************************************************************)
(* Proofs about ReviewApproval, for every set of runs, issues, suggestions *)
(* and requests and any number of callers.                                 *)
(***************************************************************************)
EXTENDS ReviewApproval, FiniteSetTheorems, TLAPS

\* The operation of a call in flight tells which record it is.
LEMMA CallKinds ==
  ASSUME NEW k \in Calls
  PROVE  /\ k.op = "decision" => k \in DecisionCall
         /\ k.op = "submit" => k \in SubmitCall
         /\ k.op = "decide" => k \in DecideCall
         /\ k.op \in {"archive", "restore"} => k \in RunCall
         /\ k.op \in {"generate", "ai_start", "ai_generate"} => k \in GenerateCall
  BY DEF Calls, Idle, DecisionCall, SubmitCall, DecideCall, RunCall, GenerateCall

\* The counts taken of a scope are numbers.
LEMMA ScopeCount == ASSUME NEW r PROVE Cardinality(ResolvedScope(r)) \in Nat
  <1>1. ResolvedScope(r) \subseteq Issue
    BY DEF ResolvedScope, IssuesOf
  <1>2. IsFiniteSet(ResolvedScope(r))
    BY <1>1, ReviewConstants, FS_Subset
  <1> QED
    BY <1>2, FS_CardinalityType

-----------------------------------------------------------------------------
(* Type correctness *)

LEMMA TypeInit == Init => TypeOK
  <1> SUFFICES ASSUME Init PROVE TypeOK
    OBVIOUS
  <1>1. (CHOOSE r \in Run : TRUE) \in Run
    BY ReviewConstants
  <1>2. request \in [ApprovalRequest -> RequestRow]
    BY <1>1 DEF Init, RequestRow
  <1>3. correction \in [Issue -> CorrectionRow]
    BY DEF Init, NoCorrection, CorrectionRow
  <1>4. call \in [Caller -> Calls]
    BY DEF Init, Calls
  <1> QED
    BY <1>2, <1>3, <1>4 DEF Init, TypeOK, RunStatus, IssueStatus

\* A decision in flight is well formed once its row is.
LEMMA TypeDecide ==
  ASSUME TypeOK, NEW c \in Caller, NEW r \in Run, NEW issues \in SUBSET Issue,
         NEW new \in CorrectionRow, NEW b \in BOOLEAN, Decide(c, r, issues, new, b)
  PROVE  TypeOK'
  <1> DEFINE seen == [i \in Issue |-> IF i \in issues THEN issueStatus[i] ELSE "PENDING"]
             k == [op |-> "decision", at |-> "begun", issues |-> issues, new |-> new,
                   sawSelected |-> b, sawIssue |-> seen,
                   unread |-> issues, saw |-> [i \in Issue |-> NoCorrection]]
  <1>1. seen \in [Issue -> IssueStatus]
    BY DEF TypeOK, IssueStatus
  <1>2. [i \in Issue |-> NoCorrection] \in [Issue -> CorrectionRow]
    BY DEF NoCorrection, CorrectionRow
  <1>3. k \in DecisionCall
    BY <1>1, <1>2 DEF DecisionCall
  <1>4. call' = [call EXCEPT ![c] = k] /\ UNCHANGED db
    BY DEF Decide
  <1> HIDE DEF k
  <1>5. call' \in [Caller -> Calls]
    BY <1>3, <1>4 DEF TypeOK, Calls
  <1> QED
    BY <1>4, <1>5 DEF TypeOK, db

LEMMA TypeCorrection ==
  ASSUME TypeOK, NEW c \in Caller, CorrectionNext(c) PROVE TypeOK'
  <1> USE DEF ResolvedStatus, TerminalStatus, SuggestionSource
  <1>1. ASSUME NEW s \in Suggestion, Accept(c, s) PROVE TypeOK'
    <2>1. SuggestedValue[s] \in Value /\ SourceOf[s] \in SuggestionSource
      BY <1>1, ReviewConstants DEF Accept
    <2>2. [status |-> "ACCEPTED", suggestion |-> s, value |-> SuggestedValue[s],
           source |-> SourceOf[s]] \in CorrectionRow
      BY <2>1 DEF CorrectionRow
    <2>3. RunOf[IssueOf[s]] \in Run /\ {IssueOf[s]} \in SUBSET Issue /\ (s \in selected) \in BOOLEAN
      BY ReviewConstants
    <2> QED
      BY <1>1, <2>2, <2>3, TypeDecide DEF Accept
  <1>2. ASSUME NEW s \in Suggestion, Reject(c, s) PROVE TypeOK'
    <2>1. [status |-> "REJECTED", suggestion |-> s, value |-> None, source |-> SourceOf[s]]
            \in CorrectionRow
      BY ReviewConstants DEF CorrectionRow
    <2>2. RunOf[IssueOf[s]] \in Run /\ {IssueOf[s]} \in SUBSET Issue
      BY ReviewConstants
    <2> QED
      BY <1>2, <2>1, <2>2, TypeDecide DEF Reject
  <1>3. ASSUME NEW s \in Suggestion, NEW v \in Value, Edit(c, s, v) PROVE TypeOK'
    <2>1. [status |-> "EDITED", suggestion |-> s, value |-> v, source |-> "HUMAN"] \in CorrectionRow
      BY DEF CorrectionRow
    <2>2. RunOf[IssueOf[s]] \in Run /\ {IssueOf[s]} \in SUBSET Issue /\ (s \in selected) \in BOOLEAN
      BY ReviewConstants
    <2> QED
      BY <1>3, <2>1, <2>2, TypeDecide DEF Edit
  <1>4. \A status \in TerminalStatus : Undecidable(status) \in CorrectionRow
    BY DEF Undecidable, CorrectionRow
  <1>5. ASSUME NEW i \in Issue, Skip(c, i) PROVE TypeOK'
    <2>1. RunOf[i] \in Run /\ {i} \in SUBSET Issue /\ Undecidable("SKIPPED") \in CorrectionRow
      BY <1>4, ReviewConstants
    <2> QED
      BY <1>5, <2>1, TypeDecide DEF Skip
  <1>6. ASSUME NEW i \in Issue, NEW v \in Value, CorrectDirectly(c, i, v) PROVE TypeOK'
    <2>1. [status |-> "EDITED", suggestion |-> None, value |-> v, source |-> "HUMAN"] \in CorrectionRow
      BY DEF CorrectionRow
    <2>2. RunOf[i] \in Run /\ {i} \in SUBSET Issue
      BY ReviewConstants
    <2> QED
      BY <1>6, <2>1, <2>2, TypeDecide DEF CorrectDirectly
  <1>7. ASSUME NEW r \in Run, NEW issues \in SUBSET Issue, NEW action \in TerminalStatus,
               BulkAction(c, r, issues, action)
        PROVE  TypeOK'
    BY <1>4, <1>7, TypeDecide DEF BulkAction
  <1> USE DEF TypeOK, Calls
  <1>8. CASE CheckNotTerminal(c)
    <2>1. call[c] \in DecisionCall
      BY <1>8, CallKinds DEF CheckNotTerminal
    <2>2. [call[c] EXCEPT !.at = "upserting"] \in DecisionCall
      BY <2>1 DEF DecisionCall
    <2>3. call' = [call EXCEPT ![c] = [call[c] EXCEPT !.at = "upserting"]]
      BY <1>8 DEF CheckNotTerminal
    <2>4. call' \in [Caller -> Calls]
      BY <2>2, <2>3
    <2> QED
      BY <1>8, <2>4 DEF CheckNotTerminal, db
  <1>9. CASE RefuseTerminal(c) \/ FailDecision(c)
    BY <1>9 DEF RefuseTerminal, FailDecision, RollBack, Finish, Idle, db
  <1>10. ASSUME NEW i \in Issue, ReadCorrection(c, i) PROVE TypeOK'
    <2>1. call[c] \in DecisionCall
      BY <1>10, CallKinds DEF ReadCorrection
    <2>2. [call[c] EXCEPT !.unread = @ \ {i}, !.saw[i] = correction[i]] \in DecisionCall
      BY <2>1 DEF DecisionCall
    <2>3. call' = [call EXCEPT ![c] = [call[c] EXCEPT !.unread = @ \ {i}, !.saw[i] = correction[i]]]
      BY <1>10 DEF ReadCorrection
    <2>4. call' \in [Caller -> Calls]
      BY <2>2, <2>3
    <2> QED
      BY <1>10, <2>4 DEF ReadCorrection, db
  <1>11. CASE CommitDecision(c)
    <2> DEFINE k == call[c]
    <2>1. k \in DecisionCall
      BY <1>11, CallKinds DEF CommitDecision, ReadyToWrite
    <2>2. k.new \in CorrectionRow /\ k.sawIssue \in [Issue -> IssueStatus] /\ k.saw \in [Issue -> CorrectionRow]
      BY <2>1 DEF DecisionCall
    <2>3. \A i \in Issue : Upserted(correction[i], k.saw[i], k.new) \in CorrectionRow
      BY <2>2 DEF Upserted, Flushed, CorrectionRow
    <2>4. correction' \in [Issue -> CorrectionRow]
      BY <1>11, <2>3 DEF CommitDecision
    <2>5. issueStatus' \in [Issue -> IssueStatus]
      BY <1>11, <2>2 DEF CommitDecision, Flushed, IssueStatusFor, IssueStatus
    <2>6. selected' \subseteq Suggestion
      <3>1. Selects(k.new) => k.new.suggestion \in Suggestion
        BY <2>2 DEF Selects, CorrectionRow
      <3> QED
        BY <1>11, <3>1 DEF CommitDecision
    <2>7. call' \in [Caller -> Calls]
      BY <1>11 DEF CommitDecision, Finish, Idle
    <2> QED
      BY <1>11, <2>4, <2>5, <2>6, <2>7 DEF CommitDecision
  <1> QED
    BY <1>1, <1>2, <1>3, <1>5, <1>6, <1>7, <1>8, <1>9, <1>10, <1>11 DEF CorrectionNext

LEMMA TypeApproval ==
  ASSUME TypeOK, NEW c \in Caller, ApprovalNext(c) PROVE TypeOK'
  <1> USE DEF TypeOK, Calls, OpenStatus, ClosedStatus
  <1>1. ASSUME NEW r \in Run, Submit(c, r) PROVE TypeOK'
    <2>1. Cardinality(ResolvedScope(r)) \in Nat
      BY ScopeCount
    <2>2. [op |-> "submit", run |-> r, affected |-> Cardinality(ResolvedScope(r))] \in SubmitCall
      BY <2>1 DEF SubmitCall
    <2>3. call' \in [Caller -> Calls]
      BY <1>1, <2>2 DEF Submit
    <2> QED
      BY <1>1, <2>3 DEF Submit, db
  <1>2. CASE CommitSubmit(c)
    <2>1. call[c] \in SubmitCall
      BY <1>2, CallKinds DEF CommitSubmit
    <2>2. [status |-> "PENDING", run |-> call[c].run, affected |-> call[c].affected] \in RequestRow
      BY <2>1 DEF SubmitCall, RequestRow
    <2>3. request' \in [ApprovalRequest -> RequestRow]
      BY <1>2, <2>2 DEF CommitSubmit
    <2>4. runStatus' \in [Run -> RunStatus]
      BY <1>2 DEF CommitSubmit, RunStatus
    <2>5. call' \in [Caller -> Calls]
      BY <1>2 DEF CommitSubmit, Finish, Idle
    <2> QED
      BY <1>2, <2>3, <2>4, <2>5 DEF CommitSubmit
  <1>3. CASE OutOfRequests(c)
    BY <1>3 DEF OutOfRequests, RollBack, Finish, Idle, db
  <1>4. ASSUME NEW a \in ApprovalRequest, NEW verdict \in {"APPROVE", "REJECT"},
               NEW issues \in SUBSET Issue, DecideRequest(c, a, verdict, issues)
        PROVE  TypeOK'
    <2>1. Remaining(a) \in SUBSET Issue
      BY DEF Remaining, ResolvedScope, IssuesOf
    <2>2. [op |-> "decide", request |-> a, verdict |-> verdict, issues |-> issues,
           remaining |-> Remaining(a)] \in DecideCall
      BY <2>1 DEF DecideCall
    <2>3. call' \in [Caller -> Calls]
      BY <1>4, <2>2 DEF DecideRequest
    <2> QED
      BY <1>4, <2>3 DEF DecideRequest, db
  <1>5. CASE CommitDecide(c)
    <2> DEFINE a == call[c].request
               all == decisions[a] \cup {[verdict |-> call[c].verdict, issues |-> call[c].issues]}
               left == call[c].remaining \ call[c].issues
    <2>1. call[c] \in DecideCall
      BY <1>5, CallKinds DEF CommitDecide
    <2>2. a \in ApprovalRequest /\ all \in SUBSET Decision
      BY <2>1 DEF DecideCall, Decision
    <2>3. decisions' \in [ApprovalRequest -> SUBSET Decision]
      BY <1>5, <2>2 DEF CommitDecide
    <2>4. RecomputedStatus(all, left) \in OpenStatus \cup ClosedStatus
      BY DEF RecomputedStatus
    <2>5. request' = [request EXCEPT ![a].status = RecomputedStatus(all, left)]
      BY <1>5 DEF CommitDecide
    <2> HIDE DEF all, left
    <2>6. request' \in [ApprovalRequest -> RequestRow]
      BY <2>4, <2>5 DEF RequestRow
    <2>7. call' \in [Caller -> Calls]
      BY <1>5 DEF CommitDecide, Finish, Idle
    <2> QED
      BY <1>5, <2>3, <2>6, <2>7 DEF CommitDecide
  <1> QED
    BY <1>1, <1>2, <1>3, <1>4, <1>5 DEF ApprovalNext

LEMMA TypeRuns ==
  ASSUME TypeOK, NEW c \in Caller, RunNext(c) PROVE TypeOK'
  <1> USE DEF TypeOK, Calls
  <1>1. ASSUME NEW r \in Run, Archive(c, r) \/ Restore(c, r) PROVE TypeOK'
    <2>1. [op |-> "archive", run |-> r] \in RunCall /\ [op |-> "restore", run |-> r] \in RunCall
      BY DEF RunCall
    <2>2. call' \in [Caller -> Calls]
      BY <1>1, <2>1 DEF Archive, Restore
    <2> QED
      BY <1>1, <2>2 DEF Archive, Restore, db
  <1>2. \A r \in Run : Targets(r) \in SUBSET Issue
    BY DEF Targets, IssuesOf
  <1>3. ASSUME NEW r \in Run, Generate(c, r) \/ AiGenerate(c, r) PROVE TypeOK'
    <2>1. /\ [op |-> "generate", run |-> r, wasDraft |-> runStatus[r] = "DRAFT",
               todo |-> Targets(r)] \in GenerateCall
          /\ [op |-> "ai_start", run |-> r, wasDraft |-> runStatus[r] = "DRAFT",
               todo |-> {}] \in GenerateCall
      BY <1>2 DEF GenerateCall
    <2>2. call' \in [Caller -> Calls]
      BY <1>3, <2>1 DEF Generate, AiGenerate
    <2> QED
      BY <1>3, <2>2 DEF Generate, AiGenerate, db
  <1>4. CASE CommitArchive(c) \/ CommitRestore(c)
    <2>1. call' \in [Caller -> Calls]
      BY <1>4 DEF CommitArchive, CommitRestore, Finish, Idle
    <2>2. runStatus' \in [Run -> RunStatus]
      BY <1>4 DEF CommitArchive, CommitRestore, RunStatus
    <2> QED
      BY <1>4, <2>1, <2>2 DEF CommitArchive, CommitRestore
  <1>5. StartReview(c) => runStatus' \in [Run -> RunStatus]
    BY DEF StartReview, RunStatus
  <1>6. ASSUME NEW batch \in SUBSET Issue, NEW added \in SUBSET Suggestion,
               GenerateBatch(c, batch, added)
        PROVE  TypeOK'
    <2>1. call[c] \in GenerateCall
      BY <1>6, CallKinds DEF GenerateBatch
    <2>2. [call[c] EXCEPT !.todo = @ \ batch, !.wasDraft = FALSE] \in GenerateCall
      BY <2>1 DEF GenerateCall
    <2>3. call' = [call EXCEPT ![c] = [call[c] EXCEPT !.todo = @ \ batch, !.wasDraft = FALSE]]
      BY <1>6 DEF GenerateBatch
    <2>4. call' \in [Caller -> Calls]
      BY <2>2, <2>3
    <2> QED
      BY <1>5, <1>6, <2>4 DEF GenerateBatch
  <1>7. CASE FinishGenerate(c)
    BY <1>5, <1>7 DEF FinishGenerate, Finish, Idle
  <1>8. CASE AiStartReview(c)
    <2> DEFINE k == [call[c] EXCEPT !.op = "ai_generate", !.wasDraft = FALSE,
                                    !.todo = Targets(call[c].run)]
    <2>1. call[c] \in GenerateCall
      BY <1>8, CallKinds DEF AiStartReview
    <2>2. k \in GenerateCall
      BY <1>2, <2>1 DEF GenerateCall
    <2>3. call' = [call EXCEPT ![c] = k]
      BY <1>8 DEF AiStartReview
    <2>4. call' \in [Caller -> Calls]
      BY <2>2, <2>3
    <2> QED
      BY <1>5, <1>8, <2>4 DEF AiStartReview
  <1>9. ASSUME NEW i \in Issue, NEW added \in SUBSET Suggestion, AiSuggest(c, i, added)
        PROVE  TypeOK'
    <2>1. call[c] \in GenerateCall
      BY <1>9, CallKinds DEF AiSuggest
    <2>2. [call[c] EXCEPT !.todo = @ \ {i}] \in GenerateCall
      BY <2>1 DEF GenerateCall
    <2>3. call' = [call EXCEPT ![c] = [call[c] EXCEPT !.todo = @ \ {i}]]
      BY <1>9 DEF AiSuggest
    <2>4. call' \in [Caller -> Calls]
      BY <2>2, <2>3
    <2> QED
      BY <1>9, <2>4 DEF AiSuggest
  <1>10. CASE FinishAi(c)
    BY <1>10 DEF FinishAi, RollBack, Finish, Idle, db
  <1> QED
    BY <1>1, <1>3, <1>4, <1>6, <1>7, <1>8, <1>9, <1>10 DEF RunNext

\* Every row and every call in flight keeps its type: in particular a decision
\* writes a well-formed correction whatever it read and whoever wrote since.
THEOREM TypeCorrect == Spec => []TypeOK
  <1>1. TypeOK /\ [Next]_vars => TypeOK'
    <2> SUFFICES ASSUME TypeOK, [Next]_vars PROVE TypeOK'
      OBVIOUS
    <2>1. ASSUME NEW c \in Caller, CorrectionNext(c) \/ ApprovalNext(c) \/ RunNext(c)
          PROVE  TypeOK'
      BY <2>1, TypeCorrection, TypeApproval, TypeRuns
    <2>2. CASE UNCHANGED vars
      BY <2>2 DEF TypeOK, vars, db
    <2> QED
      BY <2>1, <2>2 DEF Next
  <1> QED
    BY TypeInit, <1>1, PTL DEF Spec

-----------------------------------------------------------------------------
(* Decisions of an approval request *)

\* The steps of anything but submit and decide leave the requests, their
\* decisions and the calls that decide one as they are.
LEMMA OthersLeaveDecisions ==
  ASSUME TypeOK, NEW c \in Caller, CorrectionNext(c) \/ RunNext(c)
  PROVE  /\ UNCHANGED <<request, decisions>>
         /\ \A d \in Caller : call'[d].op = "decide" => call'[d] = call[d]
  <1> USE DEF TypeOK, db
  <1>1. ASSUME NEW r, NEW issues, NEW new, NEW b, Decide(c, r, issues, new, b)
        PROVE  /\ UNCHANGED <<request, decisions>>
               /\ \A d \in Caller : call'[d].op = "decide" => call'[d] = call[d]
    BY <1>1 DEF Decide
  <1>2. CASE \E s \in Suggestion : Accept(c, s) \/ Reject(c, s) \/ (\E v \in Value : Edit(c, s, v))
    BY <1>1, <1>2 DEF Accept, Reject, Edit
  <1>3. CASE \E i \in Issue : Skip(c, i) \/ (\E v \in Value : CorrectDirectly(c, i, v))
    BY <1>1, <1>3 DEF Skip, CorrectDirectly
  <1>4. CASE \E r \in Run, issues \in SUBSET Issue, action \in TerminalStatus :
               BulkAction(c, r, issues, action)
    BY <1>1, <1>4 DEF BulkAction
  <1>5. CASE CheckNotTerminal(c)
    <2>1. call[c] \in DecisionCall
      BY <1>5, CallKinds DEF CheckNotTerminal
    <2>2. call'[c].op = "decision"
      BY <1>5, <2>1 DEF CheckNotTerminal, DecisionCall
    <2> QED
      BY <1>5, <2>2 DEF CheckNotTerminal
  <1>6. ASSUME NEW i \in Issue, ReadCorrection(c, i)
        PROVE  /\ UNCHANGED <<request, decisions>>
               /\ \A d \in Caller : call'[d].op = "decide" => call'[d] = call[d]
    <2>1. call[c] \in DecisionCall
      BY <1>6, CallKinds DEF ReadCorrection
    <2>2. call'[c].op = "decision"
      BY <1>6, <2>1 DEF ReadCorrection, DecisionCall
    <2> QED
      BY <1>6, <2>2 DEF ReadCorrection
  <1>7. CASE RefuseTerminal(c) \/ FailDecision(c) \/ CommitDecision(c)
    BY <1>7 DEF RefuseTerminal, FailDecision, CommitDecision, RollBack, Finish, Idle
  <1>8. CASE \E r \in Run : Archive(c, r) \/ Restore(c, r) \/ Generate(c, r) \/ AiGenerate(c, r)
    BY <1>8 DEF Archive, Restore, Generate, AiGenerate
  <1>9. CASE CommitArchive(c) \/ CommitRestore(c) \/ FinishGenerate(c) \/ FinishAi(c)
    BY <1>9 DEF CommitArchive, CommitRestore, FinishGenerate, FinishAi, RollBack, Finish, Idle
  <1>10. ASSUME NEW batch \in SUBSET Issue, NEW added \in SUBSET Suggestion,
                GenerateBatch(c, batch, added)
         PROVE  /\ UNCHANGED <<request, decisions>>
                /\ \A d \in Caller : call'[d].op = "decide" => call'[d] = call[d]
    <2>1. call[c] \in GenerateCall
      BY <1>10, CallKinds DEF GenerateBatch
    <2>2. call'[c].op # "decide"
      BY <1>10, <2>1 DEF GenerateBatch, GenerateCall
    <2> QED
      BY <1>10, <2>2 DEF GenerateBatch
  <1>11. CASE AiStartReview(c)
    <2>1. call[c] \in GenerateCall
      BY <1>11, CallKinds DEF AiStartReview
    <2>2. call'[c].op # "decide"
      BY <1>11, <2>1 DEF AiStartReview, GenerateCall
    <2> QED
      BY <1>11, <2>2 DEF AiStartReview
  <1>12. ASSUME NEW i \in Issue, NEW added \in SUBSET Suggestion, AiSuggest(c, i, added)
         PROVE  /\ UNCHANGED <<request, decisions>>
                /\ \A d \in Caller : call'[d].op = "decide" => call'[d] = call[d]
    <2>1. call[c] \in GenerateCall
      BY <1>12, CallKinds DEF AiSuggest
    <2>2. call'[c].op # "decide"
      BY <1>12, <2>1 DEF AiSuggest, GenerateCall
    <2> QED
      BY <1>12, <2>2 DEF AiSuggest
  <1> QED
    BY <1>2, <1>3, <1>4, <1>5, <1>6, <1>7, <1>8, <1>9, <1>10, <1>11, <1>12
       DEF CorrectionNext, RunNext

\* Where requests, decisions and deciding calls stay, the invariant stays.
LEMMA DecisionInvStays ==
  ASSUME TypeOK, DecisionInv, UNCHANGED <<request, decisions>>,
         \A d \in Caller : call'[d].op = "decide" => call'[d] = call[d]
  PROVE  DecisionInv'
  BY DEF DecisionInv, NoIssueDecidedTwice, StatusSummarisesDecisions, DecidersHoldLock,
         DecidedIssues

\* A new request has no decision, and nobody is deciding it yet.
LEMMA SubmitKeepsDecisions ==
  ASSUME TypeOK, DecisionInv, NEW c \in Caller, CommitSubmit(c)
  PROVE  DecisionInv'
  <1> USE DEF TypeOK
  <1>1. PICK a \in ApprovalRequest :
          /\ request[a].status = "NO_ROW"
          /\ request' = [request EXCEPT ![a] =
               [status |-> "PENDING", run |-> call[c].run, affected |-> call[c].affected]]
    BY DEF CommitSubmit
  <1>2. call' = [call EXCEPT ![c] = Idle] /\ decisions' = decisions
    BY DEF CommitSubmit, Finish
  <1>3. NoIssueDecidedTwice'
    BY <1>2 DEF DecisionInv, NoIssueDecidedTwice
  <1>4. StatusSummarisesDecisions'
    BY <1>1, <1>2 DEF DecisionInv, StatusSummarisesDecisions
  <1>5. \A d \in Caller : call'[d].op = "decide" => call'[d] = call[d] /\ call[d].request # a
    BY <1>1, <1>2 DEF Idle, DecisionInv, DecidersHoldLock
  <1>6. \A d \in Caller : call[d].op = "decide" => call[d].request \in ApprovalRequest
    BY CallKinds DEF DecideCall
  <1>7. DecidersHoldLock'
    BY <1>1, <1>2, <1>5, <1>6 DEF DecisionInv, DecidersHoldLock, DecidedIssues
  <1> QED
    BY <1>3, <1>4, <1>7 DEF DecisionInv

\* The lock is free and what is read under it is not decided yet.
LEMMA LockingKeepsDecisions ==
  ASSUME TypeOK, DecisionInv, NEW c \in Caller, NEW a \in ApprovalRequest,
         NEW verdict, NEW issues, DecideRequest(c, a, verdict, issues)
  PROVE  DecisionInv'
  <1> USE DEF TypeOK
  <1> DEFINE k == [op |-> "decide", request |-> a, verdict |-> verdict, issues |-> issues,
                   remaining |-> Remaining(a)]
  <1>1. /\ call' = [call EXCEPT ![c] = k]
        /\ UNCHANGED <<request, decisions>>
        /\ request[a].status # "NO_ROW" /\ issues # {} /\ issues \subseteq Remaining(a)
        /\ \A d \in Caller : call[d].op = "decide" => call[d].request # a
    BY DEF DecideRequest, db, Locked
  <1>2. Remaining(a) \cap DecidedIssues(a) = {}
    BY DEF Remaining
  <1>3. NoIssueDecidedTwice' /\ StatusSummarisesDecisions'
    BY <1>1 DEF DecisionInv, NoIssueDecidedTwice, StatusSummarisesDecisions
  <1>4. ASSUME NEW d \in Caller, call'[d].op = "decide"
        PROVE  (/\ \A e \in Caller :
                    call[e].op = "decide" /\ call[e].request = call[d].request => e = d
                /\ request[call[d].request].status # "NO_ROW"
                /\ call[d].issues # {} /\ call[d].issues \subseteq call[d].remaining
                /\ call[d].remaining \cap DecidedIssues(call[d].request) = {})'
    <2>1. CASE d = c
      BY <1>1, <1>2, <2>1 DEF DecidedIssues
    <2>2. CASE d # c
      BY <1>1, <1>4, <2>2 DEF DecisionInv, DecidersHoldLock, DecidedIssues
    <2> QED
      BY <2>1, <2>2
  <1>5. DecidersHoldLock'
    BY <1>4 DEF DecidersHoldLock
  <1> QED
    BY <1>3, <1>5 DEF DecisionInv

\* The inserted decision is disjoint from the earlier ones, and the status is
\* recomputed from all of them.
LEMMA CommitKeepsDecisions ==
  ASSUME TypeOK, DecisionInv, NEW c \in Caller, CommitDecide(c)
  PROVE  DecisionInv'
  <1> USE DEF TypeOK
  <1> DEFINE a   == call[c].request
             new == [verdict |-> call[c].verdict, issues |-> call[c].issues]
             all == decisions[a] \cup {new}
             st  == RecomputedStatus(all, call[c].remaining \ call[c].issues)
  <1>1. call[c] \in DecideCall
    BY CallKinds DEF CommitDecide
  <1>2. a \in ApprovalRequest /\ call[c].op = "decide" /\ call[c].verdict \in {"APPROVE", "REJECT"}
    BY <1>1 DEF DecideCall
  <1>3. /\ decisions' = [decisions EXCEPT ![a] = all]
        /\ request' = [request EXCEPT ![a].status = st]
        /\ call' = [call EXCEPT ![c] = Idle]
    BY DEF CommitDecide, Finish
  <1>4. /\ st \in {"PARTIALLY_APPROVED", "APPROVED", "REJECTED"}
        /\ st = "APPROVED" => \A d \in all : d.verdict = "APPROVE"
        /\ st = "REJECTED" => \E d \in all : d.verdict # "APPROVE"
    BY DEF RecomputedStatus
  <1>5. \A d \in all : d.verdict \in {"APPROVE", "REJECT"}
    BY <1>2 DEF Decision
  <1>6. \A d \in decisions[a] : d.issues \cap new.issues = {}
    <2>1. call[c].issues \cap DecidedIssues(a) = {}
      BY <1>2 DEF DecisionInv, DecidersHoldLock
    <2> QED
      BY <2>1 DEF DecidedIssues
  <1> HIDE DEF st, new
  <1>7. NoIssueDecidedTwice'
    BY <1>2, <1>3, <1>6 DEF DecisionInv, NoIssueDecidedTwice
  <1>8. request'[a].status = st /\ \A b \in ApprovalRequest \ {a} : request'[b] = request[b]
    BY <1>2, <1>3 DEF RequestRow
  <1>9. decisions'[a] = all /\ \A b \in ApprovalRequest \ {a} : decisions'[b] = decisions[b]
    BY <1>2, <1>3
  <1>10. StatusSummarisesDecisions'
    <2>1. all # {} /\ st \notin {"NO_ROW", "PENDING"}
      BY <1>4
    <2> HIDE DEF all, a
    <2>2. ASSUME NEW b \in ApprovalRequest
          PROVE  /\ request'[b].status \in {"NO_ROW", "PENDING"} <=> decisions'[b] = {}
                 /\ request'[b].status = "APPROVED" => \A d \in decisions'[b] : d.verdict = "APPROVE"
                 /\ request'[b].status = "REJECTED" => \E d \in decisions'[b] : d.verdict = "REJECT"
      <3>1. CASE b = a
        BY <1>4, <1>5, <1>8, <1>9, <2>1, <3>1
      <3>2. CASE b # a
        BY <1>8, <1>9, <3>2 DEF DecisionInv, StatusSummarisesDecisions
      <3> QED
        BY <3>1, <3>2
    <2> QED
      BY <2>2 DEF StatusSummarisesDecisions
  <1>11. \A d \in Caller : call'[d].op = "decide" =>
           call'[d] = call[d] /\ call[d].request \in ApprovalRequest \ {a}
    <2>1. \A d \in Caller : call'[d].op = "decide" => d # c /\ call'[d] = call[d]
      BY <1>3 DEF Idle
    <2>2. \A d \in Caller : call[d].op = "decide" => call[d].request \in ApprovalRequest
      BY CallKinds DEF DecideCall
    <2> QED
      BY <1>2, <2>1, <2>2 DEF DecisionInv, DecidersHoldLock
  <1>12. DecidersHoldLock'
    BY <1>8, <1>9, <1>11 DEF DecisionInv, DecidersHoldLock, DecidedIssues
  <1> QED
    BY <1>7, <1>10, <1>12 DEF DecisionInv

LEMMA DecisionInvNext == TypeOK /\ DecisionInv /\ [Next]_vars => DecisionInv'
  <1> SUFFICES ASSUME TypeOK, DecisionInv, [Next]_vars PROVE DecisionInv'
    OBVIOUS
  <1>1. ASSUME NEW c \in Caller, CorrectionNext(c) \/ RunNext(c) PROVE DecisionInv'
    BY <1>1, OthersLeaveDecisions, DecisionInvStays
  <1>2. ASSUME NEW c \in Caller, ApprovalNext(c) PROVE DecisionInv'
    <2>1. ASSUME NEW r \in Run, Submit(c, r) PROVE DecisionInv'
      BY <2>1, DecisionInvStays DEF Submit, db, TypeOK
    <2>2. CASE OutOfRequests(c)
      BY <2>2, DecisionInvStays DEF OutOfRequests, RollBack, Finish, Idle, db, TypeOK
    <2> QED
      BY <1>2, <2>1, <2>2, SubmitKeepsDecisions, LockingKeepsDecisions, CommitKeepsDecisions
         DEF ApprovalNext
  <1>3. CASE UNCHANGED vars
    BY <1>3, DecisionInvStays DEF vars, db
  <1> QED
    BY <1>1, <1>2, <1>3 DEF Next

LEMMA DecisionInvInit == Init => DecisionInv
  BY DEF Init, DecisionInv, NoIssueDecidedTwice, StatusSummarisesDecisions, DecidersHoldLock, Idle

LEMMA DecisionInvCorrect == Spec => []DecisionInv
  BY TypeCorrect, DecisionInvInit, DecisionInvNext, PTL DEF Spec

\* Two approvers who decide the same request at the same moment never decide
\* the same issue: the row lock suffices, with any number of callers.
THEOREM NoDoubleDecision == Spec => []NoIssueDecidedTwice
  BY DecisionInvCorrect, PTL DEF DecisionInv

\* A request is shown as APPROVED only if nobody rejected any part of it, and as
\* PENDING only while nothing of it is decided.
THEOREM StatusIsSummary == Spec => []StatusSummarisesDecisions
  BY DecisionInvCorrect, PTL DEF DecisionInv

-----------------------------------------------------------------------------
(* Requests that overlap                                                   *)
(*                                                                         *)
(* The theorems of this part hold for any number of callers.  Each names   *)
(* the overlaps it has to exclude, and no others; where the API serves one *)
(* request at a time it excludes nothing.                                  *)

Deciding(c) == IF call[c].op = "decision" THEN call[c].issues ELSE {}

\* Two decisions in flight are about different issues.
DecisionsApart == \A c, d \in Caller : c # d => Deciding(c) \cap Deciding(d) = {}

\* While a run is being submitted nobody decides an issue of it.
SubmitsApart ==
  \A c, d \in Caller :
    call[c].op = "submit" => \A i \in Deciding(d) : RunOf[i] # call[c].run

ChangesRun(c) ==
  \/ call[c].op \in {"submit", "archive", "restore"}
  \/ call[c].op \in {"generate", "ai_start", "ai_generate"} /\ call[c].wasDraft

\* Two requests in flight that will write the status of a run are about
\* different runs.
StatusApart ==
  \A c, d \in Caller :
    c # d /\ ChangesRun(c) /\ ChangesRun(d) => call[c].run # call[d].run

\* The issues of a bulk action are issues of the run in its URL.
BulkWithinRun ==
  \A c \in Caller, r \in Run, issues \in SUBSET Issue, action \in TerminalStatus :
    BulkAction(c, r, issues, action) =>
      \E q \in Run : issues \subseteq IssuesOf(q) /\ BulkAction(c, q, issues, action)

\* Approvers decide open requests only.
OpenOnly == "decide_closed" \notin Endpoint

\* One request at a time is a special case of all of them.
LEMMA OneCallerIsApart ==
  ASSUME \A c, d \in Caller : c = d
  PROVE  DecisionsApart /\ SubmitsApart /\ StatusApart
  BY DEF DecisionsApart, SubmitsApart, StatusApart, Deciding

\* A step of one caller leaves the calls of the others alone.
LEMMA OtherCalls ==
  ASSUME TypeOK, NEW c \in Caller, CorrectionNext(c) \/ ApprovalNext(c) \/ RunNext(c),
         NEW d \in Caller, d # c
  PROVE  call'[d] = call[d]
  <1> USE DEF TypeOK, RollBack, Finish
  <1>1. CASE CorrectionNext(c)
    <2>1. ASSUME NEW r, NEW issues, NEW new, NEW b, Decide(c, r, issues, new, b)
          PROVE  call'[d] = call[d]
      BY <2>1 DEF Decide
    <2> QED
      BY <1>1, <2>1 DEF CorrectionNext, Accept, Reject, Edit, Skip, CorrectDirectly, BulkAction,
           CheckNotTerminal, RefuseTerminal, ReadCorrection, CommitDecision, FailDecision
  <1>2. CASE ApprovalNext(c)
    BY <1>2 DEF ApprovalNext, Submit, CommitSubmit, OutOfRequests, DecideRequest, CommitDecide
  <1>3. CASE RunNext(c)
    BY <1>3 DEF RunNext, Archive, Restore, Generate, AiGenerate, CommitArchive, CommitRestore,
                GenerateBatch, FinishGenerate, AiStartReview, FinishAi, AiSuggest
  <1> QED
    BY <1>1, <1>2, <1>3

-----------------------------------------------------------------------------
(* Decisions of different issues                                           *)

\* What a decision has read is still there when it is written.
DecisionSeen(c) ==
  call[c].op = "decision" =>
    /\ call[c].unread \subseteq call[c].issues
    /\ \A i \in call[c].issues \ call[c].unread : call[c].saw[i] = correction[i]
    /\ call[c].at = "upserting" => ~AnyTerminal(call[c].issues)
    /\ call[c].new.suggestion # None => call[c].issues = {IssueOf[call[c].new.suggestion]}
    /\ Selects(call[c].new) => call[c].sawSelected = (call[c].new.suggestion \in selected)

\* The runs of the issues it decides were not submitted.
GuardSeen(c) ==
  call[c].op = "decision" =>
    \A i \in call[c].issues : runStatus[RunOf[i]] # "READY_FOR_APPROVAL"

\* What the other services have read of the status of requests and runs.
StatusSeen(c) ==
  /\ call[c].op \in {"submit", "archive"} => OpenRequests(call[c].run) = {}
  /\ call[c].op = "restore" => runStatus[call[c].run] = "ARCHIVED"
  /\ call[c].op \in {"generate", "ai_start", "ai_generate"} /\ call[c].wasDraft =>
       runStatus[call[c].run] = "DRAFT"
  /\ call[c].op = "decide" => Open(call[c].request)

\* What submit and decide have read of the scope.
ScopeSeen(c) ==
  /\ call[c].op = "submit" => call[c].affected = Cardinality(ResolvedScope(call[c].run))
  /\ call[c].op = "decide" =>
       /\ call[c].remaining = Remaining(call[c].request)
       /\ call[c].issues \subseteq call[c].remaining

RunSeen(c) == StatusSeen(c) /\ ScopeSeen(c)

\* The first step of a decision, whichever operation it belongs to.
Begins(c) ==
  \E r \in Run, issues \in SUBSET Issue, new \in CorrectionRow, b \in BOOLEAN :
    /\ Decide(c, r, issues, new, b)
    /\ new.suggestion # None => issues = {IssueOf[new.suggestion]}
    /\ Selects(new) => b = (new.suggestion \in selected)
    /\ BulkWithinRun => \A i \in issues : RunOf[i] = r

LEMMA DecisionBegins ==
  ASSUME TypeOK, NEW c \in Caller,
         \/ \E s \in Suggestion : Accept(c, s) \/ Reject(c, s) \/ (\E v \in Value : Edit(c, s, v))
         \/ \E i \in Issue : Skip(c, i) \/ (\E v \in Value : CorrectDirectly(c, i, v))
         \/ \E r \in Run, issues \in SUBSET Issue, action \in TerminalStatus :
              BulkAction(c, r, issues, action)
  PROVE  Begins(c)
  <1> USE DEF ResolvedStatus, TerminalStatus, SuggestionSource
  <1>0. ASSUME NEW r \in Run, NEW issues \in SUBSET Issue, NEW new \in CorrectionRow, NEW b \in BOOLEAN,
               Decide(c, r, issues, new, b),
               new.suggestion # None => issues = {IssueOf[new.suggestion]},
               Selects(new) => b = (new.suggestion \in selected),
               BulkWithinRun => \A i \in issues : RunOf[i] = r
        PROVE  Begins(c)
    BY <1>0 DEF Begins
  <1>1. ASSUME NEW s \in Suggestion, Accept(c, s) PROVE Begins(c)
    <2> DEFINE new == [status |-> "ACCEPTED", suggestion |-> s, value |-> SuggestedValue[s],
                       source |-> SourceOf[s]]
    <2>1. SuggestedValue[s] \in Value /\ SourceOf[s] \in SuggestionSource
      BY <1>1, ReviewConstants DEF Accept
    <2>2. new \in CorrectionRow /\ new.suggestion = s
      BY <2>1 DEF CorrectionRow
    <2>3. RunOf[IssueOf[s]] \in Run /\ {IssueOf[s]} \in SUBSET Issue /\ (s \in selected) \in BOOLEAN
      BY ReviewConstants
    <2>4. Decide(c, RunOf[IssueOf[s]], {IssueOf[s]}, new, s \in selected)
      BY <1>1 DEF Accept
    <2> HIDE DEF new
    <2> QED
      BY <1>0, <2>2, <2>3, <2>4
  <1>2. ASSUME NEW s \in Suggestion, Reject(c, s) PROVE Begins(c)
    <2> DEFINE new == [status |-> "REJECTED", suggestion |-> s, value |-> None, source |-> SourceOf[s]]
    <2>1. new \in CorrectionRow /\ new.suggestion = s /\ ~Selects(new)
      BY ReviewConstants DEF CorrectionRow, Selects
    <2>2. RunOf[IssueOf[s]] \in Run /\ {IssueOf[s]} \in SUBSET Issue
      BY ReviewConstants
    <2>3. Decide(c, RunOf[IssueOf[s]], {IssueOf[s]}, new, FALSE)
      BY <1>2 DEF Reject
    <2> HIDE DEF new
    <2> QED
      BY <1>0, <2>1, <2>2, <2>3
  <1>3. ASSUME NEW s \in Suggestion, NEW v \in Value, Edit(c, s, v) PROVE Begins(c)
    <2> DEFINE new == [status |-> "EDITED", suggestion |-> s, value |-> v, source |-> "HUMAN"]
    <2>1. new \in CorrectionRow /\ new.suggestion = s
      BY DEF CorrectionRow
    <2>2. RunOf[IssueOf[s]] \in Run /\ {IssueOf[s]} \in SUBSET Issue /\ (s \in selected) \in BOOLEAN
      BY ReviewConstants
    <2>3. Decide(c, RunOf[IssueOf[s]], {IssueOf[s]}, new, s \in selected)
      BY <1>3 DEF Edit
    <2> HIDE DEF new
    <2> QED
      BY <1>0, <2>1, <2>2, <2>3
  <1>4. \A status \in TerminalStatus :
          Undecidable(status) \in CorrectionRow /\ Undecidable(status).suggestion = None
          /\ ~Selects(Undecidable(status))
    BY DEF Undecidable, CorrectionRow, Selects
  <1>5. ASSUME NEW i \in Issue, Skip(c, i) PROVE Begins(c)
    <2>1. RunOf[i] \in Run /\ {i} \in SUBSET Issue
      BY ReviewConstants
    <2> QED
      BY <1>0, <1>4, <1>5, <2>1 DEF Skip
  <1>6. ASSUME NEW i \in Issue, NEW v \in Value, CorrectDirectly(c, i, v) PROVE Begins(c)
    <2> DEFINE new == [status |-> "EDITED", suggestion |-> None, value |-> v, source |-> "HUMAN"]
    <2>1. new \in CorrectionRow /\ new.suggestion = None /\ ~Selects(new)
      BY DEF CorrectionRow, Selects
    <2>2. RunOf[i] \in Run /\ {i} \in SUBSET Issue
      BY ReviewConstants
    <2>3. Decide(c, RunOf[i], {i}, new, FALSE)
      BY <1>6 DEF CorrectDirectly
    <2> HIDE DEF new
    <2> QED
      BY <1>0, <2>1, <2>2, <2>3
  <1>7. ASSUME NEW r \in Run, NEW issues \in SUBSET Issue, NEW action \in TerminalStatus,
               BulkAction(c, r, issues, action)
        PROVE  Begins(c)
    <2>1. PICK q \in Run : /\ Decide(c, q, issues, Undecidable(action), FALSE)
                           /\ BulkWithinRun => \A i \in issues : RunOf[i] = q
      <3>1. CASE BulkWithinRun
        <4>1. PICK q \in Run : issues \subseteq IssuesOf(q) /\ BulkAction(c, q, issues, action)
          BY <1>7, <3>1 DEF BulkWithinRun
        <4> QED
          BY <4>1 DEF BulkAction, IssuesOf
      <3>2. CASE ~BulkWithinRun
        BY <1>7, <3>2 DEF BulkAction
      <3> QED
        BY <3>1, <3>2
    <2> HIDE DEF TerminalStatus
    <2> QED
      BY <1>0, <1>4, <2>1
  <1> QED
    BY <1>1, <1>2, <1>3, <1>5, <1>6, <1>7

\* The steps of a decision before its commit change nothing but the call, and
\* what the call has seen stays true.
LEMMA DecisionLooks ==
  ASSUME TypeOK, NEW c \in Caller, DecisionSeen(c), CorrectionNext(c), ~CommitDecision(c)
  PROVE  UNCHANGED db /\ DecisionSeen(c)'
  <1>1. CASE Begins(c)
    <2>1. PICK r \in Run, issues \in SUBSET Issue, new \in CorrectionRow, b \in BOOLEAN :
            /\ Decide(c, r, issues, new, b)
            /\ new.suggestion # None => issues = {IssueOf[new.suggestion]}
            /\ Selects(new) => b = (new.suggestion \in selected)
      BY <1>1 DEF Begins
    <2>2. /\ UNCHANGED db
          /\ call'[c].op = "decision" /\ call'[c].at = "begun" /\ call'[c].issues = issues
          /\ call'[c].unread = issues /\ call'[c].new = new /\ call'[c].sawSelected = b
      BY <2>1 DEF Decide, TypeOK
    <2>3. selected' = selected
      BY <2>2 DEF db
    <2> QED
      BY <2>1, <2>2, <2>3 DEF DecisionSeen, Selects
  <1>2. CASE CheckNotTerminal(c)
    <2>1. call[c] \in DecisionCall
      BY <1>2, CallKinds DEF CheckNotTerminal, TypeOK
    <2>2. call'[c] = [call[c] EXCEPT !.at = "upserting"] /\ UNCHANGED db
      BY <1>2 DEF CheckNotTerminal, TypeOK
    <2>3. /\ call'[c].op = "decision" /\ call'[c].issues = call[c].issues
          /\ call'[c].unread = call[c].unread /\ call'[c].new = call[c].new
          /\ call'[c].saw = call[c].saw /\ call'[c].sawSelected = call[c].sawSelected
      BY <2>1, <2>2 DEF DecisionCall
    <2>4. ~AnyTerminal(call[c].issues) /\ call[c].op = "decision"
      BY <1>2 DEF CheckNotTerminal
    <2>5. correction' = correction /\ selected' = selected
      BY <2>2 DEF db
    <2>6. ~AnyTerminal(call[c].issues)'
      BY <2>3, <2>4, <2>5 DEF AnyTerminal
    <2> QED
      BY <2>2, <2>3, <2>4, <2>5, <2>6 DEF DecisionSeen, Selects
  <1>3. CASE RefuseTerminal(c) \/ FailDecision(c)
    <2>1. call'[c] = Idle /\ UNCHANGED db
      BY <1>3 DEF RefuseTerminal, FailDecision, RollBack, Finish, TypeOK
    <2> QED
      BY <2>1 DEF DecisionSeen, Idle
  <1>4. ASSUME NEW i \in Issue, ReadCorrection(c, i) PROVE UNCHANGED db /\ DecisionSeen(c)'
    <2>1. call[c] \in DecisionCall
      BY <1>4, CallKinds DEF ReadCorrection, TypeOK
    <2>2. call'[c] = [call[c] EXCEPT !.unread = @ \ {i}, !.saw[i] = correction[i]] /\ UNCHANGED db
      BY <1>4 DEF ReadCorrection, TypeOK
    <2>3. /\ call'[c].op = "decision" /\ call'[c].issues = call[c].issues
          /\ call'[c].unread = call[c].unread \ {i} /\ call'[c].new = call[c].new
          /\ call'[c].saw = [call[c].saw EXCEPT ![i] = correction[i]]
          /\ call'[c].sawSelected = call[c].sawSelected /\ call'[c].at = call[c].at
      BY <2>1, <2>2 DEF DecisionCall
    <2>4. \A j \in Issue : call'[c].saw[j] = IF j = i THEN correction[i] ELSE call[c].saw[j]
      BY <2>1, <2>3 DEF DecisionCall
    <2>5. call[c].issues \subseteq Issue /\ call[c].op = "decision"
      BY <2>1 DEF DecisionCall
    <2>6. correction' = correction /\ selected' = selected
      BY <2>2 DEF db
    <2>7. \A j \in call'[c].issues \ call'[c].unread : call'[c].saw[j] = correction'[j]
      BY <2>3, <2>4, <2>5, <2>6 DEF DecisionSeen
    <2>8. call'[c].at = "upserting" => ~AnyTerminal(call[c].issues)'
      BY <2>3, <2>5, <2>6 DEF DecisionSeen, AnyTerminal
    <2> QED
      BY <2>2, <2>3, <2>5, <2>6, <2>7, <2>8 DEF DecisionSeen, Selects
  <1> QED
    BY <1>1, <1>2, <1>3, <1>4, DecisionBegins DEF CorrectionNext

\* A decision that is written is written as it was meant, on issues that were
\* not decided for good.
LEMMA DecisionWrites ==
  ASSUME TypeOK, NEW c \in Caller, DecisionSeen(c), CommitDecision(c)
  PROVE  /\ call'[c] = Idle
         /\ UNCHANGED <<runStatus, suggestions, request, decisions>>
         /\ call[c] \in DecisionCall
         /\ ~AnyTerminal(call[c].issues)
         /\ \A i \in Issue :
              correction'[i] = IF i \in call[c].issues THEN call[c].new ELSE correction[i]
         /\ ~Selects(call[c].new) => selected' = selected
         /\ Selects(call[c].new) =>
              /\ call[c].issues = {IssueOf[call[c].new.suggestion]}
              /\ call[c].new.suggestion \in selected'
              /\ selected' = (selected \ OtherSelected(call[c].new.suggestion))
                               \cup {call[c].new.suggestion}
  <1> DEFINE k == call[c]
  <1>1. k \in DecisionCall /\ call[c].at = "upserting" /\ k.op = "decision" /\ k.unread = {}
    BY CallKinds DEF CommitDecision, ReadyToWrite, TypeOK
  <1>2. call'[c] = Idle /\ UNCHANGED <<runStatus, suggestions, request, decisions>>
    BY DEF CommitDecision, Finish, TypeOK
  <1>3. \A i \in k.issues : k.saw[i] = correction[i]
    BY <1>1 DEF DecisionSeen
  <1>4. k.new \in CorrectionRow /\ k.issues \subseteq Issue
    BY <1>1 DEF DecisionCall
  <1>5. ASSUME NEW row \in CorrectionRow PROVE Upserted(row, row, k.new) = k.new
    BY <1>4, <1>5 DEF Upserted, Flushed, CorrectionRow
  <1>6. \A i \in Issue : correction'[i] = IF i \in k.issues THEN k.new ELSE correction[i]
    <2>1. \A i \in Issue :
            correction'[i] = IF i \in k.issues THEN Upserted(correction[i], k.saw[i], k.new)
                             ELSE correction[i]
      BY DEF CommitDecision
    <2>2. \A i \in Issue : correction[i] \in CorrectionRow
      BY DEF TypeOK
    <2> HIDE DEF k
    <2> QED
      BY <1>3, <1>5, <2>1, <2>2
  <1>7. selected' = IF ~Selects(k.new) THEN selected
                    ELSE (selected \ OtherSelected(k.new.suggestion))
                           \cup (IF k.sawSelected THEN {} ELSE {k.new.suggestion})
    BY DEF CommitDecision
  <1>8. ~AnyTerminal(k.issues) /\ (Selects(k.new) => k.sawSelected = (k.new.suggestion \in selected))
    BY <1>1 DEF DecisionSeen
  <1>9. k.new.suggestion \notin OtherSelected(k.new.suggestion)
    BY DEF OtherSelected
  <1>10. Selects(k.new) => k.issues = {IssueOf[k.new.suggestion]}
    BY <1>1 DEF DecisionSeen, Selects
  <1>11. Selects(k.new) => /\ k.new.suggestion \in selected'
                           /\ selected' = (selected \ OtherSelected(k.new.suggestion)) \cup {k.new.suggestion}
    <2> HIDE DEF k
    <2> QED
      BY <1>7, <1>8, <1>9
  <1> QED
    BY <1>1, <1>2, <1>6, <1>7, <1>8, <1>10, <1>11

\* The other services touch no correction and no selection, and leave no
\* decision in flight.
LEMMA OthersLeaveCorrections ==
  ASSUME TypeOK, NEW c \in Caller, ApprovalNext(c) \/ RunNext(c)
  PROVE  /\ UNCHANGED <<correction, selected>>
         /\ call'[c].op # "decision"
  <1> USE DEF TypeOK, db
  <1>1. CASE \E r \in Run : Submit(c, r) \/ Archive(c, r) \/ Restore(c, r)
                            \/ Generate(c, r) \/ AiGenerate(c, r)
    BY <1>1 DEF Submit, Archive, Restore, Generate, AiGenerate
  <1>2. CASE CommitSubmit(c) \/ OutOfRequests(c) \/ CommitDecide(c)
    BY <1>2 DEF CommitSubmit, OutOfRequests, CommitDecide, RollBack, Finish, Idle
  <1>3. CASE \E a \in ApprovalRequest, verdict \in {"APPROVE", "REJECT"}, issues \in SUBSET Issue :
               DecideRequest(c, a, verdict, issues)
    BY <1>3 DEF DecideRequest
  <1>4. CASE CommitArchive(c) \/ CommitRestore(c) \/ FinishGenerate(c) \/ FinishAi(c)
    BY <1>4 DEF CommitArchive, CommitRestore, FinishGenerate, FinishAi, RollBack, Finish, Idle
  <1>5. ASSUME NEW batch \in SUBSET Issue, NEW added \in SUBSET Suggestion,
               GenerateBatch(c, batch, added)
        PROVE  UNCHANGED <<correction, selected>> /\ call'[c].op # "decision"
    <2>1. call[c] \in GenerateCall
      BY <1>5, CallKinds DEF GenerateBatch
    <2> QED
      BY <1>5, <2>1 DEF GenerateBatch, GenerateCall
  <1>6. CASE AiStartReview(c)
    <2>1. call[c] \in GenerateCall
      BY <1>6, CallKinds DEF AiStartReview
    <2> QED
      BY <1>6, <2>1 DEF AiStartReview, GenerateCall
  <1>7. ASSUME NEW i \in Issue, NEW added \in SUBSET Suggestion, AiSuggest(c, i, added)
        PROVE  UNCHANGED <<correction, selected>> /\ call'[c].op # "decision"
    <2>1. call[c] \in GenerateCall
      BY <1>7, CallKinds DEF AiSuggest
    <2> QED
      BY <1>7, <2>1 DEF AiSuggest, GenerateCall
  <1> QED
    BY <1>1, <1>2, <1>3, <1>4, <1>5, <1>6, <1>7 DEF ApprovalNext, RunNext

SeenInv == (\A c \in Caller : DecisionSeen(c)) /\ SelectionFollowsCorrection

LEMMA SeenInvInit == Init => SeenInv
  BY DEF Init, SeenInv, DecisionSeen, Idle, SelectionFollowsCorrection, NoCorrection, ResolvedStatus

\* Nothing happens to what a decision in flight has read as long as nothing
\* happens to its issues.
LEMMA DecisionSeenStays ==
  ASSUME NEW d \in Caller, DecisionSeen(d), call'[d] = call[d],
         \A i \in Deciding(d) : correction'[i] = correction[i],
         \A s : IssueOf[s] \in Deciding(d) => (s \in selected' <=> s \in selected)
  PROVE  DecisionSeen(d)'
  <1> SUFFICES ASSUME call[d].op = "decision" PROVE DecisionSeen(d)'
    BY DEF DecisionSeen
  <1>1. Deciding(d) = call[d].issues
    BY DEF Deciding
  <1>2. \A i \in call[d].issues \ call[d].unread : call[d].saw[i] = correction'[i]
    BY <1>1 DEF DecisionSeen
  <1>3. call[d].at = "upserting" => \A i \in call[d].issues : correction'[i].status \notin TerminalStatus
    BY <1>1 DEF DecisionSeen, AnyTerminal
  <1>4. Selects(call[d].new) => call[d].sawSelected = (call[d].new.suggestion \in selected')
    <2> SUFFICES ASSUME Selects(call[d].new)
                 PROVE  call[d].sawSelected = (call[d].new.suggestion \in selected')
      OBVIOUS
    <2>1. IssueOf[call[d].new.suggestion] \in Deciding(d)
      BY <1>1 DEF DecisionSeen, Selects
    <2> QED
      BY <2>1 DEF DecisionSeen
  <1> QED
    BY <1>2, <1>3, <1>4 DEF DecisionSeen, AnyTerminal, Selects

LEMMA SeenInvNext ==
  ASSUME DecisionsApart, TypeOK, SeenInv, [Next]_vars
  PROVE  SeenInv'
  <1>0. ASSUME NEW c \in Caller, CorrectionNext(c) \/ ApprovalNext(c) \/ RunNext(c),
               UNCHANGED <<correction, selected>>, DecisionSeen(c)'
        PROVE  SeenInv'
    <2>1. ASSUME NEW d \in Caller PROVE DecisionSeen(d)'
      <3>1. CASE d = c
        BY <1>0, <3>1
      <3>2. CASE d # c
        <4>1. call'[d] = call[d]
          BY <1>0, <3>2, OtherCalls
        <4> QED
          BY <1>0, <4>1, DecisionSeenStays DEF SeenInv
      <3> QED
        BY <3>1, <3>2
    <2> QED
      BY <1>0, <2>1 DEF SeenInv, SelectionFollowsCorrection
  <1>1. ASSUME NEW c \in Caller, CorrectionNext(c), ~CommitDecision(c) PROVE SeenInv'
    <2>1. UNCHANGED db /\ DecisionSeen(c)'
      BY <1>1, DecisionLooks DEF SeenInv
    <2> QED
      BY <1>0, <1>1, <2>1 DEF db
  <1>2. ASSUME NEW c \in Caller, CommitDecision(c) PROVE SeenInv'
    <2> DEFINE new == call[c].new
    <2>1. /\ call'[c] = Idle
          /\ call[c] \in DecisionCall
          /\ \A i \in Issue : correction'[i] = IF i \in call[c].issues THEN new ELSE correction[i]
          /\ ~Selects(new) => selected' = selected
          /\ Selects(new) =>
               /\ call[c].issues = {IssueOf[new.suggestion]}
               /\ selected' = (selected \ OtherSelected(new.suggestion)) \cup {new.suggestion}
      BY <1>2, DecisionWrites DEF SeenInv
    <2>2. call[c].op = "decision" /\ Deciding(c) = call[c].issues
      BY <2>1 DEF DecisionCall, Deciding
    <2> HIDE DEF new
    <2>3. ASSUME NEW s, IssueOf[s] \notin call[c].issues
          PROVE  s \in selected' <=> s \in selected
      BY <2>1, <2>3 DEF OtherSelected
    <2>4. ASSUME NEW d \in Caller PROVE DecisionSeen(d)'
      <3>1. CASE d = c
        BY <2>1, <3>1 DEF DecisionSeen, Idle
      <3>2. CASE d # c
        <4>1. call'[d] = call[d]
          BY <1>2, <3>2, OtherCalls DEF CorrectionNext
        <4>2. Deciding(d) \cap call[c].issues = {}
          BY <2>2, <3>2 DEF DecisionsApart
        <4>3. call[d] \in Calls
          BY DEF TypeOK
        <4>4. Deciding(d) \subseteq Issue
          BY <4>3, CallKinds DEF Deciding, DecisionCall
        <4>5. \A i \in Deciding(d) : correction'[i] = correction[i]
          BY <2>1, <4>2, <4>4
        <4>6. \A s : IssueOf[s] \in Deciding(d) => (s \in selected' <=> s \in selected)
          BY <2>3, <4>2
        <4> QED
          BY <4>1, <4>5, <4>6, DecisionSeenStays DEF SeenInv
      <3> QED
        BY <3>1, <3>2
    <2>5. ASSUME NEW i \in Issue, correction'[i].suggestion # None, correction'[i].status \in ResolvedStatus
          PROVE  {s \in selected' : IssueOf[s] = i} = {correction'[i].suggestion}
      <3>1. CASE i \in call[c].issues
        <4>1. Selects(new) /\ correction'[i] = new
          BY <2>1, <2>5, <3>1 DEF Selects
        <4>2. i = IssueOf[new.suggestion]
          BY <2>1, <3>1, <4>1
        <4> QED
          BY <2>1, <4>1, <4>2 DEF OtherSelected
      <3>2. CASE i \notin call[c].issues
        <4>1. correction'[i] = correction[i]
          BY <2>1, <3>2
        <4>2. {s \in selected : IssueOf[s] = i} = {correction[i].suggestion}
          BY <2>5, <4>1 DEF SeenInv, SelectionFollowsCorrection
        <4>3. {s \in selected' : IssueOf[s] = i} = {s \in selected : IssueOf[s] = i}
          BY <2>3, <3>2
        <4> QED
          BY <4>1, <4>2, <4>3
      <3> QED
        BY <3>1, <3>2
    <2> QED
      BY <2>4, <2>5 DEF SeenInv, SelectionFollowsCorrection
  <1>3. ASSUME NEW c \in Caller, ApprovalNext(c) \/ RunNext(c) PROVE SeenInv'
    <2>1. UNCHANGED <<correction, selected>> /\ call'[c].op # "decision"
      BY <1>3, OthersLeaveCorrections
    <2>2. DecisionSeen(c)'
      BY <2>1 DEF DecisionSeen
    <2> QED
      BY <1>0, <1>3, <2>1, <2>2
  <1>4. CASE UNCHANGED vars
    BY <1>4 DEF vars, db, SeenInv, DecisionSeen, SelectionFollowsCorrection, AnyTerminal, Selects
  <1> QED
    BY <1>1, <1>2, <1>3, <1>4 DEF Next

\* Unless two decisions of the same issue overlap, the suggestion shown as
\* selected is the one the corrected value came from, through every sequence
\* of accepting, editing, rejecting, skipping, correcting and bulk deciding
\* (_clear_other_selections and _upsert_correction).
THEOREM SelectionIsTheSource == Spec /\ []DecisionsApart => []SelectionFollowsCorrection
  <1>1. TypeOK /\ SeenInv /\ DecisionsApart /\ [Next]_vars => SeenInv'
    BY SeenInvNext
  <1>2. SeenInv => SelectionFollowsCorrection
    BY DEF SeenInv
  <1> QED
    BY TypeCorrect, SeenInvInit, <1>1, <1>2, PTL DEF Spec

\* Unless two decisions of the same issue overlap, an issue that was rejected or
\* skipped keeps that decision (_check_not_terminal).
THEOREM TerminalIsFinal == Spec /\ []DecisionsApart => TerminalDecisionsAreFinal
  <1> DEFINE Keeps == \A i \in Issue :
                        correction[i].status \in TerminalStatus => correction'[i] = correction[i]
  <1>1. TypeOK /\ SeenInv /\ DecisionsApart /\ [Next]_vars => SeenInv'
    BY SeenInvNext
  <1>2. TypeOK /\ SeenInv /\ [Next]_vars => [Keeps]_vars
    <2> SUFFICES ASSUME TypeOK, SeenInv, Next PROVE Keeps
      OBVIOUS
    <2>1. ASSUME NEW c \in Caller, CorrectionNext(c), ~CommitDecision(c) PROVE Keeps
      BY <2>1, DecisionLooks DEF SeenInv, db
    <2>2. ASSUME NEW c \in Caller, CommitDecision(c) PROVE Keeps
      <3>1. /\ ~AnyTerminal(call[c].issues)
            /\ \A i \in Issue :
                 correction'[i] = IF i \in call[c].issues THEN call[c].new ELSE correction[i]
        BY <2>2, DecisionWrites DEF SeenInv
      <3> QED
        BY <3>1 DEF AnyTerminal
    <2>3. ASSUME NEW c \in Caller, ApprovalNext(c) \/ RunNext(c) PROVE Keeps
      BY <2>3, OthersLeaveCorrections
    <2> QED
      BY <2>1, <2>2, <2>3 DEF Next
  <1> QED
    BY TypeCorrect, SeenInvInit, <1>1, <1>2, PTL DEF Spec, TerminalDecisionsAreFinal

-----------------------------------------------------------------------------
(* Submitted runs                                                          *)

\* What a decision in flight leaves behind, and what it leaves alone.
LEMMA CorrectionCalls ==
  ASSUME TypeOK, NEW c \in Caller, CorrectionNext(c)
  PROVE  /\ UNCHANGED <<runStatus, request, decisions>>
         /\ call'[c].op \in {"decision", "idle"}
  <1> USE DEF TypeOK, db
  <1>1. CASE Begins(c)
    BY <1>1 DEF Begins, Decide
  <1>2. CASE CheckNotTerminal(c)
    <2>1. call[c] \in DecisionCall
      BY <1>2, CallKinds DEF CheckNotTerminal
    <2> QED
      BY <1>2, <2>1 DEF CheckNotTerminal, DecisionCall
  <1>3. CASE RefuseTerminal(c) \/ FailDecision(c) \/ CommitDecision(c)
    BY <1>3 DEF RefuseTerminal, FailDecision, CommitDecision, RollBack, Finish, Idle
  <1>4. ASSUME NEW i \in Issue, ReadCorrection(c, i)
        PROVE  /\ UNCHANGED <<runStatus, request, decisions>>
               /\ call'[c].op \in {"decision", "idle"}
    <2>1. call[c] \in DecisionCall
      BY <1>4, CallKinds DEF ReadCorrection
    <2> QED
      BY <1>4, <2>1 DEF ReadCorrection, DecisionCall
  <1> QED
    BY <1>1, <1>2, <1>3, <1>4, DecisionBegins DEF CorrectionNext

\* The first step of the other operations: nothing is written, and what was
\* read of the run is what it is.
LEMMA OthersBegin ==
  ASSUME TypeOK, OpenOnly, NEW c \in Caller,
         \/ \E r \in Run : Submit(c, r) \/ Archive(c, r) \/ Restore(c, r)
                           \/ Generate(c, r) \/ AiGenerate(c, r)
         \/ \E a \in ApprovalRequest, verdict \in {"APPROVE", "REJECT"}, issues \in SUBSET Issue :
              DecideRequest(c, a, verdict, issues)
  PROVE  UNCHANGED db /\ RunSeen(c)' /\ call'[c].op # "decision"
  <1> USE DEF TypeOK
  <1>1. ASSUME UNCHANGED db
        PROVE  /\ \A r : OpenRequests(r)' = OpenRequests(r)
               /\ \A r : ResolvedScope(r)' = ResolvedScope(r)
               /\ \A a : Remaining(a)' = Remaining(a) /\ Open(a)' = Open(a)
               /\ runStatus' = runStatus
    BY <1>1 DEF db, OpenRequests, Open, ResolvedScope, Remaining, DecidedIssues
  <1>2. ASSUME NEW r \in Run, Submit(c, r)
        PROVE  UNCHANGED db /\ RunSeen(c)' /\ call'[c].op # "decision"
    <2>1. /\ UNCHANGED db /\ OpenRequests(r) = {}
          /\ call'[c] = [op |-> "submit", run |-> r, affected |-> Cardinality(ResolvedScope(r))]
      BY <1>2 DEF Submit
    <2> DEFINE k == call'[c]
    <2>2. k.op = "submit" /\ k.run = r /\ k.affected = Cardinality(ResolvedScope(r))
      BY <2>1
    <2>3. OpenRequests(r)' = {} /\ ResolvedScope(r)' = ResolvedScope(r)
      BY <1>1, <2>1
    <2> QED
      BY <2>1, <2>2, <2>3 DEF RunSeen, StatusSeen, ScopeSeen, OpenRequests, Open, ResolvedScope
  <1>3. ASSUME NEW r \in Run, Archive(c, r)
        PROVE  UNCHANGED db /\ RunSeen(c)' /\ call'[c].op # "decision"
    <2>1. /\ UNCHANGED db /\ OpenRequests(r) = {} /\ call'[c] = [op |-> "archive", run |-> r]
      BY <1>3 DEF Archive
    <2>2. call'[c].op = "archive" /\ call'[c].run = r /\ OpenRequests(r)' = {}
      BY <1>1, <2>1
    <2> QED
      BY <2>1, <2>2 DEF RunSeen, StatusSeen, ScopeSeen, OpenRequests, Open
  <1>4. ASSUME NEW r \in Run, Restore(c, r)
        PROVE  UNCHANGED db /\ RunSeen(c)' /\ call'[c].op # "decision"
    <2>1. /\ UNCHANGED db /\ runStatus[r] = "ARCHIVED" /\ call'[c] = [op |-> "restore", run |-> r]
      BY <1>4 DEF Restore
    <2>2. call'[c].op = "restore" /\ call'[c].run = r /\ runStatus' = runStatus
      BY <1>1, <2>1
    <2> QED
      BY <2>1, <2>2 DEF RunSeen, StatusSeen, ScopeSeen
  <1>5. ASSUME NEW r \in Run, Generate(c, r) \/ AiGenerate(c, r)
        PROVE  UNCHANGED db /\ RunSeen(c)' /\ call'[c].op # "decision"
    <2>1. /\ UNCHANGED db
          /\ call'[c].op \in {"generate", "ai_start"} /\ call'[c].run = r
          /\ call'[c].wasDraft = (runStatus[r] = "DRAFT")
      BY <1>5 DEF Generate, AiGenerate
    <2>2. runStatus' = runStatus
      BY <1>1, <2>1
    <2> QED
      BY <2>1, <2>2 DEF RunSeen, StatusSeen, ScopeSeen
  <1>6. ASSUME NEW a \in ApprovalRequest, NEW verdict \in {"APPROVE", "REJECT"},
               NEW issues \in SUBSET Issue, DecideRequest(c, a, verdict, issues)
        PROVE  UNCHANGED db /\ RunSeen(c)' /\ call'[c].op # "decision"
    <2>1. /\ UNCHANGED db /\ Open(a) /\ issues \subseteq Remaining(a)
          /\ call'[c] = [op |-> "decide", request |-> a, verdict |-> verdict, issues |-> issues,
                         remaining |-> Remaining(a)]
      BY <1>6 DEF DecideRequest, OpenOnly
    <2>2. /\ call'[c].op = "decide" /\ call'[c].request = a
          /\ call'[c].remaining = Remaining(a) /\ call'[c].issues = issues
      BY <2>1
    <2>3. Remaining(a)' = Remaining(a) /\ Open(a)'
      BY <1>1, <2>1
    <2> QED
      BY <2>1, <2>2, <2>3 DEF RunSeen, StatusSeen, ScopeSeen, Remaining, Open, ResolvedScope, DecidedIssues
  <1> QED
    BY <1>2, <1>3, <1>4, <1>5, <1>6

\* A generator takes its run into review if it was a draft, and nothing else.
DraftStarts(c) ==
  \A r \in Run : \/ runStatus'[r] = runStatus[r]
                 \/ /\ runStatus[r] = "DRAFT" /\ runStatus'[r] = "IN_REVIEW"
                    /\ ChangesRun(c) /\ r = call[c].run

LEMMA GeneratorSteps ==
  ASSUME TypeOK, NEW c \in Caller, StatusSeen(c),
         \/ FinishGenerate(c) \/ AiStartReview(c) \/ FinishAi(c)
         \/ \E batch \in SUBSET Issue, added \in SUBSET Suggestion : GenerateBatch(c, batch, added)
         \/ \E i \in Issue, added \in SUBSET Suggestion : AiSuggest(c, i, added)
  PROVE  /\ UNCHANGED <<request, decisions, correction>>
         /\ DraftStarts(c)
         /\ RunSeen(c)' /\ call'[c].op # "decision"
  <1> USE DEF TypeOK, db
  <1>0. runStatus' = runStatus => DraftStarts(c)
    BY DEF DraftStarts
  <1>1. ASSUME StartReview(c), call[c] \in GenerateCall PROVE DraftStarts(c)
    <2>1. call[c].wasDraft => runStatus[call[c].run] = "DRAFT"
      BY <1>1 DEF StatusSeen, GenerateCall
    <2>2. CASE call[c].wasDraft
      <3>1. runStatus' = [runStatus EXCEPT ![call[c].run] = "IN_REVIEW"]
        BY <1>1, <2>2 DEF StartReview
      <3>2. call[c].run \in Run /\ ChangesRun(c)
        BY <1>1, <2>2 DEF ChangesRun, GenerateCall
      <3> QED
        BY <2>1, <2>2, <3>1, <3>2 DEF DraftStarts
    <2>3. CASE ~call[c].wasDraft
      BY <1>0, <1>1, <2>3 DEF StartReview
    <2> QED
      BY <2>2, <2>3
  <1>2. ASSUME call'[c].op \in {"generate", "ai_generate"}, call'[c].wasDraft = FALSE
        PROVE  RunSeen(c)' /\ call'[c].op # "decision"
    BY <1>2 DEF RunSeen, StatusSeen, ScopeSeen
  <1>3. ASSUME call'[c] = Idle PROVE RunSeen(c)' /\ call'[c].op # "decision"
    BY <1>3 DEF RunSeen, StatusSeen, ScopeSeen, Idle
  <1>4. CASE FinishGenerate(c)
    <2>1. call[c] \in GenerateCall /\ call'[c] = Idle
      BY <1>4, CallKinds DEF FinishGenerate, Finish
    <2> QED
      BY <1>1, <1>3, <1>4, <2>1 DEF FinishGenerate
  <1>5. CASE FinishAi(c)
    <2>1. call'[c] = Idle /\ UNCHANGED db
      BY <1>5 DEF FinishAi, RollBack, Finish
    <2> QED
      BY <1>0, <1>3, <2>1
  <1>6. CASE AiStartReview(c)
    <2>1. call[c] \in GenerateCall
      BY <1>6, CallKinds DEF AiStartReview
    <2>2. call'[c].op = "ai_generate" /\ call'[c].wasDraft = FALSE
      BY <1>6, <2>1 DEF AiStartReview, GenerateCall
    <2> QED
      BY <1>1, <1>2, <1>6, <2>1, <2>2 DEF AiStartReview
  <1>7. ASSUME NEW batch \in SUBSET Issue, NEW added \in SUBSET Suggestion,
               GenerateBatch(c, batch, added)
        PROVE  /\ UNCHANGED <<request, decisions, correction>>
               /\ DraftStarts(c)
               /\ RunSeen(c)' /\ call'[c].op # "decision"
    <2>1. call[c] \in GenerateCall /\ call[c].op = "generate"
      BY <1>7, CallKinds DEF GenerateBatch
    <2>2. call'[c].op = "generate" /\ call'[c].wasDraft = FALSE
      BY <1>7, <2>1 DEF GenerateBatch, GenerateCall
    <2> QED
      BY <1>1, <1>2, <1>7, <2>1, <2>2 DEF GenerateBatch
  <1>8. ASSUME NEW i \in Issue, NEW added \in SUBSET Suggestion, AiSuggest(c, i, added)
        PROVE  /\ UNCHANGED <<request, decisions, correction, runStatus>>
               /\ RunSeen(c)' /\ call'[c].op # "decision"
    <2>1. call[c] \in GenerateCall /\ call[c].op = "ai_generate"
      BY <1>8, CallKinds DEF AiSuggest
    <2>2. /\ call'[c].op = "ai_generate" /\ call'[c].wasDraft = call[c].wasDraft
          /\ call'[c].run = call[c].run
      BY <1>8, <2>1 DEF AiSuggest, GenerateCall
    <2>3. UNCHANGED <<request, decisions, correction, runStatus>>
      BY <1>8 DEF AiSuggest
    <2>4. RunSeen(c)'
      BY <2>1, <2>2, <2>3 DEF RunSeen, StatusSeen, ScopeSeen
    <2> QED
      BY <2>2, <2>3, <2>4
  <1> QED
    BY <1>0, <1>4, <1>5, <1>6, <1>7, <1>8

\* The commits, by what they do to requests and runs.
LEMMA SubmitCommits ==
  ASSUME TypeOK, NEW c \in Caller, CommitSubmit(c)
  PROVE  /\ call[c].op = "submit" /\ call[c].run \in Run /\ call'[c] = Idle
         /\ UNCHANGED <<correction, decisions>>
         /\ runStatus' = [runStatus EXCEPT ![call[c].run] = "READY_FOR_APPROVAL"]
         /\ \E a \in ApprovalRequest :
              /\ request[a].status = "NO_ROW"
              /\ \A b \in ApprovalRequest \ {a} : request'[b] = request[b]
              /\ request'[a].status = "PENDING" /\ request'[a].run = call[c].run
              /\ request'[a].affected = call[c].affected
  <1>1. call[c] \in SubmitCall
    BY CallKinds DEF CommitSubmit, TypeOK
  <1>2. PICK a \in ApprovalRequest :
          /\ request[a].status = "NO_ROW"
          /\ request' = [request EXCEPT ![a] =
               [status |-> "PENDING", run |-> call[c].run, affected |-> call[c].affected]]
    BY DEF CommitSubmit
  <1>3. /\ \A b \in ApprovalRequest \ {a} : request'[b] = request[b]
        /\ request'[a] = [status |-> "PENDING", run |-> call[c].run, affected |-> call[c].affected]
    BY <1>2 DEF TypeOK
  <1> QED
    BY <1>1, <1>2, <1>3 DEF CommitSubmit, Finish, SubmitCall, TypeOK

LEMMA DecideCommits ==
  ASSUME TypeOK, NEW c \in Caller, CommitDecide(c)
  PROVE  /\ call[c] \in DecideCall /\ call'[c] = Idle
         /\ UNCHANGED <<correction, runStatus>>
         /\ \A b \in ApprovalRequest :
              /\ request'[b].run = request[b].run /\ request'[b].affected = request[b].affected
              /\ b # call[c].request => request'[b] = request[b] /\ decisions'[b] = decisions[b]
         /\ \A b \in ApprovalRequest :
              DecidedIssues(b)' = IF b = call[c].request THEN DecidedIssues(b) \cup call[c].issues
                                  ELSE DecidedIssues(b)
         /\ request'[call[c].request].status =
              RecomputedStatus(decisions'[call[c].request], call[c].remaining \ call[c].issues)
  <1> DEFINE a == call[c].request
             d == [verdict |-> call[c].verdict, issues |-> call[c].issues]
             all == decisions[a] \cup {d}
             left == call[c].remaining \ call[c].issues
  <1>1. call[c] \in DecideCall
    BY CallKinds DEF CommitDecide, TypeOK
  <1>2. a \in ApprovalRequest
    BY <1>1 DEF DecideCall
  <1>3. /\ decisions' = [decisions EXCEPT ![a] = all]
        /\ request' = [request EXCEPT ![a].status = RecomputedStatus(all, left)]
        /\ UNCHANGED <<correction, runStatus>> /\ call'[c] = Idle
    BY DEF CommitDecide, Finish, TypeOK
  <1>4. d.issues = call[c].issues
    OBVIOUS
  <1> HIDE DEF d, left
  <1>5. decisions'[a] = all /\ \A b \in ApprovalRequest \ {a} : decisions'[b] = decisions[b]
    BY <1>2, <1>3 DEF TypeOK
  <1> HIDE DEF all
  <1>6. /\ \A b \in ApprovalRequest :
             request'[b] = IF b = a THEN [request[a] EXCEPT !.status = RecomputedStatus(all, left)]
                           ELSE request[b]
    BY <1>2, <1>3 DEF TypeOK
  <1>7. \A b \in ApprovalRequest : request[b] \in RequestRow
    BY DEF TypeOK
  <1>8. /\ \A b \in ApprovalRequest : request'[b].run = request[b].run /\ request'[b].affected = request[b].affected
        /\ request'[a].status = RecomputedStatus(all, left)
    BY <1>2, <1>6, <1>7 DEF RequestRow
  <1>9. UNION {e.issues : e \in all} = (UNION {e.issues : e \in decisions[a]}) \cup call[c].issues
    BY <1>4 DEF all
  <1>10. ASSUME NEW b \in ApprovalRequest
         PROVE  DecidedIssues(b)' = IF b = call[c].request THEN DecidedIssues(b) \cup call[c].issues
                                    ELSE DecidedIssues(b)
    <2>1. CASE b = a
      BY <1>5, <1>9, <2>1 DEF DecidedIssues
    <2>2. CASE b # a
      BY <1>5, <2>2 DEF DecidedIssues
    <2> QED
      BY <2>1, <2>2
  <1> QED
    BY <1>1, <1>3, <1>5, <1>6, <1>8, <1>10 DEF left

LEMMA ArchiveCommits ==
  ASSUME TypeOK, NEW c \in Caller, CommitArchive(c) \/ CommitRestore(c)
  PROVE  /\ call[c].op \in {"archive", "restore"} /\ call'[c] = Idle
         /\ UNCHANGED <<correction, request, decisions>>
         /\ \A r \in Run \ {call[c].run} : runStatus'[r] = runStatus[r]
         /\ \A r \in Run : runStatus'[r] = "READY_FOR_APPROVAL" => runStatus[r] = "READY_FOR_APPROVAL"
  <1>1. call[c] \in RunCall
    BY CallKinds DEF CommitArchive, CommitRestore, TypeOK
  <1> QED
    BY <1>1 DEF CommitArchive, CommitRestore, Finish, RunCall, TypeOK

\* A run becomes READY_FOR_APPROVAL by being submitted.
LEMMA ReadyIsSubmitted ==
  ASSUME TypeOK, NEW c \in Caller, ApprovalNext(c) \/ RunNext(c),
         NEW r \in Run, runStatus[r] # "READY_FOR_APPROVAL", runStatus'[r] = "READY_FOR_APPROVAL"
  PROVE  call[c].op = "submit" /\ call[c].run = r
  <1>1. runStatus' # runStatus /\ ~UNCHANGED db
    BY DEF db
  <1>2. CASE CommitSubmit(c)
    BY <1>2, SubmitCommits DEF TypeOK
  <1>3. CASE CommitArchive(c) \/ CommitRestore(c)
    BY <1>3, ArchiveCommits
  <1>4. CASE CommitDecide(c)
    BY <1>1, <1>4, DecideCommits
  <1>5. ASSUME StartReview(c) PROVE FALSE
    BY <1>5 DEF StartReview, TypeOK
  <1> QED
    BY <1>1, <1>2, <1>3, <1>4, <1>5
       DEF ApprovalNext, Submit, OutOfRequests, DecideRequest, RollBack, RunNext, Archive, Restore,
           Generate, AiGenerate, GenerateBatch, FinishGenerate, AiStartReview, AiSuggest, FinishAi

-----------------------------------------------------------------------------
(* An open request keeps its run *)

FreezeInv == (\A c \in Caller : StatusSeen(c)) /\ OpenRequestFreezesRun

LEMMA FreezeInvInit == Init => FreezeInv
  BY DEF Init, FreezeInv, StatusSeen, Idle, OpenRequestFreezesRun, Open, OpenStatus

\* What a request in flight has read of a status is still true after the step
\* of another one that leaves its run or its approval request alone.
LEMMA StatusSeenStays ==
  ASSUME NEW d \in Caller, StatusSeen(d), call'[d] = call[d],
         ChangesRun(d) =>
           /\ runStatus'[call[d].run] = runStatus[call[d].run]
           /\ \A a \in ApprovalRequest :
                request'[a].status \in OpenStatus /\ request'[a].run = call[d].run =>
                  Open(a) /\ request[a].run = call[d].run,
         call[d].op = "decide" => request'[call[d].request].status = request[call[d].request].status
  PROVE  StatusSeen(d)'
  <1>1. call[d].op \in {"submit", "archive"} =>
          \A a \in ApprovalRequest :
            ~(request'[a].status \in OpenStatus /\ request'[a].run = call[d].run)
    BY DEF StatusSeen, ChangesRun, OpenRequests
  <1>2. call[d].op = "restore" => runStatus'[call[d].run] = "ARCHIVED"
    BY DEF StatusSeen, ChangesRun
  <1>3. call[d].op \in {"generate", "ai_start", "ai_generate"} /\ call[d].wasDraft =>
          runStatus'[call[d].run] = "DRAFT"
    BY DEF StatusSeen, ChangesRun
  <1>4. call[d].op = "decide" => request'[call[d].request].status \in OpenStatus
    BY DEF StatusSeen, Open
  <1> QED
    BY <1>1, <1>2, <1>3, <1>4 DEF StatusSeen, OpenRequests, Open

\* The kinds of the other calls, for the steps that follow.
LEMMA SeenRuns ==
  ASSUME TypeOK, NEW d \in Caller
  PROVE  /\ ChangesRun(d) => call[d].run \in Run
         /\ call[d].op = "decide" => call[d].request \in ApprovalRequest
  <1>1. call[d] \in Calls
    BY DEF TypeOK
  <1> QED
    BY <1>1, CallKinds DEF ChangesRun, SubmitCall, RunCall, GenerateCall, DecideCall

LEMMA FreezeInvNext ==
  ASSUME OpenOnly, StatusApart, TypeOK, DecisionInv, FreezeInv, [Next]_vars
  PROVE  FreezeInv'
  <1>0. ASSUME NEW c \in Caller, CorrectionNext(c) \/ ApprovalNext(c) \/ RunNext(c),
               StatusSeen(c)', OpenRequestFreezesRun',
               \A d \in Caller \ {c} :
                 /\ ChangesRun(d) =>
                      /\ runStatus'[call[d].run] = runStatus[call[d].run]
                      /\ \A a \in ApprovalRequest :
                           request'[a].status \in OpenStatus /\ request'[a].run = call[d].run =>
                             Open(a) /\ request[a].run = call[d].run
                 /\ call[d].op = "decide" =>
                      request'[call[d].request].status = request[call[d].request].status
        PROVE  FreezeInv'
    <2>1. ASSUME NEW d \in Caller, d # c PROVE StatusSeen(d)'
      <3>1. call'[d] = call[d]
        BY <1>0, <2>1, OtherCalls
      <3>2. StatusSeen(d)
        BY DEF FreezeInv
      <3> QED
        BY <1>0, <2>1, <3>1, <3>2, StatusSeenStays
    <2> QED
      BY <1>0, <2>1 DEF FreezeInv
  <1>1. ASSUME NEW c \in Caller, call'[c] = Idle \/ call'[c].op = "decision" PROVE StatusSeen(c)'
    BY <1>1 DEF StatusSeen, Idle
  <1>2. ASSUME NEW c \in Caller, CorrectionNext(c) \/ ApprovalNext(c) \/ RunNext(c),
               UNCHANGED <<runStatus, request>>, StatusSeen(c)'
        PROVE  FreezeInv'
    <2>1. OpenRequestFreezesRun'
      BY <1>2 DEF FreezeInv, OpenRequestFreezesRun, Open
    <2> QED
      BY <1>0, <1>2, <2>1 DEF Open
  <1>3. ASSUME NEW c \in Caller, CorrectionNext(c) PROVE FreezeInv'
    <2>1. UNCHANGED <<runStatus, request>> /\ call'[c].op \in {"decision", "idle"}
      BY <1>3, CorrectionCalls
    <2>2. StatusSeen(c)'
      BY <2>1 DEF StatusSeen
    <2> QED
      BY <1>2, <1>3, <2>1, <2>2
  <1>4. ASSUME NEW c \in Caller,
               \/ \E r \in Run : Submit(c, r) \/ Archive(c, r) \/ Restore(c, r)
                                 \/ Generate(c, r) \/ AiGenerate(c, r)
               \/ \E a \in ApprovalRequest, verdict \in {"APPROVE", "REJECT"}, issues \in SUBSET Issue :
                    DecideRequest(c, a, verdict, issues)
        PROVE  FreezeInv'
    <2>1. UNCHANGED db /\ StatusSeen(c)'
      BY <1>4, OthersBegin DEF RunSeen
    <2>2. ApprovalNext(c) \/ RunNext(c)
      BY <1>4 DEF ApprovalNext, RunNext
    <2> QED
      BY <1>2, <2>1, <2>2 DEF db
  <1>5. ASSUME NEW c \in Caller, CommitSubmit(c) PROVE FreezeInv'
    <2>1. /\ call[c].op = "submit" /\ call[c].run \in Run /\ call'[c] = Idle
          /\ runStatus' = [runStatus EXCEPT ![call[c].run] = "READY_FOR_APPROVAL"]
          /\ \E a \in ApprovalRequest :
               /\ request[a].status = "NO_ROW"
               /\ \A b \in ApprovalRequest \ {a} : request'[b] = request[b]
               /\ request'[a].status = "PENDING" /\ request'[a].run = call[c].run
               /\ request'[a].affected = call[c].affected
      BY <1>5, SubmitCommits
    <2>2. PICK a \in ApprovalRequest :
            /\ request[a].status = "NO_ROW"
            /\ \A b \in ApprovalRequest \ {a} : request'[b] = request[b]
            /\ request'[a].run = call[c].run
      BY <2>1
    <2>3. \A r \in Run : runStatus'[r] = IF r = call[c].run THEN "READY_FOR_APPROVAL" ELSE runStatus[r]
      BY <2>1 DEF TypeOK
    <2>4. ASSUME NEW b \in ApprovalRequest, request'[b].status \in OpenStatus
          PROVE  runStatus'[request'[b].run] = "READY_FOR_APPROVAL"
      <3>1. CASE b = a
        BY <2>1, <2>2, <2>3, <3>1
      <3>2. CASE b # a
        <4>1. request'[b] = request[b] /\ request[b].run \in Run
          BY <2>2, <3>2 DEF TypeOK, RequestRow
        <4>2. runStatus[request[b].run] = "READY_FOR_APPROVAL"
          BY <2>4, <4>1 DEF FreezeInv, OpenRequestFreezesRun, Open
        <4> QED
          BY <2>3, <4>1, <4>2
      <3> QED
        BY <3>1, <3>2
    <2>5. ASSUME NEW d \in Caller \ {c}, ChangesRun(d)
          PROVE  /\ runStatus'[call[d].run] = runStatus[call[d].run]
                 /\ \A b \in ApprovalRequest :
                      request'[b].status \in OpenStatus /\ request'[b].run = call[d].run =>
                        Open(b) /\ request[b].run = call[d].run
      <3>1. call[d].run # call[c].run /\ call[d].run \in Run
        BY <2>1, <2>5, SeenRuns DEF StatusApart, ChangesRun
      <3> QED
        BY <2>2, <2>3, <3>1 DEF Open
    <2>6. ASSUME NEW d \in Caller \ {c}, call[d].op = "decide"
          PROVE  request'[call[d].request] = request[call[d].request]
      <3>1. request[call[d].request].status # "NO_ROW" /\ call[d].request \in ApprovalRequest
        BY <2>6, SeenRuns DEF DecisionInv, DecidersHoldLock
      <3> QED
        BY <2>2, <3>1
    <2>7. OpenRequestFreezesRun'
      BY <2>4 DEF OpenRequestFreezesRun, Open
    <2> QED
      BY <1>0, <1>1, <1>5, <2>1, <2>5, <2>6, <2>7 DEF ApprovalNext
  <1>6. ASSUME NEW c \in Caller, OutOfRequests(c) PROVE FreezeInv'
    <2>1. call'[c] = Idle /\ UNCHANGED <<runStatus, request>>
      BY <1>6 DEF OutOfRequests, RollBack, Finish, db, TypeOK
    <2> QED
      BY <1>1, <1>2, <1>6, <2>1 DEF ApprovalNext
  <1>7. ASSUME NEW c \in Caller, CommitDecide(c) PROVE FreezeInv'
    <2>1. /\ call[c] \in DecideCall /\ call'[c] = Idle /\ runStatus' = runStatus
          /\ \A b \in ApprovalRequest :
               /\ request'[b].run = request[b].run
               /\ b # call[c].request => request'[b] = request[b]
      BY <1>7, DecideCommits
    <2>2. Open(call[c].request) /\ call[c].op = "decide"
      BY <1>7 DEF CommitDecide, FreezeInv, StatusSeen
    <2>3. ASSUME NEW b \in ApprovalRequest, request'[b].status \in OpenStatus
          PROVE  Open(b) /\ runStatus'[request'[b].run] = "READY_FOR_APPROVAL"
      <3>1. Open(b)
        BY <2>1, <2>2, <2>3 DEF Open
      <3> QED
        BY <2>1, <3>1 DEF FreezeInv, OpenRequestFreezesRun
    <2>4. ASSUME NEW d \in Caller \ {c}, call[d].op = "decide"
          PROVE  request'[call[d].request] = request[call[d].request]
      <3>1. call[d].request # call[c].request /\ call[d].request \in ApprovalRequest
        BY <2>2, <2>4, SeenRuns DEF DecisionInv, DecidersHoldLock
      <3> QED
        BY <2>1, <3>1
    <2>5. OpenRequestFreezesRun'
      BY <2>3 DEF OpenRequestFreezesRun, Open
    <2> QED
      BY <1>0, <1>1, <1>7, <2>1, <2>3, <2>4, <2>5 DEF ApprovalNext
  <1>8. ASSUME NEW c \in Caller, CommitArchive(c) \/ CommitRestore(c) PROVE FreezeInv'
    <2>1. /\ call[c].op \in {"archive", "restore"} /\ call'[c] = Idle
          /\ request' = request
          /\ \A r \in Run \ {call[c].run} : runStatus'[r] = runStatus[r]
      BY <1>8, ArchiveCommits
    <2>2. OpenRequests(call[c].run) = {}
      <3>1. CASE call[c].op = "archive"
        BY <3>1 DEF FreezeInv, StatusSeen
      <3>2. CASE call[c].op = "restore"
        BY <3>2 DEF FreezeInv, StatusSeen, OpenRequestFreezesRun, OpenRequests
      <3> QED
        BY <2>1, <3>1, <3>2
    <2>3. ASSUME NEW b \in ApprovalRequest, Open(b)
          PROVE  runStatus'[request[b].run] = "READY_FOR_APPROVAL"
      <3>1. request[b].run # call[c].run /\ request[b].run \in Run
        BY <2>2, <2>3 DEF OpenRequests, TypeOK, RequestRow
      <3> QED
        BY <2>1, <2>3, <3>1 DEF FreezeInv, OpenRequestFreezesRun
    <2>4. \A d \in Caller \ {c} : ChangesRun(d) => runStatus'[call[d].run] = runStatus[call[d].run]
      BY <2>1, SeenRuns DEF StatusApart, ChangesRun
    <2>5. OpenRequestFreezesRun'
      BY <2>1, <2>3 DEF OpenRequestFreezesRun, Open
    <2> QED
      BY <1>0, <1>1, <1>8, <2>1, <2>4, <2>5 DEF Open, RunNext
  <1>9. ASSUME NEW c \in Caller,
               \/ FinishGenerate(c) \/ AiStartReview(c) \/ FinishAi(c)
               \/ \E batch \in SUBSET Issue, added \in SUBSET Suggestion : GenerateBatch(c, batch, added)
               \/ \E i \in Issue, added \in SUBSET Suggestion : AiSuggest(c, i, added)
        PROVE  FreezeInv'
    <2>1. request' = request /\ DraftStarts(c) /\ StatusSeen(c)'
      BY <1>9, GeneratorSteps DEF FreezeInv, RunSeen
    <2>2. ASSUME NEW b \in ApprovalRequest, Open(b)
          PROVE  runStatus'[request[b].run] = "READY_FOR_APPROVAL"
      <3>1. runStatus[request[b].run] = "READY_FOR_APPROVAL" /\ request[b].run \in Run
        BY <2>2 DEF FreezeInv, OpenRequestFreezesRun, TypeOK, RequestRow
      <3> QED
        BY <2>1, <3>1 DEF DraftStarts
    <2>3. \A d \in Caller \ {c} : ChangesRun(d) => runStatus'[call[d].run] = runStatus[call[d].run]
      BY <2>1, SeenRuns DEF StatusApart, DraftStarts
    <2>4. OpenRequestFreezesRun'
      BY <2>1, <2>2 DEF OpenRequestFreezesRun, Open
    <2>5. RunNext(c)
      BY <1>9 DEF RunNext
    <2> QED
      BY <1>0, <2>1, <2>3, <2>4, <2>5 DEF Open
  <1>10. CASE UNCHANGED vars
    BY <1>10 DEF vars, db, FreezeInv, StatusSeen, OpenRequestFreezesRun, OpenRequests, Open
  <1> QED
    BY <1>3, <1>4, <1>5, <1>6, <1>7, <1>8, <1>9, <1>10 DEF Next, ApprovalNext, RunNext

\* Unless two requests that will write the status of the same run overlap,
\* and as long as approvers decide what is open, no sequence of submitting,
\* deciding, archiving, restoring and generating takes a run out of
\* READY_FOR_APPROVAL while a request for it is open, with any number of runs
\* and requests.  Decisions of reviewers and approvers may overlap anything.
THEOREM OpenRequestKeepsItsRun ==
  OpenOnly => (Spec /\ []StatusApart => []OpenRequestFreezesRun)
  <1> SUFFICES ASSUME OpenOnly PROVE Spec /\ []StatusApart => []OpenRequestFreezesRun
    OBVIOUS
  <1>1. TypeOK /\ DecisionInv /\ FreezeInv /\ StatusApart /\ [Next]_vars => FreezeInv'
    BY FreezeInvNext
  <1>2. FreezeInv => OpenRequestFreezesRun
    BY DEF FreezeInv
  <1> QED
    BY TypeCorrect, DecisionInvCorrect, FreezeInvInit, <1>1, <1>2, PTL DEF Spec

-----------------------------------------------------------------------------
(* The scope that was submitted is the scope that is decided *)

\* The guard on the run covers the issues that are decided.
LEMMA GuardLooks ==
  ASSUME TypeOK, BulkWithinRun, NEW c \in Caller, GuardSeen(c), CorrectionNext(c)
  PROVE  GuardSeen(c)'
  <1>0. runStatus' = runStatus
    BY CorrectionCalls
  <1>1. CASE Begins(c)
    <2>1. PICK r \in Run, issues \in SUBSET Issue, new \in CorrectionRow, b \in BOOLEAN :
            /\ Decide(c, r, issues, new, b)
            /\ \A i \in issues : RunOf[i] = r
      BY <1>1 DEF Begins
    <2>2. call'[c].issues = issues /\ runStatus[r] # "READY_FOR_APPROVAL"
      BY <2>1 DEF Decide, TypeOK
    <2> QED
      BY <1>0, <2>1, <2>2 DEF GuardSeen
  <1>2. CASE CheckNotTerminal(c)
    <2>1. call[c] \in DecisionCall /\ call[c].op = "decision"
      BY <1>2, CallKinds DEF CheckNotTerminal, TypeOK
    <2>2. call'[c].issues = call[c].issues
      BY <1>2, <2>1 DEF CheckNotTerminal, TypeOK, DecisionCall
    <2> QED
      BY <1>0, <2>1, <2>2 DEF GuardSeen
  <1>3. CASE RefuseTerminal(c) \/ FailDecision(c) \/ CommitDecision(c)
    <2>1. call'[c] = Idle
      BY <1>3 DEF RefuseTerminal, FailDecision, CommitDecision, RollBack, Finish, TypeOK
    <2> QED
      BY <2>1 DEF GuardSeen, Idle
  <1>4. ASSUME NEW i \in Issue, ReadCorrection(c, i) PROVE GuardSeen(c)'
    <2>1. call[c] \in DecisionCall /\ call[c].op = "decision"
      BY <1>4, CallKinds DEF ReadCorrection, TypeOK
    <2>2. call'[c].issues = call[c].issues
      BY <1>4, <2>1 DEF ReadCorrection, TypeOK, DecisionCall
    <2> QED
      BY <1>0, <2>1, <2>2 DEF GuardSeen
  <1> QED
    BY <1>1, <1>2, <1>3, <1>4, DecisionBegins DEF CorrectionNext

\* A decision writes the corrections of its issues.
LEMMA OwnCorrections ==
  ASSUME TypeOK, NEW c \in Caller, CorrectionNext(c), NEW i \in Issue, i \notin Deciding(c)
  PROVE  correction'[i] = correction[i]
  <1>1. CASE CommitDecision(c)
    <2>1. correction'[i] = IF i \in call[c].issues THEN Upserted(correction[i], call[c].saw[i], call[c].new)
                           ELSE correction[i]
      BY <1>1 DEF CommitDecision
    <2>2. Deciding(c) = call[c].issues
      BY <1>1 DEF Deciding, CommitDecision, ReadyToWrite
    <2> QED
      BY <2>1, <2>2
  <1>2. CASE Begins(c)
    BY <1>2 DEF Begins, Decide, db
  <1>3. CASE ~Begins(c) /\ ~CommitDecision(c)
    BY <1>3, DecisionBegins
       DEF CorrectionNext, CheckNotTerminal, RefuseTerminal, ReadCorrection, FailDecision, RollBack, db
  <1> QED
    BY <1>1, <1>2, <1>3

GuardInv == \A c \in Caller : GuardSeen(c)

LEMMA GuardInvInit == Init => GuardInv
  BY DEF Init, GuardInv, GuardSeen, Idle

\* The corrections of a submitted run are not written.
LEMMA ReadyCorrectionsStay ==
  ASSUME TypeOK, GuardInv, Next,
         NEW i \in Issue, runStatus[RunOf[i]] = "READY_FOR_APPROVAL"
  PROVE  correction'[i] = correction[i]
  <1>1. ASSUME NEW c \in Caller, CorrectionNext(c) PROVE correction'[i] = correction[i]
    <2>1. i \notin Deciding(c)
      BY DEF GuardInv, GuardSeen, Deciding
    <2> QED
      BY <1>1, <2>1, OwnCorrections
  <1>2. ASSUME NEW c \in Caller, ApprovalNext(c) \/ RunNext(c) PROVE correction'[i] = correction[i]
    BY <1>2, OthersLeaveCorrections
  <1> QED
    BY <1>1, <1>2 DEF Next

\* The guard was passed before the run was submitted, and stays true unless a
\* decision overlaps the submission.
LEMMA GuardInvNext ==
  ASSUME SubmitsApart, [BulkWithinRun]_vars, TypeOK, GuardInv, [Next]_vars
  PROVE  GuardInv'
  <1>1. ASSUME NEW c \in Caller, CorrectionNext(c) \/ ApprovalNext(c) \/ RunNext(c),
               GuardSeen(c)',
               \A d \in Caller, i \in Issue :
                 i \in Deciding(d) => runStatus'[RunOf[i]] # "READY_FOR_APPROVAL"
        PROVE  GuardInv'
    <2>1. ASSUME NEW d \in Caller, d # c PROVE GuardSeen(d)'
      <3>1. call'[d] = call[d] /\ call[d] \in Calls
        BY <1>1, <2>1, OtherCalls DEF TypeOK
      <3>2. call[d].op = "decision" => call[d].issues \subseteq Issue
        BY <3>1, CallKinds DEF DecisionCall
      <3> QED
        BY <1>1, <3>1, <3>2 DEF GuardSeen, Deciding
    <2> QED
      BY <1>1, <2>1 DEF GuardInv
  <1>2. \A d \in Caller, i \in Issue :
          i \in Deciding(d) => runStatus[RunOf[i]] # "READY_FOR_APPROVAL"
    BY DEF GuardInv, GuardSeen, Deciding
  <1>3. CASE UNCHANGED vars
    BY <1>3 DEF vars, db, GuardInv, GuardSeen
  <1>4. ASSUME NEW c \in Caller, CorrectionNext(c) PROVE GuardInv'
    <2>1. CASE vars' = vars
      BY <1>3, <2>1
    <2>2. CASE vars' # vars
      <3>1. GuardSeen(c)'
        BY <1>4, <2>2, GuardLooks DEF GuardInv
      <3>2. runStatus' = runStatus
        BY <1>4, CorrectionCalls
      <3> QED
        BY <1>1, <1>2, <1>4, <3>1, <3>2
    <2> QED
      BY <2>1, <2>2
  <1>5. ASSUME NEW c \in Caller, ApprovalNext(c) \/ RunNext(c) PROVE GuardInv'
    <2>1. GuardSeen(c)'
      BY <1>5, OthersLeaveCorrections DEF GuardSeen
    <2>2. ASSUME NEW d \in Caller, NEW i \in Issue, i \in Deciding(d)
          PROVE  runStatus'[RunOf[i]] # "READY_FOR_APPROVAL"
      <3>1. RunOf[i] \in Run
        BY ReviewConstants
      <3>2. call[c].op = "submit" => RunOf[i] # call[c].run
        BY <2>2 DEF SubmitsApart
      <3> QED
        BY <1>2, <1>5, <2>2, <3>1, <3>2, ReadyIsSubmitted
    <2> QED
      BY <1>1, <1>5, <2>1, <2>2
  <1> QED
    BY <1>3, <1>4, <1>5 DEF Next

\* Unless a decision of one of its issues overlaps its submission, and as long
\* as a bulk action stays within its run, no correction of a submitted run
\* changes, whatever else overlaps (_check_review_run_not_ready_for_approval).
THEOREM SubmittedScopeIsStable ==
  Spec /\ []SubmitsApart /\ [][BulkWithinRun]_vars => ScopeStableWhileReady
  <1> DEFINE Stable == \A i \in Issue :
               runStatus[RunOf[i]] = "READY_FOR_APPROVAL" => correction'[i] = correction[i]
  <1>1. TypeOK /\ GuardInv /\ [Next]_vars => [Stable]_vars
    BY ReadyCorrectionsStay
  <1>2. TypeOK /\ GuardInv /\ SubmitsApart /\ [BulkWithinRun]_vars /\ [Next]_vars => GuardInv'
    BY GuardInvNext
  <1> QED
    BY TypeCorrect, GuardInvInit, <1>1, <1>2, PTL DEF Spec, ScopeStableWhileReady

\* What an open request was submitted with is what is left to be decided.
OpenScope ==
  \A a \in ApprovalRequest : Open(a) =>
    /\ request[a].affected = Cardinality(ResolvedScope(request[a].run))
    /\ DecidedIssues(a) \subseteq ResolvedScope(request[a].run)

ScopeInv == (\A c \in Caller : ScopeSeen(c)) /\ OpenScope /\ ClosedRequestDecidedAll

LEMMA ScopeInvInit == Init => ScopeInv
  BY DEF Init, ScopeInv, ScopeSeen, Idle, OpenScope, Open, OpenStatus, ClosedRequestDecidedAll,
         ClosedStatus

\* Where requests and their decisions stay, it is enough that the scope of an
\* open request does.
LEMMA ScopeStays ==
  ASSUME ScopeInv, UNCHANGED <<request, decisions>>,
         \A a \in ApprovalRequest : Open(a) =>
           \A i \in Issue : RunOf[i] = request[a].run => correction'[i] = correction[i]
  PROVE  OpenScope' /\ ClosedRequestDecidedAll'
  <1>1. ASSUME NEW a \in ApprovalRequest, Open(a)
        PROVE  ResolvedScope(request[a].run)' = ResolvedScope(request[a].run)
    BY <1>1 DEF ResolvedScope, IssuesOf
  <1>2. ClosedRequestDecidedAll'
    BY DEF ScopeInv, ClosedRequestDecidedAll, DecidedIssues
  <1>3. \A a \in ApprovalRequest : Open(a)' = Open(a) /\ DecidedIssues(a)' = DecidedIssues(a)
    BY DEF Open, DecidedIssues
  <1>4. OpenScope'
    BY <1>1, <1>3 DEF ScopeInv, OpenScope
  <1> QED
    BY <1>2, <1>4

LEMMA SubmitScopes ==
  ASSUME TypeOK, DecisionInv, ScopeInv, NEW c \in Caller, CommitSubmit(c)
  PROVE  OpenScope' /\ ClosedRequestDecidedAll'
  <1>1. /\ call[c].op = "submit" /\ UNCHANGED <<correction, decisions>>
        /\ \E a \in ApprovalRequest :
             /\ request[a].status = "NO_ROW"
             /\ \A b \in ApprovalRequest \ {a} : request'[b] = request[b]
             /\ request'[a].status = "PENDING" /\ request'[a].run = call[c].run
             /\ request'[a].affected = call[c].affected
    BY SubmitCommits
  <1>2. PICK a \in ApprovalRequest :
          /\ request[a].status = "NO_ROW"
          /\ \A b \in ApprovalRequest \ {a} : request'[b] = request[b]
          /\ request'[a].status = "PENDING" /\ request'[a].run = call[c].run
          /\ request'[a].affected = call[c].affected
    BY <1>1
  <1>3. /\ decisions[a] = {}
        /\ call[c].affected = Cardinality(ResolvedScope(call[c].run))
    BY <1>1, <1>2 DEF DecisionInv, StatusSummarisesDecisions, ScopeInv, ScopeSeen
  <1>4. \A b \in ApprovalRequest : UNION {d.issues : d \in decisions'[b]} = DecidedIssues(b)
    BY <1>1 DEF DecidedIssues
  <1>5. DecidedIssues(a) = {}
    BY <1>3 DEF DecidedIssues
  <1>6. \A r : ResolvedScope(r)' = ResolvedScope(r)
    BY <1>1 DEF ResolvedScope, IssuesOf
  <1>7. ASSUME NEW b \in ApprovalRequest, request'[b].status \in OpenStatus
        PROVE  /\ request'[b].affected = Cardinality(ResolvedScope(request'[b].run))
               /\ DecidedIssues(b) \subseteq ResolvedScope(request'[b].run)
    <2>1. CASE b = a
      BY <1>2, <1>3, <1>5, <2>1
    <2>2. CASE b # a
      BY <1>2, <1>7, <2>2 DEF ScopeInv, OpenScope, Open
    <2> QED
      BY <2>1, <2>2
  <1>8. ASSUME NEW b \in ApprovalRequest, request'[b].status \in ClosedStatus
        PROVE  Cardinality(DecidedIssues(b)) = request'[b].affected
    <2>1. b # a
      BY <1>2, <1>8 DEF ClosedStatus
    <2> QED
      BY <1>2, <1>8, <2>1 DEF ScopeInv, ClosedRequestDecidedAll
  <1>9. \A b \in ApprovalRequest : DecidedIssues(b)' = DecidedIssues(b)
    BY <1>1 DEF DecidedIssues
  <1>10. OpenScope'
    <2>1. ASSUME NEW b \in ApprovalRequest, Open(b)'
          PROVE  /\ request'[b].affected = Cardinality(ResolvedScope(request[b].run)')
                 /\ DecidedIssues(b)' \subseteq ResolvedScope(request[b].run)'
      <3>1. request'[b].status \in OpenStatus
        BY <2>1 DEF Open
      <3>2. ResolvedScope(request[b].run)' = ResolvedScope(request'[b].run)
        BY <1>1 DEF ResolvedScope, IssuesOf
      <3> QED
        BY <1>7, <1>9, <3>1, <3>2
    <2> QED
      BY <2>1 DEF OpenScope
  <1> QED
    BY <1>8, <1>9, <1>10 DEF ClosedRequestDecidedAll

LEMMA DecideScopes ==
  ASSUME TypeOK, FreezeInv, ScopeInv, NEW c \in Caller, CommitDecide(c)
  PROVE  OpenScope' /\ ClosedRequestDecidedAll'
  <1>0. call[c] \in DecideCall
    BY DecideCommits
  <1> PICK a \in ApprovalRequest : a = call[c].request
    BY <1>0 DEF DecideCall
  <1> DEFINE left == call[c].remaining \ call[c].issues
             scope(b) == ResolvedScope(request[b].run)
  <1>1. /\ call[c] \in DecideCall /\ UNCHANGED <<correction, runStatus>>
        /\ \A b \in ApprovalRequest :
             /\ request'[b].run = request[b].run /\ request'[b].affected = request[b].affected
             /\ b # a => request'[b] = request[b]
        /\ \A b \in ApprovalRequest :
             DecidedIssues(b)' = IF b = a THEN DecidedIssues(b) \cup call[c].issues ELSE DecidedIssues(b)
        /\ request'[a].status = RecomputedStatus(decisions'[a], left)
    BY DecideCommits
  <1>2. call[c].op = "decide"
    BY <1>0 DEF DecideCall
  <1>3. /\ Open(a) /\ call[c].remaining = scope(a) \ DecidedIssues(a)
        /\ call[c].issues \subseteq call[c].remaining
    BY <1>2 DEF FreezeInv, StatusSeen, ScopeInv, ScopeSeen, Remaining
  <1>4. request[a].affected = Cardinality(scope(a)) /\ DecidedIssues(a) \subseteq scope(a)
    BY <1>2, <1>3 DEF ScopeInv, OpenScope
  <1>5. \A b \in ApprovalRequest : ResolvedScope(request[b].run)' = scope(b)
    BY <1>1 DEF ResolvedScope, IssuesOf
  <1>6. request'[a].status \in ClosedStatus => left = {}
    BY <1>1 DEF RecomputedStatus, ClosedStatus
  <1> HIDE DEF left, scope
  <1>7. DecidedIssues(a)' \subseteq scope(a)
    BY <1>1, <1>2, <1>3, <1>4
  <1>8. left = {} => DecidedIssues(a)' = scope(a)
    BY <1>1, <1>2, <1>3, <1>4 DEF left
  <1>9. ASSUME NEW b \in ApprovalRequest, Open(b)'
        PROVE  /\ request'[b].affected = Cardinality(ResolvedScope(request[b].run)')
               /\ DecidedIssues(b)' \subseteq ResolvedScope(request[b].run)'
    <2>1. CASE b = a
      BY <1>1, <1>4, <1>5, <1>7, <2>1
    <2>2. CASE b # a
      <3>1. Open(b)
        BY <1>1, <1>9, <2>2 DEF Open
      <3>2. request[b].affected = Cardinality(scope(b)) /\ DecidedIssues(b) \subseteq scope(b)
        BY <3>1 DEF ScopeInv, OpenScope, scope
      <3> QED
        BY <1>1, <1>5, <2>2, <3>2
    <2> QED
      BY <2>1, <2>2
  <1>10. ASSUME NEW b \in ApprovalRequest, request'[b].status \in ClosedStatus
         PROVE  Cardinality(DecidedIssues(b)') = request'[b].affected
    <2>1. CASE b = a
      BY <1>1, <1>4, <1>6, <1>8, <1>10, <2>1
    <2>2. CASE b # a
      BY <1>1, <1>10, <2>2 DEF ScopeInv, ClosedRequestDecidedAll
    <2> QED
      BY <2>1, <2>2
  <1> QED
    BY <1>9, <1>10 DEF OpenScope, ClosedRequestDecidedAll

\* What a request in flight has read of a scope is still true after the step
\* of another one that leaves that scope alone.
LEMMA ScopeSeenStays ==
  ASSUME TypeOK, NEW d \in Caller, ScopeSeen(d), call'[d] = call[d],
         call[d].op = "submit" =>
           \A i \in Issue : RunOf[i] = call[d].run => correction'[i] = correction[i],
         call[d].op = "decide" =>
           /\ request'[call[d].request].run = request[call[d].request].run
           /\ decisions'[call[d].request] = decisions[call[d].request]
           /\ \A i \in Issue :
                RunOf[i] = request[call[d].request].run => correction'[i] = correction[i]
  PROVE  ScopeSeen(d)'
  <1>1. ASSUME NEW r, \A i \in Issue : RunOf[i] = r => correction'[i] = correction[i]
        PROVE  {i \in IssuesOf(r) : correction'[i].value # None /\ correction'[i].status \in ResolvedStatus}
                 = ResolvedScope(r)
    BY <1>1 DEF ResolvedScope, IssuesOf
  <1>2. call[d].op = "submit" => call'[d].affected = Cardinality(ResolvedScope(call[d].run)')
    <2> SUFFICES ASSUME call[d].op = "submit"
                 PROVE  call'[d].affected = Cardinality(ResolvedScope(call[d].run)')
      OBVIOUS
    <2>1. PICK r : r = call[d].run
      OBVIOUS
    <2>2. ResolvedScope(r)' = ResolvedScope(r)
      BY <1>1, <2>1 DEF ResolvedScope
    <2>3. ResolvedScope(call[d].run)' = ResolvedScope(r)'
      BY <2>1 DEF ResolvedScope
    <2> QED
      BY <2>1, <2>2, <2>3 DEF ScopeSeen
  <1>3. call[d].op = "decide" => Remaining(call[d].request)' = Remaining(call[d].request)
    <2> SUFFICES ASSUME call[d].op = "decide"
                 PROVE  Remaining(call[d].request)' = Remaining(call[d].request)
      OBVIOUS
    <2>1. PICK a : a = call[d].request
      OBVIOUS
    <2>2. PICK r : r = request[a].run
      OBVIOUS
    <2>3. ResolvedScope(r)' = ResolvedScope(r) /\ DecidedIssues(a)' = DecidedIssues(a)
      BY <1>1, <2>1, <2>2 DEF ResolvedScope, DecidedIssues
    <2>4. Remaining(a)' = Remaining(a)
      BY <2>1, <2>2, <2>3 DEF Remaining, ResolvedScope
    <2>5. Remaining(call[d].request)' = Remaining(a)'
      BY <2>1 DEF Remaining, ResolvedScope, DecidedIssues
    <2> QED
      BY <2>1, <2>4, <2>5
  <1> QED
    BY <1>2, <1>3 DEF ScopeSeen

LEMMA ScopeInvNext ==
  ASSUME OpenOnly, SubmitsApart,
         TypeOK, DecisionInv, FreezeInv, GuardInv, ScopeInv, [Next]_vars
  PROVE  ScopeInv'
  <1> DEFINE Keeps(d) ==
        /\ call[d].op = "submit" =>
             \A i \in Issue : RunOf[i] = call[d].run => correction'[i] = correction[i]
        /\ call[d].op = "decide" =>
             /\ request'[call[d].request].run = request[call[d].request].run
             /\ decisions'[call[d].request] = decisions[call[d].request]
             /\ \A i \in Issue :
                  RunOf[i] = request[call[d].request].run => correction'[i] = correction[i]
  <1>0. ASSUME NEW c \in Caller, CorrectionNext(c) \/ ApprovalNext(c) \/ RunNext(c),
               ScopeSeen(c)', OpenScope', ClosedRequestDecidedAll',
               \A d \in Caller \ {c} : Keeps(d)
        PROVE  ScopeInv'
    <2>1. ASSUME NEW d \in Caller, d # c PROVE ScopeSeen(d)'
      <3>1. call'[d] = call[d] /\ ScopeSeen(d)
        BY <1>0, <2>1, OtherCalls DEF ScopeInv
      <3> QED
        BY <1>0, <2>1, <3>1, ScopeSeenStays
    <2> QED
      BY <1>0, <2>1 DEF ScopeInv
  <1>1. ASSUME NEW c \in Caller, call'[c].op \notin {"submit", "decide"} PROVE ScopeSeen(c)'
    BY <1>1 DEF ScopeSeen
  <1>2. ASSUME NEW c \in Caller, CorrectionNext(c) PROVE ScopeInv'
    <2>1. UNCHANGED <<request, decisions>> /\ ScopeSeen(c)'
      BY <1>1, <1>2, CorrectionCalls
    <2>2. \A i \in Issue : runStatus[RunOf[i]] = "READY_FOR_APPROVAL" => correction'[i] = correction[i]
      BY <1>2, ReadyCorrectionsStay DEF Next
    <2>3. \A a \in ApprovalRequest : Open(a) =>
            \A i \in Issue : RunOf[i] = request[a].run => correction'[i] = correction[i]
      BY <2>2 DEF FreezeInv, OpenRequestFreezesRun
    <2>4. OpenScope' /\ ClosedRequestDecidedAll'
      BY <2>1, <2>3, ScopeStays
    <2>5. ASSUME NEW d \in Caller, call[d].op = "submit", NEW i \in Issue, RunOf[i] = call[d].run
          PROVE  correction'[i] = correction[i]
      <3>1. i \notin Deciding(c)
        BY <2>5 DEF SubmitsApart
      <3> QED
        BY <1>2, <3>1, OwnCorrections
    <2>6. \A d \in Caller : call[d].op = "decide" =>
            Open(call[d].request) /\ call[d].request \in ApprovalRequest
      BY SeenRuns DEF FreezeInv, StatusSeen
    <2>7. \A d \in Caller : Keeps(d)
      BY <2>1, <2>3, <2>5, <2>6
    <2> HIDE DEF Keeps
    <2> QED
      BY <1>0, <1>2, <2>1, <2>4, <2>7
  <1>3. ASSUME NEW c \in Caller, CorrectionNext(c) \/ ApprovalNext(c) \/ RunNext(c),
               UNCHANGED <<request, decisions, correction>>, ScopeSeen(c)'
        PROVE  ScopeInv'
    <2>1. OpenScope' /\ ClosedRequestDecidedAll'
      BY <1>3, ScopeStays
    <2>2. \A d \in Caller : Keeps(d)
      BY <1>3
    <2> HIDE DEF Keeps
    <2> QED
      BY <1>0, <1>3, <2>1, <2>2
  <1>4. ASSUME NEW c \in Caller,
               \/ \E r \in Run : Submit(c, r) \/ Archive(c, r) \/ Restore(c, r)
                                 \/ Generate(c, r) \/ AiGenerate(c, r)
               \/ \E a \in ApprovalRequest, verdict \in {"APPROVE", "REJECT"}, issues \in SUBSET Issue :
                    DecideRequest(c, a, verdict, issues)
        PROVE  ScopeInv'
    <2>1. UNCHANGED db /\ ScopeSeen(c)'
      BY <1>4, OthersBegin DEF RunSeen
    <2>2. ApprovalNext(c) \/ RunNext(c)
      BY <1>4 DEF ApprovalNext, RunNext
    <2> QED
      BY <1>3, <2>1, <2>2 DEF db
  <1>5. ASSUME NEW c \in Caller, CommitSubmit(c) PROVE ScopeInv'
    <2>1. /\ call'[c] = Idle /\ UNCHANGED <<correction, decisions>>
          /\ \E a \in ApprovalRequest :
               /\ request[a].status = "NO_ROW"
               /\ \A b \in ApprovalRequest \ {a} : request'[b] = request[b]
      BY <1>5, SubmitCommits
    <2>2. \A d \in Caller : call[d].op = "decide" =>
            call[d].request \in ApprovalRequest /\ request[call[d].request].status # "NO_ROW"
      BY SeenRuns DEF DecisionInv, DecidersHoldLock
    <2>3. \A d \in Caller : Keeps(d)
      BY <2>1, <2>2
    <2>4. ScopeSeen(c)'
      BY <1>1, <2>1 DEF Idle
    <2>5. ApprovalNext(c)
      BY <1>5 DEF ApprovalNext
    <2> HIDE DEF Keeps
    <2> QED
      BY <1>0, <1>5, <2>3, <2>4, <2>5, SubmitScopes
  <1>6. ASSUME NEW c \in Caller, OutOfRequests(c) PROVE ScopeInv'
    <2>1. call'[c] = Idle /\ UNCHANGED db
      BY <1>6 DEF OutOfRequests, RollBack, Finish, TypeOK
    <2>2. ScopeSeen(c)' /\ ApprovalNext(c)
      BY <1>1, <1>6, <2>1 DEF Idle, ApprovalNext
    <2> QED
      BY <1>3, <2>1, <2>2 DEF db
  <1>7. ASSUME NEW c \in Caller, CommitDecide(c) PROVE ScopeInv'
    <2>1. /\ call'[c] = Idle /\ UNCHANGED correction
          /\ \A b \in ApprovalRequest :
               /\ request'[b].run = request[b].run
               /\ b # call[c].request => request'[b] = request[b] /\ decisions'[b] = decisions[b]
      BY <1>7, DecideCommits
    <2>2. \A d \in Caller \ {c} : call[d].op = "decide" =>
            call[d].request \in ApprovalRequest /\ call[d].request # call[c].request
      BY <1>7, SeenRuns DEF CommitDecide, DecisionInv, DecidersHoldLock
    <2>3. \A d \in Caller \ {c} : Keeps(d)
      BY <2>1, <2>2
    <2>4. ScopeSeen(c)' /\ ApprovalNext(c)
      BY <1>1, <1>7, <2>1 DEF Idle, ApprovalNext
    <2> HIDE DEF Keeps
    <2> QED
      BY <1>0, <1>7, <2>3, <2>4, DecideScopes
  <1>8. ASSUME NEW c \in Caller, CommitArchive(c) \/ CommitRestore(c) PROVE ScopeInv'
    <2>1. call'[c] = Idle /\ UNCHANGED <<correction, request, decisions>>
      BY <1>8, ArchiveCommits
    <2>2. ScopeSeen(c)' /\ RunNext(c)
      BY <1>1, <1>8, <2>1 DEF Idle, RunNext
    <2> QED
      BY <1>3, <2>1, <2>2
  <1>9. ASSUME NEW c \in Caller,
               \/ FinishGenerate(c) \/ AiStartReview(c) \/ FinishAi(c)
               \/ \E batch \in SUBSET Issue, added \in SUBSET Suggestion : GenerateBatch(c, batch, added)
               \/ \E i \in Issue, added \in SUBSET Suggestion : AiSuggest(c, i, added)
        PROVE  ScopeInv'
    <2>1. UNCHANGED <<request, decisions, correction>> /\ ScopeSeen(c)'
      BY <1>9, GeneratorSteps DEF FreezeInv, RunSeen
    <2>2. RunNext(c)
      BY <1>9 DEF RunNext
    <2> QED
      BY <1>3, <2>1, <2>2
  <1>10. CASE UNCHANGED vars
    <2>1. OpenScope' /\ ClosedRequestDecidedAll'
      BY <1>10, ScopeStays DEF vars, db
    <2>2. ASSUME NEW d \in Caller PROVE ScopeSeen(d)'
      BY <1>10, ScopeSeenStays DEF vars, db, ScopeInv
    <2> QED
      BY <2>1, <2>2 DEF ScopeInv
  <1> QED
    BY <1>2, <1>4, <1>5, <1>6, <1>7, <1>8, <1>9, <1>10 DEF Next, ApprovalNext, RunNext

\* A request is not closed before every issue it was submitted with is decided:
\* the count it shows is the number of issues decided under it, with any number
\* of runs, issues, callers and partial decisions.  It holds unless two requests
\* that will write the status of the same run overlap, or a decision overlaps
\* the submission of its issue, and as long as approvers decide what is open
\* and a bulk action stays within its run (submit and decide of
\* approval/service.py).
THEOREM ClosedMeansAllDecided ==
  OpenOnly => (Spec /\ []StatusApart /\ []SubmitsApart /\ [][BulkWithinRun]_vars
                 => []ClosedRequestDecidedAll)
  <1> SUFFICES ASSUME OpenOnly
               PROVE  Spec /\ []StatusApart /\ []SubmitsApart /\ [][BulkWithinRun]_vars
                        => []ClosedRequestDecidedAll
    OBVIOUS
  <1>1. TypeOK /\ DecisionInv /\ FreezeInv /\ GuardInv /\ ScopeInv /\ StatusApart /\ SubmitsApart
          /\ [BulkWithinRun]_vars /\ [Next]_vars => (FreezeInv /\ GuardInv /\ ScopeInv)'
    BY FreezeInvNext, GuardInvNext, ScopeInvNext
  <1>2. ScopeInv => ClosedRequestDecidedAll
    BY DEF ScopeInv
  <1> QED
    BY TypeCorrect, DecisionInvCorrect, FreezeInvInit, GuardInvInit, ScopeInvInit, <1>1, <1>2, PTL
       DEF Spec

=============================================================================
