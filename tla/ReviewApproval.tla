--------------------------- MODULE ReviewApproval ---------------------------
(***************************************************************************)
(* Review and approval together: the three services on the same rows, with *)
(* up to one request in flight per caller.                                 *)
(***************************************************************************)
EXTENDS CorrectionDecisions, ApprovalRequests, ReviewRuns

\* create_from_validation_run commits a run and all of its issues at once.
Init ==
  /\ runStatus   = [r \in Run |-> "DRAFT"]
  /\ issueStatus = [i \in Issue |-> "PENDING"]
  /\ suggestions = {}
  /\ selected    = {}
  /\ correction  = [i \in Issue |-> NoCorrection]
  /\ request     = [a \in ApprovalRequest |->
                      [status |-> "NO_ROW", run |-> CHOOSE r \in Run : TRUE, affected |-> 0]]
  /\ decisions   = [a \in ApprovalRequest |-> {}]
  /\ call        = [c \in Caller |-> Idle]

Next == \E c \in Caller : CorrectionNext(c) \/ ApprovalNext(c) \/ RunNext(c)

Spec == Init /\ [][Next]_vars

-----------------------------------------------------------------------------
(* Fairness: a request the API has started runs to its end, and the        *)
(* approvers keep deciding what is open.  An approver's turn comes again   *)
(* and again without being continuous, since other requests take the same  *)
(* callers, hence the strong fairness.                                     *)

ServerStep(c) ==
  \/ CheckNotTerminal(c) \/ RefuseTerminal(c)
  \/ \E i \in Issue : ReadCorrection(c, i)
  \/ CommitDecision(c) \/ FailDecision(c)
  \/ CommitSubmit(c) \/ OutOfRequests(c) \/ CommitDecide(c)
  \/ CommitArchive(c) \/ CommitRestore(c)
  \/ \E batch \in SUBSET Issue, added \in SUBSET Suggestion : GenerateBatch(c, batch, added)
  \/ FinishGenerate(c) \/ AiStartReview(c) \/ FinishAi(c)
  \/ \E i \in Issue, added \in SUBSET Suggestion : AiSuggest(c, i, added)

ApproversDecide(a) ==
  \E c \in Caller, verdict \in {"APPROVE", "REJECT"}, issues \in SUBSET Issue :
    Open(a) /\ DecideRequest(c, a, verdict, issues)

FairSpec ==
  /\ Spec
  /\ \A c \in Caller : WF_vars(ServerStep(c))
  /\ \A a \in ApprovalRequest : SF_vars(ApproversDecide(a))

-----------------------------------------------------------------------------
(* Types *)

Calls == {Idle} \cup DecisionCall \cup SubmitCall \cup DecideCall \cup RunCall \cup GenerateCall

\* Every row and every request in flight has the shape the tables and the
\* handlers give it.
TypeOK ==
  /\ runStatus \in [Run -> RunStatus]
  /\ issueStatus \in [Issue -> IssueStatus]
  /\ suggestions \subseteq Suggestion
  /\ selected \subseteq Suggestion
  /\ correction \in [Issue -> CorrectionRow]
  /\ request \in [ApprovalRequest -> RequestRow]
  /\ decisions \in [ApprovalRequest -> SUBSET Decision]
  /\ call \in [Caller -> Calls]

-----------------------------------------------------------------------------
(* What holds however the requests interleave *)

\* No issue is decided twice under one approval request: the row lock of
\* decide() covers the reading of what is decided already
\* (approval/service.py, "mandatory row lock").
NoIssueDecidedTwice ==
  \A a \in ApprovalRequest : \A d, e \in decisions[a] : d # e => d.issues \cap e.issues = {}

\* The status of a request is the one its decisions add up to, although
\* decide() computes it from what it read before it inserted its own: PENDING
\* means nothing is decided, APPROVED means every verdict was APPROVE, REJECTED
\* means at least one was not (recompute_approval_request_status).
StatusSummarisesDecisions ==
  \A a \in ApprovalRequest :
    /\ request[a].status \in {"NO_ROW", "PENDING"} <=> decisions[a] = {}
    /\ request[a].status = "APPROVED" => \A d \in decisions[a] : d.verdict = "APPROVE"
    /\ request[a].status = "REJECTED" => \E d \in decisions[a] : d.verdict = "REJECT"

\* The two of them hold because of the lock: whoever decides a request is alone
\* in doing so, and none of what it read as remaining is decided meanwhile.
DecidersHoldLock ==
  \A c \in Caller : call[c].op = "decide" =>
    /\ \A d \in Caller : call[d].op = "decide" /\ call[d].request = call[c].request => d = c
    /\ request[call[c].request].status # "NO_ROW"
    /\ call[c].issues # {} /\ call[c].issues \subseteq call[c].remaining
    /\ call[c].remaining \cap DecidedIssues(call[c].request) = {}

DecisionInv == NoIssueDecidedTwice /\ StatusSummarisesDecisions /\ DecidersHoldLock

-----------------------------------------------------------------------------
(* What the services rely on.  It holds when approvers decide open requests*)
(* only and certain requests do not overlap (which ones:                   *)
(* ReviewApprovalProofs); those that do break it.                          *)

\* The one suggestion marked as selected is the one the value came from.
SelectionFollowsCorrection ==
  \A i \in Issue :
    correction[i].suggestion # None /\ correction[i].status \in ResolvedStatus =>
      {s \in selected : IssueOf[s] = i} = {correction[i].suggestion}

\* As long as a request is open its run stays READY_FOR_APPROVAL: nobody can
\* archive it, restore it or take it back into review.
OpenRequestFreezesRun ==
  \A a \in ApprovalRequest :
    Open(a) => runStatus[request[a].run] = "READY_FOR_APPROVAL"

\* What approvers have decided, once the request is closed, is what was
\* submitted: the count shown at submission is the number of decided issues.
ClosedRequestDecidedAll ==
  \A a \in ApprovalRequest :
    request[a].status \in ClosedStatus => Cardinality(DecidedIssues(a)) = request[a].affected

\* While a run is READY_FOR_APPROVAL none of its corrections changes
\* (_check_review_run_not_ready_for_approval: "the resolved-issue scope must
\* stay stable once an approval request has been submitted against it").
ScopeStableWhileReady ==
  [][\A i \in Issue :
       runStatus[RunOf[i]] = "READY_FOR_APPROVAL" => correction'[i] = correction[i]]_vars

\* A rejected or skipped issue is never decided again (_check_not_terminal).
TerminalDecisionsAreFinal ==
  [][\A i \in Issue :
       correction[i].status \in TerminalStatus => correction'[i] = correction[i]]_vars

\* An open request is closed in the end.
OpenRequestsGetClosed ==
  \A a \in ApprovalRequest : Open(a) ~> ~Open(a)
=============================================================================
