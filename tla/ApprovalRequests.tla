-------------------------- MODULE ApprovalRequests --------------------------
(***************************************************************************)
(* ApprovalService: submitting a review run for approval and deciding the  *)
(* issues of a request.                                                    *)
(*                                                                         *)
(* submit takes no lock: it reads the run, its open request and the scope, *)
(* and commits the new request later.  decide holds a row lock on its      *)
(* request (SELECT ... FOR UPDATE) from its first read to its commit, so a *)
(* second decide of that request waits; the lock covers neither the run    *)
(* nor the corrections the scope is computed from.                         *)
(***************************************************************************)
EXTENDS ReviewDb

SubmitCall == [op : {"submit"}, run : Run, affected : Nat]

\* `remaining` is the undecided scope as read under the lock.
DecideCall ==
  [op : {"decide"}, request : ApprovalRequest, verdict : {"APPROVE", "REJECT"},
   issues : SUBSET Issue, remaining : SUBSET Issue]

Submit(c, r) ==
  /\ "submit" \in Endpoint
  /\ IsIdle(c)
  /\ runStatus[r] = "IN_REVIEW"
  /\ OpenRequests(r) = {}
  /\ ResolvedScope(r) # {}
  /\ call' = [call EXCEPT ![c] =
       [op |-> "submit", run |-> r, affected |-> Cardinality(ResolvedScope(r))]]
  /\ UNCHANGED db

CommitSubmit(c) ==
  /\ call[c].op = "submit"
  /\ \E a \in ApprovalRequest :
       /\ request[a].status = "NO_ROW"
       /\ request' = [request EXCEPT ![a] =
            [status |-> "PENDING", run |-> call[c].run, affected |-> call[c].affected]]
  /\ runStatus' = [runStatus EXCEPT ![call[c].run] = "READY_FOR_APPROVAL"]
  /\ Finish(c)
  /\ UNCHANGED <<issueStatus, suggestions, selected, correction, decisions>>

\* More requests are submitted at the same time than the instance has ids for:
\* the bound on requests, not something the service refuses.
OutOfRequests(c) ==
  /\ call[c].op = "submit"
  /\ \A a \in ApprovalRequest : request[a].status # "NO_ROW"
  /\ RollBack(c)

-----------------------------------------------------------------------------
\* (Broken variant: decide() reads the request without FOR UPDATE.)
LockedNever(a) == FALSE

Locked(a) == \E c \in Caller : call[c].op = "decide" /\ call[c].request = a

Remaining(a) == ResolvedScope(request[a].run) \ DecidedIssues(a)

\* The status of the request is not looked at: a closed request is decided
\* further when its scope has grown.
DecideRequest(c, a, verdict, issues) ==
  /\ "decide" \in Endpoint
  /\ Open(a) \/ "decide_closed" \in Endpoint
  /\ IsIdle(c)
  /\ request[a].status # "NO_ROW"
  /\ ~Locked(a)
  /\ issues # {} /\ issues \subseteq Remaining(a)
  /\ call' = [call EXCEPT ![c] =
       [op |-> "decide", request |-> a, verdict |-> verdict, issues |-> issues,
        remaining |-> Remaining(a)]]
  /\ UNCHANGED db

\* (Broken variant: One approval is enough.)
RecomputedStatusLenient(all, left) ==
  IF left # {} THEN "PARTIALLY_APPROVED"
  ELSE IF \E d \in all : d.verdict = "APPROVE" THEN "APPROVED" ELSE "REJECTED"

\* (Broken variant: A mixed outcome stays partially approved.)
RecomputedStatusMixed(all, left) ==
  IF left # {} \/ \E d, e \in all : d.verdict # e.verdict THEN "PARTIALLY_APPROVED"
  ELSE IF \A d \in all : d.verdict = "APPROVE" THEN "APPROVED" ELSE "REJECTED"

\* (Broken variant: The first rejection closes the request.)
RecomputedStatusEager(all, left) ==
  IF \E d \in all : d.verdict = "REJECT" THEN "REJECTED"
  ELSE IF left # {} THEN "PARTIALLY_APPROVED" ELSE "APPROVED"

RecomputedStatus(all, left) ==
  IF left # {} THEN "PARTIALLY_APPROVED"
  ELSE IF \A d \in all : d.verdict = "APPROVE" THEN "APPROVED" ELSE "REJECTED"

CommitDecide(c) ==
  /\ call[c].op = "decide"
  /\ LET a   == call[c].request
         all == decisions[a] \cup {[verdict |-> call[c].verdict, issues |-> call[c].issues]}
     IN /\ decisions' = [decisions EXCEPT ![a] = all]
        /\ request' = [request EXCEPT ![a].status =
             RecomputedStatus(all, call[c].remaining \ call[c].issues)]
  /\ Finish(c)
  /\ UNCHANGED <<runStatus, issueStatus, suggestions, selected, correction>>

ApprovalNext(c) ==
  \/ \E r \in Run : Submit(c, r)
  \/ CommitSubmit(c) \/ OutOfRequests(c)
  \/ \E a \in ApprovalRequest, verdict \in {"APPROVE", "REJECT"}, issues \in SUBSET Issue :
       DecideRequest(c, a, verdict, issues)
  \/ CommitDecide(c)
=============================================================================
