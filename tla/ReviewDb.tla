------------------------------ MODULE ReviewDb ------------------------------
(***************************************************************************)
(* The PostgreSQL rows that the review and the approval services share,    *)
(* and the requests in flight against them.                                *)
(*                                                                         *)
(* Every HTTP request runs in a database session of its own, at isolation  *)
(* level READ COMMITTED and without autoflush (app/core/database.py).  A   *)
(* request is therefore a sequence of reads, each of the committed rows at *)
(* that moment, and then one or more commits.  `call` holds what every     *)
(* request in flight has read so far; everything else is committed data.   *)
(***************************************************************************)
EXTENDS Integers, FiniteSets

CONSTANTS
  Run,              \* review runs
  Issue,            \* their issues, one per validation failure
  Suggestion,       \* ids of correction suggestions, existing or not yet
  ApprovalRequest,  \* ids of approval requests (bounds how many are submitted)
  Caller,           \* requests the API serves at the same time
  Value,            \* non-blank cell values
  Blank,            \* the blank suggested_value of an undecided AI suggestion
  None,             \* SQL NULL
  RunOf,            \* the review run of an issue
  IssueOf,          \* the issue of a suggestion
  SourceOf,         \* RULE_BASED or AI
  SuggestedValue,   \* the value a suggestion proposes
  KeyOf,            \* the order of the suggestions' primary keys
  Endpoint          \* the operations the clients call in this instance

VARIABLES
  runStatus,    \* review_runs.status
  issueStatus,  \* issues.status
  suggestions,  \* the correction_suggestions rows that exist
  selected,     \* ... those with is_selected
  correction,   \* the corrections row of an issue
  request,      \* the approval_requests rows
  decisions,    \* the approval_decisions of a request, with their issues
  call          \* the request a caller has in flight

db   == <<runStatus, issueStatus, suggestions, selected, correction, request, decisions>>
vars == <<db, call>>

-----------------------------------------------------------------------------
(* Row types *)

RunStatus        == {"DRAFT", "IN_REVIEW", "READY_FOR_APPROVAL", "ARCHIVED"}
IssueStatus      == {"PENDING", "RESOLVED", "SKIPPED"}
ResolvedStatus   == {"ACCEPTED", "EDITED"}
TerminalStatus   == {"REJECTED", "SKIPPED"}
SuggestionSource == {"RULE_BASED", "AI"}
OpenStatus       == {"PENDING", "PARTIALLY_APPROVED"}
ClosedStatus     == {"APPROVED", "REJECTED"}

CorrectionRow ==
  [status : {"NO_ROW"} \cup ResolvedStatus \cup TerminalStatus,
   suggestion : Suggestion \cup {None},
   value : Value \cup {None},
   source : SuggestionSource \cup {"HUMAN", None}]

NoCorrection == [status |-> "NO_ROW", suggestion |-> None, value |-> None, source |-> None]

\* affected_issue_count is kept, the issues it counts are not: the scope of a
\* request is evaluated again whenever it is needed.
RequestRow == [status : {"NO_ROW"} \cup OpenStatus \cup ClosedStatus, run : Run, affected : Nat]

Decision == [verdict : {"APPROVE", "REJECT"}, issues : SUBSET Issue]

ASSUME ReviewConstants ==
  /\ IsFiniteSet(Issue)
  /\ Run # {}
  /\ RunOf \in [Issue -> Run]
  /\ IssueOf \in [Suggestion -> Issue]
  /\ SourceOf \in [Suggestion -> SuggestionSource]
  /\ SuggestedValue \in [Suggestion -> Value \cup {Blank}]
  /\ KeyOf \in [Suggestion -> Nat]
  /\ None \notin Suggestion \cup Value
  /\ Blank \notin Value

-----------------------------------------------------------------------------
(* What the services compute from the rows *)

IssuesOf(r) == {i \in Issue : RunOf[i] = r}

\* The resolved-issue scope of a review run, never stored.
ResolvedScope(r) ==
  {i \in IssuesOf(r) : correction[i].value # None /\ correction[i].status \in ResolvedStatus}

Open(a) == request[a].status \in OpenStatus

OpenRequests(r) == {a \in ApprovalRequest : Open(a) /\ request[a].run = r}

DecidedIssues(a) == UNION {d.issues : d \in decisions[a]}

\* A flush writes only the columns of an object whose value differs from the
\* value that was loaded: a column another transaction has changed since then
\* keeps that other value.
Flushed(row, loaded, new) == IF new # loaded THEN new ELSE row

-----------------------------------------------------------------------------
(* Requests in flight *)

Idle == [op |-> "idle"]

IsIdle(c) == call[c] = Idle

Finish(c) == call' = [call EXCEPT ![c] = Idle]

\* A request that fails is rolled back and leaves no trace.
RollBack(c) == Finish(c) /\ UNCHANGED db
=============================================================================
