------------------------- MODULE CorrectionDecisions -------------------------
(***************************************************************************)
(* CorrectionDecisionService: the six operations by which a reviewer       *)
(* decides an issue, the only code that writes corrections.                *)
(*                                                                         *)
(* Each operation reads the suggestion, the issue and the review run,      *)
(* reads the correction to refuse a terminal one, reads the correction     *)
(* again to insert or to update it, and commits.  The step from the flush  *)
(* of the correction to the commit is one action: the flush locks the row  *)
(* until the commit, so that two decisions of one issue are serialised     *)
(* from there on, and nothing is visible to anyone else before the commit. *)
(***************************************************************************)
EXTENDS ReviewDb

\* `new` is what the operation wants the row to be; `saw` is the row as read
\* by the upsert, for the issues no longer in `unread`.
DecisionCall ==
  [op : {"decision"}, at : {"begun", "upserting"}, issues : SUBSET Issue, new : CorrectionRow,
   sawSelected : BOOLEAN, sawIssue : [Issue -> IssueStatus],
   unread : SUBSET Issue, saw : [Issue -> CorrectionRow]]

\* (Broken variant: The guard on the review run is missing.)
DecideUnguarded(c, r, issues, new, isSelected) ==
  /\ IsIdle(c)
  /\ call' = [call EXCEPT ![c] =
       [op |-> "decision", at |-> "begun", issues |-> issues, new |-> new,
        sawSelected |-> isSelected, sawIssue |-> issueStatus,
        unread |-> issues, saw |-> [i \in Issue |-> NoCorrection]]]
  /\ UNCHANGED db

\* The reads every operation begins with and the guard on the review run.
\* The guard looks at the status as committed now and takes no lock.
Decide(c, r, issues, new, isSelected) ==
  /\ IsIdle(c)
  /\ runStatus[r] # "READY_FOR_APPROVAL"
  /\ call' = [call EXCEPT ![c] =
       [op |-> "decision", at |-> "begun", issues |-> issues, new |-> new,
        sawSelected |-> isSelected,
        sawIssue |-> [i \in Issue |-> IF i \in issues THEN issueStatus[i] ELSE "PENDING"],
        unread |-> issues, saw |-> [i \in Issue |-> NoCorrection]]]
  /\ UNCHANGED db

Accept(c, s) ==
  /\ "accept" \in Endpoint
  /\ s \in suggestions
  /\ SuggestedValue[s] # Blank
  /\ Decide(c, RunOf[IssueOf[s]], {IssueOf[s]},
            [status |-> "ACCEPTED", suggestion |-> s, value |-> SuggestedValue[s],
             source |-> SourceOf[s]], s \in selected)

Edit(c, s, v) ==
  /\ "edit" \in Endpoint
  /\ s \in suggestions
  /\ Decide(c, RunOf[IssueOf[s]], {IssueOf[s]},
            [status |-> "EDITED", suggestion |-> s, value |-> v, source |-> "HUMAN"],
            s \in selected)

Reject(c, s) ==
  /\ "reject" \in Endpoint
  /\ s \in suggestions
  /\ Decide(c, RunOf[IssueOf[s]], {IssueOf[s]},
            [status |-> "REJECTED", suggestion |-> s, value |-> None, source |-> SourceOf[s]],
            FALSE)

Undecidable(status) ==
  [status |-> status, suggestion |-> None, value |-> None, source |-> None]

Skip(c, i) ==
  /\ "skip" \in Endpoint
  /\ Decide(c, RunOf[i], {i}, Undecidable("SKIPPED"), FALSE)

CorrectDirectly(c, i, v) ==
  /\ "correct" \in Endpoint
  /\ Decide(c, RunOf[i], {i},
            [status |-> "EDITED", suggestion |-> None, value |-> v, source |-> "HUMAN"], FALSE)

\* The bulk operation checks the run named in the URL; the issues come from
\* the body and are not compared with it.
BulkAction(c, r, issues, action) ==
  /\ "bulk" \in Endpoint
  /\ issues # {}
  /\ Decide(c, r, issues, Undecidable(action), FALSE)

-----------------------------------------------------------------------------
\* (Broken variant: Only rejected corrections are terminal.)
AnyTerminalRejected(issues) == \E i \in issues : correction[i].status = "REJECTED"

AnyTerminal(issues) == \E i \in issues : correction[i].status \in TerminalStatus

\* _check_not_terminal raises for one of the issues.
RefuseTerminal(c) ==
  /\ call[c].op = "decision" /\ call[c].at = "begun"
  /\ AnyTerminal(call[c].issues)
  /\ RollBack(c)

CheckNotTerminal(c) ==
  /\ call[c].op = "decision" /\ call[c].at = "begun"
  /\ ~AnyTerminal(call[c].issues)
  /\ call' = [call EXCEPT ![c].at = "upserting"]
  /\ UNCHANGED db

\* _upsert_correction reads the row afresh: the object of the check is gone.
ReadCorrection(c, i) ==
  /\ call[c].op = "decision" /\ call[c].at = "upserting"
  /\ i \in call[c].unread
  /\ call' = [call EXCEPT ![c].unread = @ \ {i}, ![c].saw[i] = correction[i]]
  /\ UNCHANGED db

ReadyToWrite(c) ==
  call[c].op = "decision" /\ call[c].at = "upserting" /\ call[c].unread = {}

\* Only accept and edit choose a suggestion.
Selects(row) == row.suggestion # None /\ row.status \in ResolvedStatus

\* (Broken variant: Selecting a suggestion does not clear the one selected before, and the
\* partial unique index is missing.)
OtherSelectedNone(s) == {}

OtherSelected(s) == {o \in selected : IssueOf[o] = IssueOf[s]} \ {s}

\* The insert of a row that has meanwhile been inserted breaks
\* uq_corrections_issue_id.  The updates of is_selected go out in the order of
\* the primary keys, and uq_correction_suggestions_issue_selected is checked
\* after each one: selecting s before a later key has been cleared breaks it.
ViolatesConstraint(c) ==
  \/ \E i \in call[c].issues :
       call[c].saw[i].status = "NO_ROW" /\ correction[i].status # "NO_ROW"
  \/ /\ Selects(call[c].new)
     /\ ~call[c].sawSelected
     /\ \E o \in OtherSelected(call[c].new.suggestion) :
          KeyOf[o] > KeyOf[call[c].new.suggestion]

FailDecision(c) ==
  /\ ReadyToWrite(c)
  /\ ViolatesConstraint(c)
  /\ RollBack(c)

Upserted(row, saw, new) ==
  [status     |-> Flushed(row.status, saw.status, new.status),
   suggestion |-> Flushed(row.suggestion, saw.suggestion, new.suggestion),
   value      |-> Flushed(row.value, saw.value, new.value),
   source     |-> Flushed(row.source, saw.source, new.source)]

\* (Broken variant: The issue takes over the status of the correction.)
IssueStatusForCopied(new) == new.status

IssueStatusFor(new) == IF new.status = "SKIPPED" THEN "SKIPPED" ELSE "RESOLVED"

CommitDecision(c) ==
  /\ ReadyToWrite(c)
  /\ ~ViolatesConstraint(c)
  /\ LET new == call[c].new
     IN /\ correction' = [i \in Issue |->
             IF i \in call[c].issues THEN Upserted(correction[i], call[c].saw[i], new)
                                     ELSE correction[i]]
        /\ issueStatus' = [i \in Issue |->
             IF i \in call[c].issues
               THEN Flushed(issueStatus[i], call[c].sawIssue[i], IssueStatusFor(new))
               ELSE issueStatus[i]]
        /\ selected' =
             IF ~Selects(new) THEN selected
             ELSE (selected \ OtherSelected(new.suggestion))
                    \cup (IF call[c].sawSelected THEN {} ELSE {new.suggestion})
  /\ Finish(c)
  /\ UNCHANGED <<runStatus, suggestions, request, decisions>>

-----------------------------------------------------------------------------
CorrectionNext(c) ==
  \/ \E s \in Suggestion : Accept(c, s) \/ Reject(c, s) \/ (\E v \in Value : Edit(c, s, v))
  \/ \E i \in Issue : Skip(c, i) \/ (\E v \in Value : CorrectDirectly(c, i, v))
  \/ \E r \in Run, issues \in SUBSET Issue, action \in TerminalStatus :
       BulkAction(c, r, issues, action)
  \/ CheckNotTerminal(c) \/ RefuseTerminal(c)
  \/ \E i \in Issue : ReadCorrection(c, i)
  \/ CommitDecision(c) \/ FailDecision(c)
=============================================================================
