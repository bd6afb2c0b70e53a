----------------------------- MODULE StagedTable -----------------------------
(***************************************************************************)
(* What a materialization promises: nothing can be seen of the table until *)
(* it is offered, and it is offered whole and at once.  It never changes.  *)
(* Who offers it may still take it back; once that is settled, what is to  *)
(* be seen stays as it is, whatever becomes of the run.                    *)
(***************************************************************************)
EXTENDS Naturals, Sequences

VARIABLES
  outcome,  \* what has become of the run
  offered,  \* the rows of the table and their number in the source
  settled   \* nobody can take the table back, or offer one

Nothing == [rows |-> << >>, counted |-> 0]

Whole(t) == Len(t.rows) = t.counted

Init == outcome = "building" /\ offered = Nothing /\ ~settled

Offer ==
  /\ outcome = "building" /\ ~settled
  /\ outcome' = "ready"
  /\ Whole(offered')
  /\ UNCHANGED settled

Settle ==
  /\ outcome = "ready" /\ ~settled
  /\ settled' = TRUE
  /\ UNCHANGED <<outcome, offered>>

\* The table is gone, and the run says so a step later.
Withdraw ==
  /\ outcome = "ready" /\ ~settled
  /\ offered' = Nothing
  /\ UNCHANGED <<outcome, settled>>

Discard ==
  /\ outcome # "discarded" /\ ~settled
  /\ outcome' = "discarded"
  /\ offered' = Nothing
  /\ settled' = TRUE

Next == Offer \/ Settle \/ Withdraw \/ Discard

Spec == Init /\ [][Next]_<<outcome, offered, settled>>
=============================================================================
