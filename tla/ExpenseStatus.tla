--------------------------- MODULE ExpenseStatus ---------------------------
(***************************************************************************)
(* The statuses of an expense and the moves the service allows between     *)
(* them: the Status constants, validTransitions and canTransition of       *)
(* internal/expense.  Shared by the abstract lifecycle and by the detailed *)
(* models of the service.                                                  *)
(***************************************************************************)

StatusPending       == "pending"
StatusConfirmed     == "confirmed"
StatusNeedsEvidence == "needs_evidence"
StatusApproved      == "approved"
StatusRejected      == "rejected"

Status == {StatusPending, StatusConfirmed, StatusNeedsEvidence,
           StatusApproved, StatusRejected}

\* The statuses an owner's review ends in.
Reviewed == {StatusApproved, StatusRejected}

validTransitions ==
    [from \in Status |->
        CASE from = StatusPending       -> {StatusConfirmed, StatusApproved,
                                            StatusRejected, StatusNeedsEvidence}
          [] from = StatusConfirmed     -> {StatusApproved, StatusRejected,
                                            StatusNeedsEvidence}
          [] from = StatusNeedsEvidence -> {StatusConfirmed, StatusRejected}
          [] OTHER                      -> {}]

canTransition(from, to) == to \in validTransitions[from]

=============================================================================
