-------------------------- MODULE ExpenseLifecycle --------------------------
(***************************************************************************)
(* What the expense service promises about a status, seen from outside:    *)
(* an expense is created pending and from then on every change of its      *)
(* status is one of validTransitions, made in one indivisible step.        *)
(* ExpenseService is shown to implement this when calls do not overlap.    *)
(***************************************************************************)
EXTENDS ExpenseStatus

CONSTANT Expenses

VARIABLE status      \* status[e]; "absent" until the row is inserted

Absent == "absent"

LTypeOK == status \in [Expenses -> Status \cup {Absent}]

LInit == status = [e \in Expenses |-> Absent]

Submit(e) ==
    /\ status[e] = Absent
    /\ status' = [status EXCEPT ![e] = StatusPending]

Move(e, to) ==
    /\ status[e] # Absent
    /\ canTransition(status[e], to)
    /\ status' = [status EXCEPT ![e] = to]

LNext == \E e \in Expenses : Submit(e) \/ \E to \in Status : Move(e, to)

LSpec == LInit /\ [][LNext]_status

=============================================================================
