--------------------------- MODULE ExpenseService ---------------------------
(***************************************************************************)
(* internal/expense: the expense service over the shared Postgres tables   *)
(* expenses and expense_attachments.                                       *)
(*                                                                         *)
(* Clients are the goroutines that run service calls: HTTP requests of the *)
(* API process, Telegram handlers and OCR workers of the bot process.  No  *)
(* call runs in a transaction.  A call first reads the row (GetByID), then *)
(* decides in Go, then writes: the read with its checks is one action, and *)
(* every SQL write is one action.  Between them any other call may run, or *)
(* the call may end with an error (lost connection, cancelled request).    *)
(* call[c] is the write statement client c has decided on and not yet      *)
(* executed; a call whose checks fail returns an error and changes nothing.*)
(***************************************************************************)
EXTENDS ExpenseStatus, FiniteSets

CONSTANTS
    Owners,      \* tenants
    Drivers,
    OwnerOf,     \* OwnerOf[d]: the owner in driver d's JWT claims
    Expenses,    \* ids an INSERT may generate
    Receipts,    \* rows of the receipts table
    Amounts,     \* amounts a driver types or the OCR extracts
    Messages,    \* non-blank evidence messages and rejection reasons
    Clients,
    None         \* SQL NULL, the empty reason, no row, no statement in flight

ASSUME OwnersAssumption  == OwnerOf \in [Drivers -> Owners]
ASSUME NoneAssumption    == None \notin Owners \cup Messages

VARIABLES
    expenses,     \* expenses[e]: the row, None until inserted
    attachments,  \* {<<e, r>>}: receipt r is attached to expense e
    call          \* call[c]: the statement client c executes next

vars == <<expenses, attachments, call>>

ExpenseRow ==
    [owner      : Owners,
     driver     : Drivers,
     receipt    : Receipts,
     amount     : Amounts \cup {None},
     status     : Status,
     reason     : Messages \cup {None},
     reviewedBy : Owners \cup {None},
     reviewedAt : BOOLEAN]

ASSUME NoRowAssumption == None \notin ExpenseRow

(***************************************************************************)
(* Statements in flight.  "by" is the principal of the call (the driver or *)
(* owner of its JWT claims) and "seen" the status the call read: they are  *)
(* not arguments of the SQL, they say who decided the statement and why.   *)
(***************************************************************************)
StatusStmt ==
    [stmt: {"UpdateStatus"}, id: Expenses, by: Owners \cup Drivers, seen: Status,
     owner: Owners, status: Status, reviewedBy: Owners \cup {None},
     reason: Messages \cup {None}, receipt: Receipts \cup {None}]

EvidenceStmt == [stmt: {"SubmitReceiptID"}, id: Expenses, by: Drivers, seen: Status,
                 owner: Owners, receipt: Receipts]
ReceiptStmt  == [stmt: {"UpdateReceiptID"}, id: Expenses, by: Drivers, receipt: Receipts]
AttachStmt   == [stmt: {"AddAttachment"}, id: Expenses, by: Drivers, receipt: Receipts]
AmountStmt   == [stmt: {"UpdateAmount"}, id: Expenses, amount: Amounts]

Statement == StatusStmt \cup EvidenceStmt \cup ReceiptStmt \cup AttachStmt \cup AmountStmt

TypeOK ==
    /\ expenses \in [Expenses -> ExpenseRow \cup {None}]
    /\ attachments \subseteq Expenses \X Receipts
    /\ call \in [Clients -> Statement \cup {None}]

Init ==
    /\ expenses = [e \in Expenses |-> None]
    /\ attachments = {}
    /\ call = [c \in Clients |-> None]

-----------------------------------------------------------------------------
(* Reads and the decision to write.                                        *)

Exists(e) == expenses[e] # None

\* GetByID with an owner: the WHERE clause hides other tenants' rows.
GetByIDOfOwner(e, o) == Exists(e) /\ expenses[e].owner = o

\* Mutation: the DriverID check is missing.
GetByIDOfDriver_NoDriverCheck(e, d) == Exists(e)

\* GetByID with uuid.Nil, followed by the DriverID check every driver call makes.
GetByIDOfDriver(e, d) == Exists(e) /\ expenses[e].driver = d

Decide(c, stmt) ==
    /\ call[c] = None
    /\ call' = [call EXCEPT ![c] = stmt]
    /\ UNCHANGED <<expenses, attachments>>

\* The UpdateStatus statement a call on expense e decides on.
SetStatus(e, by, status, reviewedBy, reason) ==
    [stmt |-> "UpdateStatus", id |-> e, by |-> by, seen |-> expenses[e].status,
     owner |-> expenses[e].owner, status |-> status, reviewedBy |-> reviewedBy,
     reason |-> reason, receipt |-> None]

Confirm(c, e, d) ==
    /\ GetByIDOfDriver(e, d)
    /\ canTransition(expenses[e].status, StatusConfirmed)
    /\ Decide(c, SetStatus(e, d, StatusConfirmed, None, None))

\* Mutation: the transition is not checked.
Approve_Unchecked(c, e, o) ==
    /\ GetByIDOfOwner(e, o)
    /\ Decide(c, SetStatus(e, o, StatusApproved, o, None))

Approve(c, e, o) ==
    /\ GetByIDOfOwner(e, o)
    /\ canTransition(expenses[e].status, StatusApproved)
    /\ Decide(c, SetStatus(e, o, StatusApproved, o, None))

\* Mutation: the transition is not checked.
Reject_Unchecked(c, e, o, reason) ==
    /\ GetByIDOfOwner(e, o)
    /\ Decide(c, SetStatus(e, o, StatusRejected, o, reason))

Reject(c, e, o, reason) ==
    /\ GetByIDOfOwner(e, o)
    /\ canTransition(expenses[e].status, StatusRejected)
    /\ Decide(c, SetStatus(e, o, StatusRejected, o, reason))

\* A blank message is refused before the read, so message is never None.
RequestEvidence(c, e, o, message) ==
    /\ GetByIDOfOwner(e, o)
    /\ \/ expenses[e].status = StatusNeedsEvidence
       \/ canTransition(expenses[e].status, StatusNeedsEvidence)
    /\ Decide(c, SetStatus(e, o, StatusNeedsEvidence, None, message))

SubmitEvidence(c, e, d, r) ==
    /\ GetByIDOfDriver(e, d)
    /\ expenses[e].status = StatusNeedsEvidence
    /\ Decide(c, [stmt |-> "SubmitReceiptID", id |-> e, by |-> d,
                  seen |-> expenses[e].status, owner |-> expenses[e].owner,
                  receipt |-> r])

AttachOptionalEvidence(c, e, d, r) ==
    /\ GetByIDOfDriver(e, d)
    /\ Decide(c, [stmt |-> "UpdateReceiptID", id |-> e, by |-> d, receipt |-> r])

AddAttachment(c, e, d, r) ==
    /\ GetByIDOfDriver(e, d)
    /\ Decide(c, [stmt |-> "AddAttachment", id |-> e, by |-> d, receipt |-> r])

\* GetByReceiptID returns one of the rows that carry the receipt (LIMIT 1).
UpdateAmountByReceiptID(c, r, a) ==
    \E e \in Expenses :
        /\ Exists(e)
        /\ expenses[e].receipt = r
        /\ Decide(c, [stmt |-> "UpdateAmount", id |-> e, amount |-> a])

-----------------------------------------------------------------------------
(* Writes.                                                                 *)

\* Mutation: the INSERT overwrites an existing row.
Create_Upsert(e, d, r) ==
    /\ expenses' = [expenses EXCEPT ![e] =
            [owner |-> OwnerOf[d], driver |-> d, receipt |-> r, amount |-> None,
             status |-> StatusPending, reason |-> None, reviewedBy |-> None,
             reviewedAt |-> FALSE]]
    /\ UNCHANGED <<attachments, call>>

\* INSERT with status pending; owner_id and driver_id come from the claims.
Create(e, d, r) ==
    /\ ~Exists(e)
    /\ expenses' = [expenses EXCEPT ![e] =
            [owner |-> OwnerOf[d], driver |-> d, receipt |-> r, amount |-> None,
             status |-> StatusPending, reason |-> None, reviewedBy |-> None,
             reviewedAt |-> FALSE]]
    /\ UNCHANGED <<attachments, call>>

\* The CHECK constraint of the expenses table.
chk_review_consistency(row) ==
    row.status \in Reviewed => row.reviewedBy # None /\ row.reviewedAt

\* Mutation: a NULL reviewed_by keeps the old reviewer.
RowAfter_KeepsReviewer(row, s) ==
    [row EXCEPT !.status     = s.status,
                !.reviewedBy = IF s.reviewedBy = None THEN @ ELSE s.reviewedBy,
                !.reviewedAt = row.reviewedAt \/ s.reviewedBy # None,
                !.reason     = s.reason]

\* Mutation: an empty rejection_reason keeps the old text.
RowAfter_KeepsReason(row, s) ==
    [row EXCEPT !.status     = s.status,
                !.reviewedBy = s.reviewedBy,
                !.reviewedAt = row.reviewedAt \/ s.reviewedBy # None,
                !.reason     = IF s.reason = None THEN @ ELSE s.reason]

\* The row after the UPDATE: reviewed_at is kept when reviewed_by is NULL.
RowAfter(row, s) ==
    [row EXCEPT !.status     = s.status,
                !.reviewedBy = s.reviewedBy,
                !.reviewedAt = row.reviewedAt \/ s.reviewedBy # None,
                !.reason     = s.reason]

\* Client c's next statement is a stmt.
Executes(c, stmt) == call[c] # None /\ call[c].stmt = stmt

Return(c) == call' = [call EXCEPT ![c] = None]

UpdateStatus(c) ==
    /\ Executes(c, "UpdateStatus")
    /\ LET s   == call[c]
           row == expenses[s.id]
       IN  /\ row.owner = s.owner
           /\ chk_review_consistency(RowAfter(row, s))
           /\ expenses' = [expenses EXCEPT ![s.id] = RowAfter(row, s)]
    /\ Return(c)
    /\ UNCHANGED attachments

UpdateReceiptID(c) ==
    /\ Executes(c, "UpdateReceiptID")
    /\ expenses' = [expenses EXCEPT ![call[c].id].receipt = call[c].receipt]
    /\ Return(c)
    /\ UNCHANGED attachments

\* Mutation: the status is moved without linking the receipt first.
SubmitReceiptID_Unlinked(c) ==
    /\ Executes(c, "SubmitReceiptID")
    /\ LET s == call[c] IN
       call' = [call EXCEPT ![c] =
                [stmt |-> "UpdateStatus", id |-> s.id, by |-> s.by, seen |-> s.seen,
                 owner |-> s.owner, status |-> StatusConfirmed, reviewedBy |-> None,
                 reason |-> None, receipt |-> s.receipt]]
    /\ UNCHANGED <<expenses, attachments>>

\* SubmitEvidence's first write; its UpdateStatus to confirmed follows.
SubmitReceiptID(c) ==
    /\ Executes(c, "SubmitReceiptID")
    /\ LET s == call[c] IN
        /\ expenses' = [expenses EXCEPT ![s.id].receipt = s.receipt]
        /\ call' = [call EXCEPT ![c] =
                [stmt |-> "UpdateStatus", id |-> s.id, by |-> s.by, seen |-> s.seen,
                 owner |-> s.owner, status |-> StatusConfirmed, reviewedBy |-> None,
                 reason |-> None, receipt |-> s.receipt]]
    /\ UNCHANGED attachments

UpdateAmountStmt(c) ==
    /\ Executes(c, "UpdateAmount")
    /\ expenses' = [expenses EXCEPT ![call[c].id].amount = call[c].amount]
    /\ Return(c)
    /\ UNCHANGED attachments

\* Service.UpdateAmount is a single UPDATE: no read, no status or owner check.
UpdateAmount(e, a) ==
    /\ Exists(e)
    /\ expenses' = [expenses EXCEPT ![e].amount = a]
    /\ UNCHANGED <<attachments, call>>

InsertAttachment(c) ==
    /\ Executes(c, "AddAttachment")
    /\ attachments' = attachments \cup {<<call[c].id, call[c].receipt>>}
    /\ Return(c)
    /\ UNCHANGED expenses

\* The statement fails or the request's context is cancelled: the call
\* returns an error and what it already wrote stays.
Fail(c) ==
    /\ call[c] # None
    /\ Return(c)
    /\ UNCHANGED <<expenses, attachments>>

-----------------------------------------------------------------------------

DriverCall(c) ==
    \E e \in Expenses, d \in Drivers :
        \/ Confirm(c, e, d)
        \/ \E r \in Receipts :
              \/ SubmitEvidence(c, e, d, r)
              \/ AttachOptionalEvidence(c, e, d, r)
              \/ AddAttachment(c, e, d, r)

OwnerCall(c) ==
    \E e \in Expenses, o \in Owners :
        \/ Approve(c, e, o)
        \/ \E reason \in Messages \cup {None} : Reject(c, e, o, reason)
        \/ \E message \in Messages : RequestEvidence(c, e, o, message)

WriteStep(c) ==
    \/ UpdateStatus(c)
    \/ UpdateReceiptID(c)
    \/ SubmitReceiptID(c)
    \/ UpdateAmountStmt(c)
    \/ InsertAttachment(c)

Next ==
    \/ \E c \in Clients :
          \/ DriverCall(c)
          \/ OwnerCall(c)
          \/ \E r \in Receipts, a \in Amounts : UpdateAmountByReceiptID(c, r, a)
          \/ WriteStep(c)
          \/ Fail(c)
    \/ \E e \in Expenses, d \in Drivers, r \in Receipts : Create(e, d, r)
    \/ \E e \in Expenses, a \in Amounts : UpdateAmount(e, a)

Spec == Init /\ [][Next]_vars

-----------------------------------------------------------------------------
(* Properties that hold however calls interleave.                          *)

\* A review and its reviewer go together: a row is approved or rejected
\* exactly when reviewed_by is set, it then names the row's own owner and
\* reviewed_at is set.  UpdateStatus writes status and reviewed_by in one
\* statement, also when it overwrites another call's review.
ReviewMatchesStatus ==
    \A e \in Expenses : Exists(e) =>
        LET row == expenses[e] IN
        IF row.status \in Reviewed
            THEN row.reviewedBy = row.owner /\ row.reviewedAt
            ELSE row.reviewedBy = None

\* rejection_reason carries two kinds of text.  An expense that needs evidence
\* always has the message the bot shows the driver, and no text survives on a
\* pending, confirmed or approved expense.
ReasonMatchesStatus ==
    \A e \in Expenses : Exists(e) =>
        LET row == expenses[e] IN
        /\ row.status = StatusNeedsEvidence => row.reason # None
        /\ row.reason # None => row.status \in {StatusNeedsEvidence, StatusRejected}

\* The ownership check made at the read still holds when the write runs, for
\* whatever happened in between: only the expense's driver confirms it or
\* changes its receipts, only its owner reviews it or asks for evidence.
StatementsAuthorized ==
    \A c \in Clients : (call[c] # None /\ ~Executes(c, "UpdateAmount")) =>
        LET s == call[c] IN
        /\ Exists(s.id)
        /\ s.by = IF Executes(c, "UpdateStatus") /\ s.status # StatusConfirmed
                    THEN expenses[s.id].owner
                    ELSE expenses[s.id].driver

LegalMove(from, to) ==
    canTransition(from, to) \/ (from = StatusNeedsEvidence /\ to = from)

\* Client c changes the status of expense e in this step.
MovesStatus(c, e) == UpdateStatus(c) /\ call[c].id = e

\* The state machine is broken in one way only: a status move outside
\* validTransitions is written by a call that read an older status.  A call
\* whose row did not move between its read and its write never breaks it.
IllegalMoveIsStale ==
    [][\A e \in Expenses :
          (Exists(e) /\ ~LegalMove(expenses[e].status, expenses'[e].status)
                     /\ expenses'[e].status # expenses[e].status) =>
              \E c \in Clients : MovesStatus(c, e) /\ call[c].seen # expenses[e].status
      ]_vars

\* A row keeps its tenant, its driver and its existence, and never becomes
\* pending again once it has left pending.
RowIdentityKept ==
    [][\A e \in Expenses : Exists(e) =>
          /\ expenses'[e] # None
          /\ expenses'[e].owner = expenses[e].owner
          /\ expenses'[e].driver = expenses[e].driver
          /\ expenses[e].status # StatusPending => expenses'[e].status # StatusPending
      ]_vars

-----------------------------------------------------------------------------
(* Properties that hold when calls do not overlap (one client).            *)

StatusOf == [e \in Expenses |-> IF Exists(e) THEN expenses[e].status ELSE "absent"]

Lifecycle == INSTANCE ExpenseLifecycle WITH status <- StatusOf

\* Without overlapping calls the service implements the abstract lifecycle:
\* every status change is one of validTransitions, approved and rejected are
\* final, and the three statements of SubmitEvidence look like one move.  That
\* is the table's promise and no more: the comments of the service allow less
\* than the table does (see below).
ImplementsLifecycle == Lifecycle!LSpec

\* SubmitEvidence links the new receipt before it moves the status: when only
\* its UpdateStatus is left, the row already carries the submitted receipt,
\* so a call cut short never leaves a confirmed expense without its evidence.
EvidenceLinkedFirst ==
    \A c \in Clients :
        (Executes(c, "UpdateStatus") /\ call[c].receipt # None) =>
            expenses[call[c].id].receipt = call[c].receipt

-----------------------------------------------------------------------------
(* What comments and documents say and the code does not do.               *)

\* Expense e goes into status to in this step.
MovesTo(e, to) ==
    Exists(e) /\ expenses[e].status # to /\ expenses'[e].status = to

\* "only confirmed expenses may be approved" (service.go:88) and "rejected"
\* (service.go:104): the driver has accepted what the owner reviews.
\* validTransitions lets the owner review a pending expense.
OnlyConfirmedIsReviewed ==
    [][\A e \in Expenses, to \in Reviewed :
          MovesTo(e, to) => expenses[e].status = StatusConfirmed
      ]_vars

=============================================================================
