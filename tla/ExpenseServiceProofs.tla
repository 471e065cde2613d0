------------------------ MODULE ExpenseServiceProofs ------------------------
(***************************************************************************)
(* Proofs about ExpenseService, for any number of owners, drivers,         *)
(* expenses, receipts and clients.                                         *)
(***************************************************************************)
EXTENDS ExpenseService, TLAPS

-----------------------------------------------------------------------------
(* The inductive invariant.  What holds of the rows holds because every    *)
(* statement in flight would keep it: the statement's owner, reviewer and  *)
(* reason fit its status, and the facts its call read about ownership are  *)
(* still true.                                                             *)

\* What an UpdateStatus statement in flight guarantees about its own fields.
StatusStmtOK(s) ==
    /\ s.reviewedBy = IF s.status \in Reviewed THEN s.owner ELSE None
    /\ s.status = StatusNeedsEvidence => s.reason # None
    /\ s.reason # None => s.status \in {StatusNeedsEvidence, StatusRejected}
    /\ LegalMove(s.seen, s.status)

\* What any statement in flight guarantees about the row it will write.
StatementFits(s) ==
    /\ expenses[s.id] # None
    /\ s.stmt = "UpdateStatus" =>
          /\ StatusStmtOK(s)
          /\ s.owner = expenses[s.id].owner
          /\ s.by = IF s.status = StatusConfirmed THEN expenses[s.id].driver
                                                  ELSE expenses[s.id].owner
    /\ s.stmt = "SubmitReceiptID" =>
          /\ s.seen = StatusNeedsEvidence
          /\ s.owner = expenses[s.id].owner
    /\ s.stmt \in {"SubmitReceiptID", "UpdateReceiptID", "AddAttachment"} =>
          s.by = expenses[s.id].driver

StatementsFit == \A c \in Clients : call[c] # None => StatementFits(call[c])

RowOK(row) ==
    /\ row.reviewedBy = IF row.status \in Reviewed THEN row.owner ELSE None
    /\ row.status \in Reviewed => row.reviewedAt
    /\ row.status = StatusNeedsEvidence => row.reason # None
    /\ row.reason # None => row.status \in {StatusNeedsEvidence, StatusRejected}

RowsOK == \A e \in Expenses : expenses[e] # None => RowOK(expenses[e])

IInv == TypeOK /\ RowsOK /\ StatementsFit

-----------------------------------------------------------------------------
(* A statement is of the kind its stmt field names.                        *)
LEMMA StatementKind ==
    ASSUME NEW s \in Statement
    PROVE  /\ s.id \in Expenses
           /\ s.stmt \in {"UpdateStatus", "SubmitReceiptID", "UpdateReceiptID",
                          "AddAttachment", "UpdateAmount"}
           /\ s.stmt = "UpdateStatus" => s \in StatusStmt
           /\ s.stmt = "SubmitReceiptID" => s \in EvidenceStmt
           /\ s.stmt = "UpdateReceiptID" => s \in ReceiptStmt
           /\ s.stmt = "AddAttachment" => s \in AttachStmt
           /\ s.stmt = "UpdateAmount" => s \in AmountStmt
<1>1. CASE s \in StatusStmt   BY <1>1 DEF StatusStmt
<1>2. CASE s \in EvidenceStmt BY <1>2 DEF EvidenceStmt
<1>3. CASE s \in ReceiptStmt  BY <1>3 DEF ReceiptStmt
<1>4. CASE s \in AttachStmt   BY <1>4 DEF AttachStmt
<1>5. CASE s \in AmountStmt   BY <1>5 DEF AmountStmt
<1>6. QED BY <1>1, <1>2, <1>3, <1>4, <1>5 DEF Statement

\* The status a call read is the row's status.
SeenNow(s) ==
    s.stmt \in {"UpdateStatus", "SubmitReceiptID"} => s.seen = expenses[s.id].status

(* Whatever a call decides, after reading the row, is a statement that     *)
(* fits the row.                                                           *)
LEMMA Decision ==
    ASSUME TypeOK, NEW c \in Clients,
           \/ DriverCall(c)
           \/ OwnerCall(c)
           \/ \E r \in Receipts, a \in Amounts : UpdateAmountByReceiptID(c, r, a)
    PROVE  \E s \in Statement : Decide(c, s) /\ StatementFits(s) /\ SeenNow(s)
<1> USE DEF SeenNow, StatementFits, StatusStmtOK, LegalMove, Exists, TypeOK
<1>row. \A e \in Expenses : Exists(e) => expenses[e] \in ExpenseRow
    OBVIOUS
<1>1. ASSUME NEW e \in Expenses, NEW d \in Drivers, Confirm(c, e, d)
      PROVE  \E s \in Statement : Decide(c, s) /\ StatementFits(s) /\ SeenNow(s)
    <2> DEFINE s == SetStatus(e, d, StatusConfirmed, None, None)
    <2>1. expenses[e] \in ExpenseRow /\ expenses[e].driver = d
        BY <1>1, <1>row DEF Confirm, GetByIDOfDriver
    <2>2. s \in StatusStmt
        BY <2>1 DEF SetStatus, StatusStmt, ExpenseRow, Status
    <2>3. StatementFits(s) /\ SeenNow(s)
        BY <1>1, <2>1 DEF SetStatus, Confirm, GetByIDOfDriver, StatusConfirmed,
            Reviewed, StatusApproved, StatusRejected, StatusNeedsEvidence
    <2>4. Decide(c, s)
        BY <1>1 DEF Confirm
    <2>5. QED BY <2>2, <2>3, <2>4 DEF Statement
<1>2. ASSUME NEW e \in Expenses, NEW o \in Owners, Approve(c, e, o)
      PROVE  \E s \in Statement : Decide(c, s) /\ StatementFits(s) /\ SeenNow(s)
    <2> DEFINE s == SetStatus(e, o, StatusApproved, o, None)
    <2>1. expenses[e] \in ExpenseRow /\ expenses[e].owner = o
        BY <1>2, <1>row DEF Approve, GetByIDOfOwner
    <2>2. s \in StatusStmt
        BY <2>1 DEF SetStatus, StatusStmt, ExpenseRow, Status
    <2>3. StatementFits(s) /\ SeenNow(s)
        BY <1>2, <2>1, NoneAssumption DEF SetStatus, Approve, GetByIDOfOwner,
            StatusConfirmed, Reviewed, StatusApproved, StatusRejected, StatusNeedsEvidence
    <2>4. Decide(c, s)
        BY <1>2 DEF Approve
    <2>5. QED BY <2>2, <2>3, <2>4 DEF Statement
<1>3. ASSUME NEW e \in Expenses, NEW o \in Owners, NEW reason \in Messages \cup {None}, Reject(c, e, o, reason)
      PROVE  \E s \in Statement : Decide(c, s) /\ StatementFits(s) /\ SeenNow(s)
    <2> DEFINE s == SetStatus(e, o, StatusRejected, o, reason)
    <2>1. expenses[e] \in ExpenseRow /\ expenses[e].owner = o
        BY <1>3, <1>row DEF Reject, GetByIDOfOwner
    <2>2. s \in StatusStmt
        BY <2>1 DEF SetStatus, StatusStmt, ExpenseRow, Status
    <2>3. StatementFits(s) /\ SeenNow(s)
        BY <1>3, <2>1, NoneAssumption DEF SetStatus, Reject, GetByIDOfOwner,
            StatusConfirmed, Reviewed, StatusApproved, StatusRejected, StatusNeedsEvidence
    <2>4. Decide(c, s)
        BY <1>3 DEF Reject
    <2>5. QED BY <2>2, <2>3, <2>4 DEF Statement
<1>4. ASSUME NEW e \in Expenses, NEW o \in Owners, NEW message \in Messages, RequestEvidence(c, e, o, message)
      PROVE  \E s \in Statement : Decide(c, s) /\ StatementFits(s) /\ SeenNow(s)
    <2> DEFINE s == SetStatus(e, o, StatusNeedsEvidence, None, message)
    <2>1. expenses[e] \in ExpenseRow /\ expenses[e].owner = o
        BY <1>4, <1>row DEF RequestEvidence, GetByIDOfOwner
    <2>2. s \in StatusStmt
        BY <2>1 DEF SetStatus, StatusStmt, ExpenseRow, Status
    <2>3. StatementFits(s) /\ SeenNow(s)
        BY <1>4, <2>1, NoneAssumption DEF SetStatus, RequestEvidence, GetByIDOfOwner,
            StatusConfirmed, Reviewed, StatusApproved, StatusRejected, StatusNeedsEvidence
    <2>4. Decide(c, s)
        BY <1>4 DEF RequestEvidence
    <2>5. QED BY <2>2, <2>3, <2>4 DEF Statement
<1>5. ASSUME NEW e \in Expenses, NEW d \in Drivers, NEW r \in Receipts, SubmitEvidence(c, e, d, r)
      PROVE  \E s \in Statement : Decide(c, s) /\ StatementFits(s) /\ SeenNow(s)
    <2> DEFINE s == [stmt |-> "SubmitReceiptID", id |-> e, by |-> d, seen |-> expenses[e].status,
                    owner |-> expenses[e].owner, receipt |-> r]
    <2>1. expenses[e] \in ExpenseRow /\ expenses[e].driver = d
        BY <1>5, <1>row DEF SubmitEvidence, GetByIDOfDriver
    <2>2. s \in EvidenceStmt
        BY <2>1 DEF SetStatus, EvidenceStmt, ExpenseRow, Status
    <2>3. StatementFits(s) /\ SeenNow(s)
        BY <1>5, <2>1, NoneAssumption DEF SetStatus, SubmitEvidence, GetByIDOfDriver
    <2>4. Decide(c, s)
        BY <1>5 DEF SubmitEvidence
    <2>5. QED BY <2>2, <2>3, <2>4 DEF Statement
<1>6. ASSUME NEW e \in Expenses, NEW d \in Drivers, NEW r \in Receipts, AttachOptionalEvidence(c, e, d, r)
      PROVE  \E s \in Statement : Decide(c, s) /\ StatementFits(s) /\ SeenNow(s)
    <2> DEFINE s == [stmt |-> "UpdateReceiptID", id |-> e, by |-> d, receipt |-> r]
    <2>1. expenses[e] \in ExpenseRow /\ expenses[e].driver = d
        BY <1>6, <1>row DEF AttachOptionalEvidence, GetByIDOfDriver
    <2>2. s \in ReceiptStmt
        BY <2>1 DEF SetStatus, ReceiptStmt, ExpenseRow, Status
    <2>3. StatementFits(s) /\ SeenNow(s)
        BY <1>6, <2>1, NoneAssumption DEF SetStatus, AttachOptionalEvidence, GetByIDOfDriver
    <2>4. Decide(c, s)
        BY <1>6 DEF AttachOptionalEvidence
    <2>5. QED BY <2>2, <2>3, <2>4 DEF Statement
<1>7. ASSUME NEW e \in Expenses, NEW d \in Drivers, NEW r \in Receipts, AddAttachment(c, e, d, r)
      PROVE  \E s \in Statement : Decide(c, s) /\ StatementFits(s) /\ SeenNow(s)
    <2> DEFINE s == [stmt |-> "AddAttachment", id |-> e, by |-> d, receipt |-> r]
    <2>1. expenses[e] \in ExpenseRow /\ expenses[e].driver = d
        BY <1>7, <1>row DEF AddAttachment, GetByIDOfDriver
    <2>2. s \in AttachStmt
        BY <2>1 DEF SetStatus, AttachStmt, ExpenseRow, Status
    <2>3. StatementFits(s) /\ SeenNow(s)
        BY <1>7, <2>1, NoneAssumption DEF SetStatus, AddAttachment, GetByIDOfDriver
    <2>4. Decide(c, s)
        BY <1>7 DEF AddAttachment
    <2>5. QED BY <2>2, <2>3, <2>4 DEF Statement
<1>8. ASSUME NEW r \in Receipts, NEW a \in Amounts, UpdateAmountByReceiptID(c, r, a)
      PROVE  \E s \in Statement : Decide(c, s) /\ StatementFits(s) /\ SeenNow(s)
    <2>1. PICK e \in Expenses :
              /\ expenses[e] # None
              /\ Decide(c, [stmt |-> "UpdateAmount", id |-> e, amount |-> a])
        BY <1>8 DEF UpdateAmountByReceiptID
    <2> DEFINE s == [stmt |-> "UpdateAmount", id |-> e, amount |-> a]
    <2>2. s \in AmountStmt
        BY DEF AmountStmt
    <2>3. StatementFits(s) /\ SeenNow(s)
        BY <2>1
    <2>4. QED BY <2>1, <2>2, <2>3 DEF Statement
<1>9. QED
    BY <1>1, <1>2, <1>3, <1>4, <1>5, <1>6, <1>7, <1>8 DEF DriverCall, OwnerCall

(* No step removes a row or changes whose it is.                           *)
RowsKept ==
    \A e \in Expenses : expenses[e] # None =>
        /\ expenses'[e] # None
        /\ expenses'[e].owner = expenses[e].owner
        /\ expenses'[e].driver = expenses[e].driver

(* The shape of a step: a client decides on a statement that fits, or a    *)
(* statement is executed or dropped, or a row is inserted or its amount    *)
(* set.                                                                    *)
LEMMA Step ==
    ASSUME TypeOK, [Next]_vars
    PROVE  \/ \E c \in Clients, s \in Statement : 
                  Decide(c, s) /\ StatementFits(s) /\ SeenNow(s)
           \/ \E c \in Clients : WriteStep(c) \/ Fail(c)
           \/ \E e \in Expenses, d \in Drivers, r \in Receipts : Create(e, d, r)
           \/ \E e \in Expenses, a \in Amounts : UpdateAmount(e, a)
           \/ UNCHANGED vars
BY Decision DEF Next

(* Facts about the statement an executing client holds.                    *)
LEMMA Executing ==
    ASSUME TypeOK, StatementsFit, NEW c \in Clients, call[c] # None
    PROVE  /\ call[c] \in Statement
           /\ StatementFits(call[c])
           /\ call[c].id \in Expenses
           /\ expenses[call[c].id] \in ExpenseRow
BY StatementKind DEF TypeOK, StatementsFit, StatementFits

\* UpdateStatus changes the status, the review and the reason of a row, and
\* nothing else of it.
LEMMA RowAfterType ==
    ASSUME NEW row \in ExpenseRow, NEW s \in StatusStmt
    PROVE  /\ RowAfter(row, s) \in ExpenseRow
           /\ RowAfter(row, s).owner = row.owner
           /\ RowAfter(row, s).driver = row.driver
           /\ RowAfter(row, s).status = s.status
           /\ RowAfter(row, s).reviewedBy = s.reviewedBy
           /\ RowAfter(row, s).reviewedAt = (row.reviewedAt \/ s.reviewedBy # None)
           /\ RowAfter(row, s).reason = s.reason
BY DEF RowAfter, ExpenseRow, StatusStmt

(* Every step keeps the types, keeps the rows, and what it writes into a   *)
(* row is a status with the reviewer and reason that fit it, or leaves the *)
(* status, the reviewer and the reason alone.                              *)
LEMMA RowStep ==
    ASSUME TypeOK, RowsOK, StatementsFit, [Next]_vars
    PROVE  /\ expenses' \in [Expenses -> ExpenseRow \cup {None}]
           /\ RowsKept
           /\ RowsOK'
<1> USE NoRowAssumption DEF TypeOK, RowsKept, RowsOK
<1> DEFINE Goal == /\ expenses' \in [Expenses -> ExpenseRow \cup {None}]
                   /\ RowsKept
                   /\ RowsOK'
<1>1. CASE UNCHANGED expenses
    BY <1>1
<1>2. ASSUME NEW c \in Clients, UpdateStatus(c)
      PROVE  Goal
    <2> DEFINE s == call[c]
               row == expenses[s.id]
               new == RowAfter(row, s)
    <2>1. /\ s.id \in Expenses /\ row \in ExpenseRow
          /\ s \in StatusStmt /\ StatusStmtOK(s) /\ s.owner = row.owner
        BY <1>2, Executing, StatementKind DEF UpdateStatus, Executes, StatementFits
    <2>2. new \in ExpenseRow /\ new.owner = row.owner /\ new.driver = row.driver
        BY <2>1, RowAfterType
    <2>3. RowOK(new)
        BY <1>2, <2>1, RowAfterType DEF RowOK, StatusStmtOK, UpdateStatus,
            chk_review_consistency
    <2>4. expenses' = [expenses EXCEPT ![s.id] = new]
        BY <1>2 DEF UpdateStatus
    <2> HIDE DEF s, row, new
    <2>5. QED BY <2>1, <2>2, <2>3, <2>4 DEF row
<1>3. ASSUME NEW c \in Clients, UpdateReceiptID(c) \/ SubmitReceiptID(c)
      PROVE  Goal
    <2>1. /\ call[c].id \in Expenses /\ expenses[call[c].id] \in ExpenseRow
          /\ call[c].receipt \in Receipts
        BY <1>3, Executing, StatementKind
            DEF UpdateReceiptID, SubmitReceiptID, Executes, ReceiptStmt, EvidenceStmt
    <2>2. expenses' = [expenses EXCEPT ![call[c].id].receipt = call[c].receipt]
        BY <1>3 DEF UpdateReceiptID, SubmitReceiptID
    <2>3. QED BY <2>1, <2>2 DEF ExpenseRow, RowOK
<1>4. ASSUME NEW c \in Clients, UpdateAmountStmt(c)
      PROVE  Goal
    <2>1. /\ call[c].id \in Expenses /\ expenses[call[c].id] \in ExpenseRow
          /\ call[c].amount \in Amounts
        BY <1>4, Executing, StatementKind DEF UpdateAmountStmt, Executes, AmountStmt
    <2>2. expenses' = [expenses EXCEPT ![call[c].id].amount = call[c].amount]
        BY <1>4 DEF UpdateAmountStmt
    <2>3. QED BY <2>1, <2>2 DEF ExpenseRow, RowOK
<1>5. ASSUME NEW e \in Expenses, NEW a \in Amounts, UpdateAmount(e, a)
      PROVE  Goal
    BY <1>5 DEF UpdateAmount, Exists, ExpenseRow, RowOK
<1>6. ASSUME NEW e \in Expenses, NEW d \in Drivers, NEW r \in Receipts, Create(e, d, r)
      PROVE  Goal
    <2> DEFINE new == [owner |-> OwnerOf[d], driver |-> d, receipt |-> r,
                       amount |-> None, status |-> StatusPending, reason |-> None,
                       reviewedBy |-> None, reviewedAt |-> FALSE]
    <2>1. new \in ExpenseRow
        BY OwnersAssumption DEF ExpenseRow, Status
    <2>2. RowOK(new)
        BY DEF RowOK, Reviewed, StatusPending, StatusApproved, StatusRejected,
            StatusNeedsEvidence
    <2>3. ~Exists(e) /\ expenses' = [expenses EXCEPT ![e] = new]
        BY <1>6 DEF Create
    <2> HIDE DEF new
    <2>4. QED BY <2>1, <2>2, <2>3 DEF Exists
<1>7. QED
    BY Step, <1>1, <1>2, <1>3, <1>4, <1>5, <1>6
        DEF Decide, WriteStep, InsertAttachment, Fail, vars

(* Every statement in flight after a step is one that was in flight        *)
(* before, or one just decided on, or SubmitEvidence's second write: and   *)
(* it still fits, since rows keep their owner and driver.                  *)
LEMMA CallStep ==
    ASSUME TypeOK, RowsOK, StatementsFit, [Next]_vars
    PROVE  call' \in [Clients -> Statement \cup {None}] /\ StatementsFit'
<1> DEFINE Goal == call' \in [Clients -> Statement \cup {None}] /\ StatementsFit'
<1>0. RowsKept
    BY RowStep
<1>1. ASSUME NEW s \in Statement, StatementFits(s)
      PROVE  StatementFits(s)'
    BY <1>0, <1>1, StatementKind DEF StatementFits, RowsKept
<1>2. CASE UNCHANGED call
    BY <1>1, <1>2 DEF StatementsFit, TypeOK
<1>3. ASSUME NEW c \in Clients, NEW s \in Statement \cup {None},
             call' = [call EXCEPT ![c] = s], s # None => StatementFits(s)
      PROVE  Goal
    BY <1>1, <1>3 DEF StatementsFit, TypeOK
<1>4. ASSUME NEW c \in Clients, SubmitReceiptID(c)
      PROVE  Goal
    <2> DEFINE s == call[c]
               next == [stmt |-> "UpdateStatus", id |-> s.id, by |-> s.by,
                        seen |-> s.seen, owner |-> s.owner,
                        status |-> StatusConfirmed, reviewedBy |-> None,
                        reason |-> None, receipt |-> s.receipt]
    <2>1. s \in EvidenceStmt /\ StatementFits(s) /\ s.stmt = "SubmitReceiptID"
        BY <1>4, Executing, StatementKind DEF SubmitReceiptID, Executes
    <2>2. next \in StatusStmt
        BY <2>1 DEF EvidenceStmt, StatusStmt, Status
    <2>3. StatusStmtOK(next)
        BY <2>1 DEF StatementFits, StatusStmtOK, LegalMove, canTransition,
            validTransitions, Reviewed, Status, StatusPending, StatusConfirmed,
            StatusNeedsEvidence, StatusApproved, StatusRejected
    <2>4. StatementFits(next)
        BY <2>1, <2>3 DEF StatementFits
    <2>5. call' = [call EXCEPT ![c] = next]
        BY <1>4 DEF SubmitReceiptID
    <2> HIDE DEF next
    <2>6. QED BY <1>3, <2>2, <2>4, <2>5 DEF Statement
<1>5. QED
    BY Step, <1>2, <1>3, <1>4
        DEF Decide, WriteStep, UpdateStatus, UpdateReceiptID, UpdateAmountStmt,
            InsertAttachment, Fail, Return, Create, UpdateAmount, vars

\* The attachments table only ever names expenses and receipts there are.
LEMMA AttachmentStep ==
    ASSUME TypeOK, [Next]_vars
    PROVE  attachments' \subseteq Expenses \X Receipts
<1>1. ASSUME NEW c \in Clients, InsertAttachment(c)
      PROVE  attachments' \subseteq Expenses \X Receipts
    <2>1. call[c] \in AttachStmt
        BY <1>1, StatementKind DEF TypeOK, InsertAttachment, Executes
    <2>2. QED BY <1>1, <2>1 DEF InsertAttachment, AttachStmt, TypeOK
<1>2. QED
    BY Step, <1>1
        DEF TypeOK, Decide, WriteStep, UpdateStatus, UpdateReceiptID, SubmitReceiptID,
            UpdateAmountStmt, Fail, Create, UpdateAmount, vars

\* Every step of the service keeps the invariant.
LEMMA Inductive == IInv /\ [Next]_vars => IInv'
BY RowStep, CallStep, AttachmentStep DEF IInv, TypeOK

\* The invariant holds in every reachable state of the service.
LEMMA Invariance == Spec => []IInv
<1>1. Init => IInv
    BY DEF Init, IInv, TypeOK, RowsOK, StatementsFit
<1>2. QED BY <1>1, Inductive, PTL DEF Spec

-----------------------------------------------------------------------------
(* Safety, for every value of the constants and every interleaving.        *)

\* Every reachable state is typed: rows and statements in flight are built
\* only from values the service can hold (ids, claims, statuses).
THEOREM TypeCorrect == Spec => []TypeOK
BY Invariance, PTL DEF IInv

\* Status and reviewer of every row agree, however UpdateStatus statements of
\* different calls overwrite each other.
THEOREM ReviewCorrect == Spec => []ReviewMatchesStatus
<1>1. IInv => ReviewMatchesStatus
    BY NoneAssumption DEF IInv, TypeOK, RowsOK, RowOK, ReviewMatchesStatus, Exists,
        ExpenseRow
<1>2. QED BY <1>1, Invariance, PTL

\* The evidence message is there exactly while it is needed, and no text
\* survives on a pending, confirmed or approved row.
THEOREM ReasonCorrect == Spec => []ReasonMatchesStatus
<1>1. IInv => ReasonMatchesStatus
    BY DEF IInv, RowsOK, RowOK, ReasonMatchesStatus, Exists
<1>2. QED BY <1>1, Invariance, PTL

\* The ownership checked at the read still holds at the write: a driver never
\* writes another driver's row, an owner never another tenant's.
THEOREM Authorized == Spec => []StatementsAuthorized
<1>1. ASSUME IInv, NEW c \in Clients, call[c] # None, ~Executes(c, "UpdateAmount")
      PROVE  LET s == call[c] IN
             /\ Exists(s.id)
             /\ s.by = IF Executes(c, "UpdateStatus") /\ s.status # StatusConfirmed
                         THEN expenses[s.id].owner
                         ELSE expenses[s.id].driver
    <2>1. StatementFits(call[c]) /\ call[c] \in Statement
        BY <1>1, Executing DEF IInv
    <2>2. QED BY <1>1, <2>1, StatementKind DEF StatementFits, Exists, Executes
<1>2. IInv => StatementsAuthorized
    BY <1>1 DEF StatementsAuthorized
<1>3. QED BY <1>2, Invariance, PTL

-----------------------------------------------------------------------------
(* What a step may do to a status.                                         *)

\* In every step a row keeps its status, or client c's UpdateStatus moves it.
LEMMA StatusStep ==
    ASSUME IInv, [Next]_vars, NEW e \in Expenses, Exists(e)
    PROVE  \/ expenses'[e].status = expenses[e].status
           \/ \E c \in Clients :
                 /\ MovesStatus(c, e)
                 /\ StatusStmtOK(call[c])
                 /\ call[c] \in StatusStmt
                 /\ expenses'[e].status = call[c].status
<1> USE DEF IInv, TypeOK, Exists
<1> DEFINE Goal == \/ expenses'[e].status = expenses[e].status
                   \/ \E c \in Clients :
                         /\ MovesStatus(c, e)
                         /\ StatusStmtOK(call[c])
                         /\ call[c] \in StatusStmt
                         /\ expenses'[e].status = call[c].status
<1>1. ASSUME NEW c \in Clients, UpdateStatus(c)
      PROVE  Goal
    <2>1. /\ call[c] \in StatusStmt /\ StatusStmtOK(call[c])
          /\ call[c].id \in Expenses /\ expenses[call[c].id] \in ExpenseRow
        BY <1>1, Executing, StatementKind DEF UpdateStatus, Executes, StatementFits
    <2>2. RowAfter(expenses[call[c].id], call[c]).status = call[c].status
        BY <2>1, RowAfterType
    <2>3. expenses' = [expenses EXCEPT ![call[c].id] =
                          RowAfter(expenses[call[c].id], call[c])]
        BY <1>1 DEF UpdateStatus
    <2>4. CASE call[c].id = e
        BY <1>1, <2>1, <2>2, <2>3, <2>4 DEF MovesStatus
    <2>5. CASE call[c].id # e
        BY <2>3, <2>5
    <2>6. QED BY <2>4, <2>5
<1>2. ASSUME NEW c \in Clients,
             UpdateReceiptID(c) \/ SubmitReceiptID(c) \/ UpdateAmountStmt(c)
      PROVE  Goal
    <2>1. call[c].id \in Expenses /\ expenses[call[c].id] \in ExpenseRow
        BY <1>2, Executing DEF UpdateReceiptID, SubmitReceiptID, UpdateAmountStmt, Executes
    <2>2. QED
        BY <1>2, <2>1 DEF UpdateReceiptID, SubmitReceiptID, UpdateAmountStmt, ExpenseRow
<1>3. ASSUME NEW f \in Expenses, NEW a \in Amounts, UpdateAmount(f, a)
      PROVE  Goal
    BY <1>3 DEF UpdateAmount, ExpenseRow
<1>4. ASSUME NEW f \in Expenses, NEW d \in Drivers, NEW r \in Receipts, Create(f, d, r)
      PROVE  Goal
    BY <1>4 DEF Create
<1>5. CASE UNCHANGED expenses
    BY <1>5
<1>6. QED
    BY Step, <1>1, <1>2, <1>3, <1>4, <1>5
        DEF Decide, WriteStep, InsertAttachment, Fail, vars

\* A status move outside validTransitions is always a stale write: the call
\* that makes it read the row before some other call moved it.
THEOREM IllegalMovesAreStale == Spec => IllegalMoveIsStale
<1> DEFINE A == \A e \in Expenses :
          (Exists(e) /\ ~LegalMove(expenses[e].status, expenses'[e].status)
                     /\ expenses'[e].status # expenses[e].status) =>
              \E c \in Clients : MovesStatus(c, e) /\ call[c].seen # expenses[e].status
<1>1. ASSUME IInv, [Next]_vars
      PROVE  A
    BY <1>1, StatusStep DEF StatusStmtOK
<1>2. IInv /\ [Next]_vars => [A]_vars
    BY <1>1
<1>3. QED BY <1>2, Invariance, PTL DEF Spec, IllegalMoveIsStale

\* No step removes a row, hands it to another tenant or driver, or takes it
\* back to pending.
THEOREM RowIdentity == Spec => RowIdentityKept
<1> DEFINE A == \A e \in Expenses : Exists(e) =>
          /\ expenses'[e] # None
          /\ expenses'[e].owner = expenses[e].owner
          /\ expenses'[e].driver = expenses[e].driver
          /\ expenses[e].status # StatusPending => expenses'[e].status # StatusPending
<1>1. ASSUME IInv, [Next]_vars
      PROVE  A
    <2>1. RowsKept
        BY <1>1, RowStep DEF IInv
    <2>2. ASSUME NEW s \in StatusStmt, StatusStmtOK(s)
          PROVE  s.status # StatusPending
        BY <2>2 DEF StatusStmtOK, LegalMove, canTransition, validTransitions, StatusStmt,
            Status, StatusPending, StatusConfirmed, StatusNeedsEvidence, StatusApproved,
            StatusRejected
    <2>3. QED BY <1>1, <2>1, <2>2, StatusStep DEF RowsKept, Exists
<1>2. IInv /\ [Next]_vars => [A]_vars
    BY <1>1
<1>3. QED BY <1>2, Invariance, PTL DEF Spec, RowIdentityKept

-----------------------------------------------------------------------------
(* Calls that overlap on different rows, or on a row only one of them      *)
(* moves, implement the abstract lifecycle: what a call read is still the  *)
(* row's status when it writes.                                            *)

\* Client c is in a call that is going to write a status.
Moves(c) == Executes(c, "UpdateStatus") \/ Executes(c, "SubmitReceiptID")

\* No two calls at a time are going to write the status of the same row.  They
\* may overlap on different rows, and with calls that attach receipts or set
\* amounts.
OneMoverPerRow ==
    \A c, d \in Clients : (Moves(c) /\ Moves(d) /\ call[c].id = call[d].id) => c = d

\* Client c is in a call that is going to link a receipt to its row, or has
\* linked it and is going to confirm the row.
Links(c) ==
    \/ Executes(c, "SubmitReceiptID")
    \/ Executes(c, "UpdateReceiptID")
    \/ Executes(c, "UpdateStatus") /\ call[c].receipt # None

\* No two calls at a time are linking receipts to the same row.
OneLinkerPerRow ==
    \A c, d \in Clients : (Links(c) /\ Links(d) /\ call[c].id = call[d].id) => c = d

SeenIsCurrent == \A c \in Clients : call[c] # None => SeenNow(call[c])

\* A client's statement in flight is changed by its own call only.
LEMMA OwnCall ==
    ASSUME IInv, [Next]_vars, NEW d \in Clients, call'[d] # call[d]
    PROVE  \/ \E s \in Statement : Decide(d, s) /\ StatementFits(s) /\ SeenNow(s)
           \/ WriteStep(d)
           \/ Fail(d)
<1>1. TypeOK /\ call \in [Clients -> Statement \cup {None}]
    BY DEF IInv, TypeOK
<1>2. ASSUME NEW c \in Clients, NEW s, Decide(c, s)
      PROVE  c = d
    BY <1>1, <1>2 DEF Decide
<1>3. ASSUME NEW c \in Clients, WriteStep(c) \/ Fail(c)
      PROVE  c = d
    BY <1>1, <1>3 DEF WriteStep, UpdateStatus, UpdateReceiptID, SubmitReceiptID,
        UpdateAmountStmt, InsertAttachment, Fail, Return
<1>4. QED
    BY <1>1, <1>2, <1>3, Step DEF Create, UpdateAmount, vars

\* A statement in flight is never replaced by itself when it is executed.
LEMMA Executed ==
    ASSUME IInv, NEW d \in Clients, WriteStep(d) \/ Fail(d)
    PROVE  /\ call[d] # None
           /\ ~SubmitReceiptID(d) => call'[d] = None
           /\ SubmitReceiptID(d) => call'[d].stmt = "UpdateStatus" /\ call[d].stmt = "SubmitReceiptID"
BY DEF WriteStep, UpdateStatus, UpdateReceiptID, SubmitReceiptID, UpdateAmountStmt,
    InsertAttachment, Fail, Return, Executes, IInv, TypeOK

\* No write comes between a call's read and its own write of the row: the
\* status it read is still the status of the row.
LEMMA SeenStep ==
    ASSUME IInv, SeenIsCurrent, OneMoverPerRow, [Next]_vars
    PROVE  SeenIsCurrent'
<1>1. SUFFICES ASSUME NEW d \in Clients, call'[d] # None,
                      call'[d].stmt \in {"UpdateStatus", "SubmitReceiptID"}
               PROVE  call'[d].seen = expenses'[call'[d].id].status
    BY DEF SeenIsCurrent, SeenNow
<1>2. TypeOK /\ StatementsFit
    BY DEF IInv
<1>3. CASE call'[d] = call[d]
    <2> DEFINE e == call[d].id
    <2>1. /\ e \in Expenses /\ Exists(e) /\ call[d].seen = expenses[e].status /\ Moves(d)
        BY <1>1, <1>2, <1>3, Executing, NoRowAssumption
            DEF SeenIsCurrent, SeenNow, Exists, Moves, Executes
    <2>2. ASSUME NEW c \in Clients, MovesStatus(c, e)
          PROVE  FALSE
        <3>1. c = d
            BY <2>1, <2>2 DEF MovesStatus, UpdateStatus, Moves, OneMoverPerRow
        <3>2. WriteStep(d) /\ ~SubmitReceiptID(d)
            BY <2>2, <3>1 DEF MovesStatus, WriteStep, UpdateStatus, SubmitReceiptID, Executes
        <3>3. QED
            BY <1>1, <3>2, Executed
    <2>3. expenses'[e].status = expenses[e].status
        BY <2>1, <2>2, StatusStep
    <2>4. QED
        BY <1>3, <2>1, <2>3
<1>4. ASSUME NEW s \in Statement, Decide(d, s), SeenNow(s)
      PROVE  call'[d].seen = expenses'[call'[d].id].status
    BY <1>1, <1>2, <1>4 DEF Decide, SeenNow, TypeOK
<1>5. CASE SubmitReceiptID(d)
    <2>1. call[d].id \in Expenses /\ expenses[call[d].id] \in ExpenseRow
        BY <1>2, <1>5, Executing DEF SubmitReceiptID, Executes
    <2>2. expenses'[call[d].id].status = expenses[call[d].id].status
        BY <1>2, <1>5, <2>1 DEF SubmitReceiptID, TypeOK, ExpenseRow
    <2>3. call'[d].seen = call[d].seen /\ call'[d].id = call[d].id
        BY <1>2, <1>5 DEF SubmitReceiptID, TypeOK
    <2>4. QED
        BY <1>5, <2>2, <2>3 DEF SubmitReceiptID, Executes, SeenIsCurrent, SeenNow
<1>6. QED
    BY <1>1, <1>3, <1>4, <1>5, OwnCall, Executed

\* Every step of the service is a step of the lifecycle, or leaves all the
\* statuses alone.
LEMMA LifecycleStep ==
    ASSUME IInv, SeenIsCurrent, [Next]_vars
    PROVE  [Lifecycle!LNext]_StatusOf
<1> USE DEF IInv, TypeOK, StatusOf, Exists
<1>1. CASE \A e \in Expenses : Exists(e)' = Exists(e) /\
               (Exists(e) => expenses'[e].status = expenses[e].status)
    BY <1>1
<1>2. ASSUME NEW e \in Expenses, NEW d \in Drivers, NEW r \in Receipts, Create(e, d, r)
      PROVE  Lifecycle!Submit(e)
    <2> DEFINE new == [owner |-> OwnerOf[d], driver |-> d, receipt |-> r,
                       amount |-> None, status |-> StatusPending, reason |-> None,
                       reviewedBy |-> None, reviewedAt |-> FALSE]
    <2>1. new \in ExpenseRow
        BY OwnersAssumption DEF ExpenseRow, Status
    <2>2. new # None /\ new.status = StatusPending
        BY <2>1, NoRowAssumption
    <2>3. expenses[e] = None /\ expenses' = [expenses EXCEPT ![e] = new]
        BY <1>2 DEF Create
    <2> HIDE DEF new
    <2>4. QED BY <2>2, <2>3 DEF Lifecycle!Submit, Lifecycle!Absent, StatusPending,
                Lifecycle!StatusPending
<1>3. ASSUME NEW c \in Clients, UpdateStatus(c)
      PROVE  [\E e \in Expenses, to \in Status : Lifecycle!Move(e, to)]_StatusOf
    <2> DEFINE s == call[c]
               new == RowAfter(expenses[s.id], s)
    <2>1. /\ s \in StatusStmt /\ StatusStmtOK(s) /\ s.id \in Expenses
          /\ expenses[s.id] \in ExpenseRow /\ s.seen = expenses[s.id].status
        BY <1>3, Executing, StatementKind
            DEF UpdateStatus, Executes, StatementFits, SeenIsCurrent, SeenNow
    <2>2. new \in ExpenseRow /\ new.status = s.status
        BY <2>1, RowAfterType
    <2>3. expenses' = [expenses EXCEPT ![s.id] = new]
        BY <1>3 DEF UpdateStatus
    <2>4. StatusOf' = [StatusOf EXCEPT ![s.id] = s.status]
        BY <2>1, <2>2, <2>3, NoRowAssumption
    <2>5. /\ StatusOf[s.id] = s.seen
          /\ s.seen \in Status /\ s.status \in Status
          /\ LegalMove(s.seen, s.status)
        BY <2>1, NoRowAssumption DEF StatusStmt, StatusStmtOK
    <2> HIDE DEF s, new
    <2>6. CASE s.status = s.seen
        BY <2>4, <2>5, <2>6
    <2>7. CASE s.status # s.seen
        <3>1. canTransition(s.seen, s.status)
            BY <2>5, <2>7 DEF LegalMove
        <3>2. Lifecycle!canTransition(s.seen, s.status)
            BY <3>1, <2>5 DEF canTransition, validTransitions, Lifecycle!canTransition,
                Lifecycle!validTransitions, Status, Lifecycle!Status,
                StatusPending, StatusConfirmed, StatusNeedsEvidence, StatusApproved,
                StatusRejected, Lifecycle!StatusPending, Lifecycle!StatusConfirmed,
                Lifecycle!StatusNeedsEvidence, Lifecycle!StatusApproved,
                Lifecycle!StatusRejected
        <3>3. Lifecycle!Move(s.id, s.status)
            BY <2>4, <2>5, <3>2 DEF Lifecycle!Move, Lifecycle!Absent, Status,
                StatusPending, StatusConfirmed, StatusNeedsEvidence, StatusApproved,
                StatusRejected
        <3>4. s.id \in Expenses /\ s.status \in Status
            BY <2>1, <2>5
        <3> HIDE DEF StatusOf, TypeOK, IInv
        <3>5. QED BY <3>3, <3>4
    <2>8. QED BY <2>6, <2>7
<1>4. CASE UNCHANGED expenses
    BY <1>4
<1>5. ASSUME NEW c \in Clients, UpdateReceiptID(c) \/ SubmitReceiptID(c) \/ UpdateAmountStmt(c)
      PROVE  UNCHANGED StatusOf
    <2>1. call[c].id \in Expenses /\ expenses[call[c].id] \in ExpenseRow
        BY <1>5, Executing DEF UpdateReceiptID, SubmitReceiptID, UpdateAmountStmt, Executes
    <2>2. \A e \in Expenses : /\ Exists(e)' = Exists(e)
                              /\ Exists(e) => expenses'[e].status = expenses[e].status
        BY <1>5, <2>1, RowStep, NoRowAssumption
            DEF UpdateReceiptID, SubmitReceiptID, UpdateAmountStmt, ExpenseRow, RowsKept
    <2>3. QED BY <2>2
<1>6. ASSUME NEW e \in Expenses, NEW a \in Amounts, UpdateAmount(e, a)
      PROVE  UNCHANGED StatusOf
    <2>1. \A f \in Expenses : /\ Exists(f)' = Exists(f)
                              /\ Exists(f) => expenses'[f].status = expenses[f].status
        BY <1>6, RowStep, NoRowAssumption DEF UpdateAmount, ExpenseRow, RowsKept
    <2>2. QED BY <2>1
<1>7. QED
    <2>1. Lifecycle!Status = Status
        BY DEF Status, Lifecycle!Status, StatusPending, StatusConfirmed,
            StatusNeedsEvidence, StatusApproved, StatusRejected, Lifecycle!StatusPending,
            Lifecycle!StatusConfirmed, Lifecycle!StatusNeedsEvidence,
            Lifecycle!StatusApproved, Lifecycle!StatusRejected
    <2> HIDE DEF StatusOf
    <2>2. QED
        BY Step, <2>1, <1>2, <1>3, <1>4, <1>5, <1>6
            DEF Decide, WriteStep, InsertAttachment, Fail, vars, Lifecycle!LNext

\* As long as no two calls are moving the same expense, any number of calls
\* implements the abstract lifecycle: approved and rejected are final, and
\* every change of a status is one of validTransitions.
THEOREM OneMoverImplementsLifecycle == Spec /\ []OneMoverPerRow => ImplementsLifecycle
<1>1. Init => Lifecycle!LInit
    BY DEF Init, Lifecycle!LInit, StatusOf, Exists, Lifecycle!Absent
<1>2. Init => SeenIsCurrent
    BY DEF Init, SeenIsCurrent
<1>3. IInv /\ SeenIsCurrent /\ OneMoverPerRow /\ [Next]_vars => SeenIsCurrent'
    BY SeenStep
<1>4. IInv /\ SeenIsCurrent /\ [Next]_vars => [Lifecycle!LNext]_StatusOf
    BY LifecycleStep
<1>5. QED
    BY <1>1, <1>2, <1>3, <1>4, Invariance, PTL
        DEF Spec, ImplementsLifecycle, Lifecycle!LSpec

\* When no two calls overlap (one client), the service implements the abstract
\* lifecycle.
THEOREM SerialImplementsLifecycle ==
    ASSUME NEW c \in Clients, Clients = {c}
    PROVE  Spec => ImplementsLifecycle
<1>1. OneMoverPerRow
    BY DEF OneMoverPerRow
<1>2. QED
    BY <1>1, OneMoverImplementsLifecycle, PTL

-----------------------------------------------------------------------------
(* Evidence.                                                               *)

\* Who changes the receipt of a row.
LEMMA ReceiptStep ==
    ASSUME IInv, [Next]_vars, NEW e \in Expenses, Exists(e)
    PROVE  \/ expenses'[e].receipt = expenses[e].receipt
           \/ \E c \in Clients : /\ UpdateReceiptID(c) \/ SubmitReceiptID(c)
                                 /\ call[c].id = e
<1>1. TypeOK /\ StatementsFit /\ expenses[e] \in ExpenseRow
    BY DEF IInv, TypeOK, Exists
<1>2. ASSUME NEW c \in Clients, UpdateStatus(c)
      PROVE  expenses'[e].receipt = expenses[e].receipt
    <2> DEFINE s == call[c]
    <2>1. s \in StatusStmt /\ s.id \in Expenses /\ expenses[s.id] \in ExpenseRow
        BY <1>1, <1>2, Executing, StatementKind DEF UpdateStatus, Executes
    <2>2. RowAfter(expenses[s.id], s).receipt = expenses[s.id].receipt
        BY <2>1 DEF RowAfter, ExpenseRow
    <2>3. QED
        BY <1>1, <1>2, <2>1, <2>2 DEF UpdateStatus, TypeOK
<1>3. ASSUME NEW c \in Clients, UpdateAmountStmt(c)
      PROVE  expenses'[e].receipt = expenses[e].receipt
    BY <1>1, <1>3 DEF UpdateAmountStmt, TypeOK, ExpenseRow
<1>4. ASSUME NEW c \in Clients, UpdateReceiptID(c) \/ SubmitReceiptID(c), call[c].id # e
      PROVE  expenses'[e].receipt = expenses[e].receipt
    BY <1>1, <1>4 DEF UpdateReceiptID, SubmitReceiptID, TypeOK
<1>5. ASSUME NEW f \in Expenses, NEW a \in Amounts, UpdateAmount(f, a)
      PROVE  expenses'[e].receipt = expenses[e].receipt
    BY <1>1, <1>5 DEF UpdateAmount, TypeOK, ExpenseRow
<1>6. ASSUME NEW f \in Expenses, NEW d \in Drivers, NEW r \in Receipts, Create(f, d, r)
      PROVE  expenses'[e].receipt = expenses[e].receipt
    BY <1>1, <1>6 DEF Create, Exists, TypeOK
<1>7. QED
    BY <1>1, <1>2, <1>3, <1>4, <1>5, <1>6, Step
        DEF Decide, WriteStep, InsertAttachment, Fail, vars

\* A decision carries no receipt that is taken to be linked.
LEMMA DecidesUnlinked ==
    ASSUME NEW d \in Clients,
           \/ DriverCall(d)
           \/ OwnerCall(d)
           \/ \E r \in Receipts, a \in Amounts : UpdateAmountByReceiptID(d, r, a)
    PROVE  \E s : Decide(d, s) /\ (s.stmt = "UpdateStatus" => s.receipt = None)
<1>1. ASSUME NEW e, NEW by, NEW st, NEW rb, NEW reason
      PROVE  SetStatus(e, by, st, rb, reason).receipt = None
    BY DEF SetStatus
<1>2. CASE OwnerCall(d)
    BY <1>1, <1>2 DEF OwnerCall, Approve, Reject, RequestEvidence
<1>3. CASE DriverCall(d)
    <2>1. PICK e \in Expenses, dr \in Drivers :
              \/ Confirm(d, e, dr)
              \/ \E r \in Receipts : \/ SubmitEvidence(d, e, dr, r)
                                     \/ AttachOptionalEvidence(d, e, dr, r)
                                     \/ AddAttachment(d, e, dr, r)
        BY <1>3 DEF DriverCall
    <2>2. CASE Confirm(d, e, dr)
        BY <1>1, <2>2 DEF Confirm
    <2>3. ASSUME NEW r \in Receipts, SubmitEvidence(d, e, dr, r)
          PROVE  \E s : Decide(d, s) /\ (s.stmt = "UpdateStatus" => s.receipt = None)
        BY <2>3 DEF SubmitEvidence
    <2>4. ASSUME NEW r \in Receipts, AttachOptionalEvidence(d, e, dr, r) \/ AddAttachment(d, e, dr, r)
          PROVE  \E s : Decide(d, s) /\ (s.stmt = "UpdateStatus" => s.receipt = None)
        BY <2>4 DEF AttachOptionalEvidence, AddAttachment
    <2>5. QED
        BY <2>1, <2>2, <2>3, <2>4
<1>4. ASSUME NEW r \in Receipts, NEW a \in Amounts, UpdateAmountByReceiptID(d, r, a)
      PROVE  \E s : Decide(d, s) /\ (s.stmt = "UpdateStatus" => s.receipt = None)
    BY <1>4 DEF UpdateAmountByReceiptID
<1>5. QED
    BY <1>2, <1>3, <1>4

\* A call that is about to confirm an expense has linked its receipt, and
\* nothing took it back.
LEMMA LinkedStep ==
    ASSUME IInv, EvidenceLinkedFirst, OneLinkerPerRow, [Next]_vars
    PROVE  EvidenceLinkedFirst'
<1>1. SUFFICES ASSUME NEW d \in Clients, call'[d] # None, call'[d].stmt = "UpdateStatus",
                      call'[d].receipt # None
               PROVE  expenses'[call'[d].id].receipt = call'[d].receipt
    BY DEF EvidenceLinkedFirst, Executes
<1>2. TypeOK /\ StatementsFit
    BY DEF IInv
<1>3. CASE call'[d] = call[d]
    <2> DEFINE e == call[d].id
    <2>1. e \in Expenses /\ Exists(e) /\ Links(d) /\ expenses[e].receipt = call[d].receipt
        BY <1>1, <1>2, <1>3, Executing, NoRowAssumption
            DEF EvidenceLinkedFirst, Exists, Links, Executes
    <2>2. ASSUME NEW c \in Clients, UpdateReceiptID(c) \/ SubmitReceiptID(c), call[c].id = e
          PROVE  FALSE
        <3>1. Links(c)
            BY <2>2 DEF UpdateReceiptID, SubmitReceiptID, Links
        <3>2. c = d
            BY <2>1, <2>2, <3>1 DEF OneLinkerPerRow
        <3>3. QED
            BY <1>1, <1>3, <2>2, <3>2 DEF UpdateReceiptID, SubmitReceiptID, Executes
    <2>3. expenses'[e].receipt = expenses[e].receipt
        BY <2>1, <2>2, ReceiptStep
    <2>4. QED
        BY <1>3, <2>1, <2>3
<1>4. CASE SubmitReceiptID(d)
    <2>1. call[d].id \in Expenses /\ expenses[call[d].id] \in ExpenseRow
        BY <1>2, <1>4, Executing DEF SubmitReceiptID, Executes
    <2>2. expenses'[call[d].id].receipt = call[d].receipt
        BY <1>2, <1>4, <2>1 DEF SubmitReceiptID, TypeOK, ExpenseRow
    <2>3. call'[d].id = call[d].id /\ call'[d].receipt = call[d].receipt
        BY <1>2, <1>4 DEF SubmitReceiptID, TypeOK
    <2>4. QED
        BY <2>2, <2>3
<1>5. ASSUME NEW s, Decide(d, s), s.stmt = "UpdateStatus" => s.receipt = None
      PROVE  FALSE
    BY <1>1, <1>2, <1>5 DEF Decide, TypeOK
<1>6. ASSUME NEW c \in Clients,
             \/ DriverCall(c)
             \/ OwnerCall(c)
             \/ \E r \in Receipts, a \in Amounts : UpdateAmountByReceiptID(c, r, a)
      PROVE  call'[d] = call[d]
    <2>1. PICK s : Decide(c, s) /\ (s.stmt = "UpdateStatus" => s.receipt = None)
        BY <1>6, DecidesUnlinked
    <2>2. c # d
        BY <1>5, <2>1
    <2>3. QED
        BY <1>2, <2>1, <2>2 DEF Decide, TypeOK
<1>7. ASSUME NEW c \in Clients, WriteStep(c) \/ Fail(c), call'[d] # call[d]
      PROVE  SubmitReceiptID(d)
    <2>1. c = d
        BY <1>2, <1>7 DEF WriteStep, UpdateStatus, UpdateReceiptID, SubmitReceiptID,
            UpdateAmountStmt, InsertAttachment, Fail, Return, TypeOK
    <2>2. QED
        BY <1>1, <1>7, <2>1, Executed
<1>8. QED
    BY <1>3, <1>4, <1>6, <1>7 DEF Next, Create, UpdateAmount, vars

\* As long as no two calls are linking receipts to the same expense, a call that
\* is about to confirm it has linked the submitted receipt, whoever reviews the
\* expense meanwhile (internal/expense/service.go SubmitEvidence).
THEOREM OneLinkerKeepsEvidence == Spec /\ []OneLinkerPerRow => []EvidenceLinkedFirst
<1>1. Init => EvidenceLinkedFirst
    BY DEF Init, EvidenceLinkedFirst, Executes
<1>2. IInv /\ EvidenceLinkedFirst /\ OneLinkerPerRow /\ [Next]_vars => EvidenceLinkedFirst'
    BY LinkedStep
<1>3. QED
    BY <1>1, <1>2, Invariance, PTL DEF Spec

\* When calls do not overlap, a call that is about to confirm an expense has
\* linked the submitted receipt to it.
THEOREM SerialEvidenceLinkedFirst ==
    ASSUME NEW c \in Clients, Clients = {c}
    PROVE  Spec => []EvidenceLinkedFirst
<1>1. OneLinkerPerRow
    BY DEF OneLinkerPerRow
<1>2. QED
    BY <1>1, OneLinkerKeepsEvidence, PTL

\* While what the calls read is current, no step changes the status or the
\* reason of a reviewed row.
LEMMA ReviewedRowStands ==
    ASSUME IInv, SeenIsCurrent, [Next]_vars,
           NEW e \in Expenses, Exists(e), expenses[e].status \in Reviewed
    PROVE  /\ expenses'[e].status = expenses[e].status
           /\ expenses'[e].reason = expenses[e].reason
<1> USE DEF IInv, TypeOK, Exists
<1>1. expenses[e] \in ExpenseRow
    OBVIOUS
<1>2. ASSUME NEW c \in Clients, UpdateStatus(c)
      PROVE  call[c].id # e
    <2>1. /\ call[c] \in StatusStmt /\ StatusStmtOK(call[c])
          /\ call[c].seen = expenses[call[c].id].status
        BY <1>2, Executing, StatementKind
            DEF UpdateStatus, Executes, StatementFits, SeenIsCurrent, SeenNow
    <2>2. call[c].seen \notin Reviewed
        BY <2>1 DEF StatusStmtOK, LegalMove, canTransition, validTransitions, StatusStmt,
            Status, Reviewed, StatusPending, StatusConfirmed, StatusNeedsEvidence,
            StatusApproved, StatusRejected
    <2>3. QED
        BY <2>1, <2>2
<1>3. ASSUME NEW c \in Clients, UpdateStatus(c)
      PROVE  /\ expenses'[e].status = expenses[e].status
             /\ expenses'[e].reason = expenses[e].reason
    <2>1. expenses' = [expenses EXCEPT ![call[c].id] = RowAfter(expenses[call[c].id], call[c])]
        BY <1>3 DEF UpdateStatus
    <2>2. QED
        BY <1>2, <1>3, <2>1
<1>4. ASSUME NEW c \in Clients, UpdateReceiptID(c) \/ SubmitReceiptID(c) \/ UpdateAmountStmt(c)
      PROVE  /\ expenses'[e].status = expenses[e].status
             /\ expenses'[e].reason = expenses[e].reason
    BY <1>1, <1>4 DEF UpdateReceiptID, SubmitReceiptID, UpdateAmountStmt, ExpenseRow
<1>5. ASSUME NEW f \in Expenses, NEW a \in Amounts, UpdateAmount(f, a)
      PROVE  /\ expenses'[e].status = expenses[e].status
             /\ expenses'[e].reason = expenses[e].reason
    BY <1>1, <1>5 DEF UpdateAmount, ExpenseRow
<1>6. ASSUME NEW f \in Expenses, NEW d \in Drivers, NEW r \in Receipts, Create(f, d, r)
      PROVE  expenses'[e] = expenses[e]
    BY <1>6 DEF Create
<1>7. CASE UNCHANGED expenses
    BY <1>7
<1>8. QED
    BY Step, <1>3, <1>4, <1>5, <1>6, <1>7 DEF Decide, WriteStep, InsertAttachment, Fail, vars

=============================================================================
