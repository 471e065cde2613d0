------------------------- MODULE ExpenseApiProofs ---------------------------
(***************************************************************************)
(* Proofs about ExpenseApi, for any number of tenants, drivers, expenses   *)
(* and concurrent requests: the API process implements the service, so its *)
(* invariants carry over, and no answer tells a caller of another's row.   *)
(***************************************************************************)
EXTENDS ExpenseApi, ExpenseServiceProofs

\* What the fields of a request are that passed RequireAuth.
LEMMA RequestFacts ==
    ASSUME NEW q \in Request, MayCall(q)
    PROVE  /\ q.id \in Expenses
           /\ q.route \in Routes
           /\ q.text \in Messages \cup {None}
           /\ q.receipt \in Receipts \cup {None}
           /\ q.claims.owner \in Owners
           /\ q.route \in DriverRoutes =>
                 q.claims.role = "driver" /\ q.claims.driver \in Drivers
           /\ q.route \notin DriverRoutes => q.claims.role = "admin"
<1>1. /\ q.id \in Expenses
      /\ q.route \in Routes
      /\ q.text \in Messages \cup {None}
      /\ q.receipt \in Receipts \cup {None}
      /\ q.claims \in Claims \cup {None}
    BY DEF Request, RequestOf, Routes, ReviewRoutes
<1>2. q.claims \in Claims /\ q.claims.role = RoleOf(q.route)
    BY <1>1 DEF MayCall, RequireAuth
<1>3. CASE q.claims \in [role: {"admin"}, owner: Owners, driver: {None}]
    BY <1>1, <1>2, <1>3 DEF RoleOf
<1>4. CASE \E d \in Drivers : q.claims = [role |-> "driver", owner |-> OwnerOf[d], driver |-> d]
    BY <1>1, <1>2, <1>4, OwnersAssumption DEF RoleOf
<1>5. QED BY <1>2, <1>3, <1>4 DEF Claims

-----------------------------------------------------------------------------
(* The API implements the service.                                         *)

\* A request that passed the checks of the handler runs a call of the service.
LEMMA ServeIsCall ==
    ASSUME NEW c \in Clients, NEW q \in Request, Serve(c, q)
    PROVE  DriverCall(c) \/ OwnerCall(c)
<1>0. MayCall(q) /\ WellFormed(q)
    BY DEF Serve, WellFormed
<1>1. CASE q.route = "approve" /\ Approve(c, q.id, q.claims.owner)
    BY <1>0, <1>1, RequestFacts DEF OwnerCall
<1>2. CASE q.route = "reject" /\ Reject(c, q.id, q.claims.owner, q.text)
    BY <1>0, <1>2, RequestFacts DEF OwnerCall
<1>3. CASE q.route = "request-evidence" /\ RequestEvidence(c, q.id, q.claims.owner, q.text)
    BY <1>0, <1>3, RequestFacts DEF OwnerCall, WellFormed
<1>4. CASE q.route = "attach" /\ AddAttachment(c, q.id, q.claims.driver, q.receipt)
    BY <1>0, <1>4, RequestFacts DEF DriverCall, WellFormed, DriverRoutes
<1>5. QED BY <1>1, <1>2, <1>3, <1>4 DEF Serve, Review, Attach

LEMMA CreateIsCreate ==
    ASSUME NEW c \in Clients, NEW q \in Request, CreateExpense(c, q)
    PROVE  \/ UNCHANGED vars
           \/ \E e \in Expenses, d \in Drivers, r \in Receipts : Create(e, d, r)
<1>1. MayCall(q) /\ q.route \in DriverRoutes /\ q.receipt # None
    BY DEF CreateExpense, WellFormed, DriverRoutes
<1>2. q.id \in Expenses /\ q.claims.driver \in Drivers /\ q.receipt \in Receipts
    BY <1>1, RequestFacts
<1>3. Create(q.id, q.claims.driver, q.receipt) \/ UNCHANGED vars
    BY DEF CreateExpense
<1>4. QED BY <1>2, <1>3

LEMMA ApiStep == [ApiNext]_apiVars => [Next]_vars
<1> SUFFICES ASSUME ApiNext PROVE [Next]_vars
    BY DEF apiVars, vars
<1>1. ASSUME NEW c \in Clients, NEW q \in Request,
             Unauthorized(c, q) \/ BadRequest(c, q) \/ NotFound(c, q)
               \/ InvalidTransition(c, q) \/ Read(c, q) \/ ReadFails(c, q)
      PROVE  UNCHANGED vars
    BY <1>1 DEF Unauthorized, BadRequest, NotFound, InvalidTransition, Read, ReadFails, Refuse
<1>2. ASSUME NEW c \in Clients, NEW q \in Request, Serve(c, q)
      PROVE  [Next]_vars
    BY <1>2, ServeIsCall DEF Next
<1>3. ASSUME NEW c \in Clients, NEW q \in Request, CreateExpense(c, q)
      PROVE  [Next]_vars
    BY <1>3, CreateIsCreate DEF Next
<1>4. ASSUME NEW c \in Clients,
             Written(c) \/ WrittenUnanswered(c) \/ Failed(c) \/ BotStep(c)
      PROVE  [Next]_vars
    BY <1>4 DEF Written, WrittenUnanswered, Failed, BotStep, Next
<1>5. ASSUME NEW c \in Clients, BotCall(c)
      PROVE  [Next]_vars
    BY <1>5 DEF BotCall, Next
<1>6. CASE BotWrite
    BY <1>6 DEF BotWrite, Next
<1>7. ASSUME NEW n \in notices, Deliver(n) \/ Lose(n)
      PROVE  UNCHANGED vars
    BY <1>7 DEF Deliver, Lose, vars
<1>8. QED BY <1>1, <1>2, <1>3, <1>4, <1>5, <1>6, <1>7 DEF ApiNext, RequestStep

\* Whatever requests arrive and however they are refused, fail, lose their
\* answer or are retried, the tables change as the service allows: every
\* theorem about Spec is one about the API.
THEOREM ApiImplementsService == ApiSpec => Spec
<1>1. ApiInit => Init
    BY DEF ApiInit
<1>2. QED BY <1>1, ApiStep, PTL DEF ApiSpec, Spec

\* Under the API, as in the service, the reviewer of a row is its owner and is
\* set exactly on reviewed rows.
THEOREM ApiReviewCorrect == ApiSpec => []ReviewMatchesStatus
BY ApiImplementsService, ReviewCorrect, PTL

-----------------------------------------------------------------------------
(* Answers.                                                                *)

\* The answers that depend on the row.
Telling == {200, 201, 409, 502}

\* In the table rows, the expense of the request exists and is its caller's.
OwnsRow(rows, q) ==
    /\ rows[q.id] # None
    /\ IF q.route \in DriverRoutes
           THEN q.claims.role = "driver" /\ q.claims.driver = rows[q.id].driver
           ELSE q.claims.role = "admin" /\ q.claims.owner = rows[q.id].owner

\* A request and its answer so far: while it is served, and when the answer
\* depends on the row, the row is its caller's.
Fits(rows, q, code) ==
    /\ code \in Telling => q # None
    /\ (q # None /\ code \in Telling \cup {None}) => OwnsRow(rows, q)

\* The inductive invariant: what holds of an answer already holds of every
\* request while it is served, because a row keeps its tenant and driver.
ApiInv ==
    /\ request \in [Clients -> Request \cup {None}]
    /\ reply \in [Clients -> Nat \cup {None}]
    /\ \A c \in Clients : Fits(expenses, request[c], reply[c])

LEMMA TellingFacts == None \notin Telling /\ Telling \subseteq Nat
BY NoRequestAssumption DEF Telling

LEMMA OwnsRowKept ==
    ASSUME IInv, [Next]_vars, NEW q \in Request, OwnsRow(expenses, q)
    PROVE  OwnsRow(expenses', q)
<1>1. RowsKept
    BY RowStep DEF IInv
<1>2. q.id \in Expenses
    BY DEF Request, RequestOf
<1>3. QED BY <1>1, <1>2 DEF RowsKept, OwnsRow

LEMMA FitsKept ==
    ASSUME IInv, [Next]_vars, NEW q \in Request \cup {None}, NEW code,
           Fits(expenses, q, code)
    PROVE  Fits(expenses', q, code)
<1>1. CASE q = None
    BY <1>1 DEF Fits
<1>2. CASE q \in Request
    BY <1>2, OwnsRowKept DEF Fits
<1>3. QED BY <1>1, <1>2

\* The row a well formed request finds is its caller's.
LEMMA FoundIsOwned ==
    ASSUME NEW q \in Request, WellFormed(q), q.route # "create", Found(q)
    PROVE  OwnsRow(expenses, q)
<1>1. MayCall(q)
    BY DEF WellFormed
<1>2. CASE q.route = "attach"
    BY <1>1, <1>2, RequestFacts DEF Found, GetByIDOfDriver, Exists, OwnsRow, DriverRoutes
<1>3. CASE q.route # "attach"
    BY <1>1, <1>3, RequestFacts DEF Found, GetByIDOfOwner, Exists, OwnsRow, DriverRoutes
<1>4. QED BY <1>2, <1>3

\* Client c takes up q and answers it with code, or goes on with it when code
\* is None; nobody else's request or answer changes.
LEMMA OneAnswer ==
    ASSUME ApiInv, IInv, [Next]_vars, NEW c \in Clients, NEW q \in Request \cup {None},
           NEW code \in Nat \cup {None}, Fits(expenses', q, code),
           request' = [request EXCEPT ![c] = q],
           reply' = [reply EXCEPT ![c] = code]
    PROVE  ApiInv'
<1>1. /\ request' \in [Clients -> Request \cup {None}]
      /\ reply' \in [Clients -> Nat \cup {None}]
    BY DEF ApiInv
<1>2. ASSUME NEW k \in Clients
      PROVE  Fits(expenses', request'[k], reply'[k])
    <2>1. CASE k = c
        BY <2>1 DEF ApiInv
    <2>2. CASE k # c
        <3>1. request'[k] = request[k] /\ reply'[k] = reply[k]
            BY <2>2 DEF ApiInv
        <3>2. request[k] \in Request \cup {None} /\ Fits(expenses, request[k], reply[k])
            BY DEF ApiInv
        <3>3. Fits(expenses', request[k], reply[k])
            BY <3>2, FitsKept
        <3>4. QED BY <3>1, <3>3
    <2>3. QED BY <2>1, <2>2
<1>3. QED BY <1>1, <1>2 DEF ApiInv

LEMMA ApiInductive == ApiInv /\ IInv /\ [ApiNext]_apiVars => ApiInv'
<1> SUFFICES ASSUME ApiInv, IInv, [ApiNext]_apiVars PROVE ApiInv'
    OBVIOUS
<1>0. [Next]_vars
    BY ApiStep
<1>1. ASSUME UNCHANGED <<request, reply>> PROVE ApiInv'
    <2>1. ASSUME NEW k \in Clients PROVE Fits(expenses', request[k], reply[k])
        <3>1. request[k] \in Request \cup {None} /\ Fits(expenses, request[k], reply[k])
            BY DEF ApiInv
        <3>2. QED BY <1>0, <3>1, FitsKept
    <2>2. QED BY <1>1, <2>1 DEF ApiInv
\* An answered request, and a request that goes on, of a row that is its caller's.
<1>2. ASSUME NEW c \in Clients, NEW q \in Request, NEW code \in Nat \cup {None},
             request' = [request EXCEPT ![c] = q],
             reply' = [reply EXCEPT ![c] = code],
             code \in Telling \cup {None} => OwnsRow(expenses', q)
      PROVE  ApiInv'
    <2>1. Fits(expenses', q, code)
        BY <1>2, NoRequestAssumption DEF Fits
    <2>2. QED BY <1>0, <1>2, <2>1, OneAnswer
<1>3. ASSUME NEW c \in Clients, NEW q \in Request, NEW code \in Nat, Refuse(c, q, code),
             code \in Telling => OwnsRow(expenses, q)
      PROVE  ApiInv'
    <2>1. code \in Telling => OwnsRow(expenses', q)
        BY <1>0, <1>3, OwnsRowKept
    <2>2. code # None
        BY NoRequestAssumption
    <2>3. request' = [request EXCEPT ![c] = q] /\ reply' = [reply EXCEPT ![c] = code]
        BY <1>3 DEF Refuse, Receives, Answer
    <2>4. QED BY <1>2, <2>1, <2>2, <2>3
<1>4. ASSUME NEW c \in Clients, NEW q \in Request,
             Unauthorized(c, q) \/ BadRequest(c, q) \/ NotFound(c, q) \/ ReadFails(c, q)
      PROVE  ApiInv'
    <2>1. PICK code \in {400, 401, 403, 404, 422, 500} : Refuse(c, q, code)
        BY <1>4 DEF Unauthorized, BadRequest, NotFound, ReadFails
    <2>2. code \in Nat /\ code \notin Telling
        BY DEF Telling
    <2>3. QED BY <1>3, <2>1, <2>2
<1>5. ASSUME NEW c \in Clients, NEW q \in Request, InvalidTransition(c, q) \/ Read(c, q)
      PROVE  ApiInv'
    <2>1. WellFormed(q) /\ q.route # "create" /\ Found(q)
        BY <1>5 DEF InvalidTransition, Read, ReviewRoutes, ReadRoutes
    <2>2. OwnsRow(expenses, q)
        BY <2>1, FoundIsOwned
    <2>3. PICK code \in {200, 404, 409, 502} : Refuse(c, q, code)
        BY <1>5 DEF InvalidTransition, Read, ReadAnswers
    <2>4. QED BY <1>3, <2>2, <2>3
<1>6. ASSUME NEW c \in Clients, NEW q \in Request, Serve(c, q)
      PROVE  ApiInv'
    <2>1. WellFormed(q) /\ q.route # "create" /\ Found(q)
        BY <1>6 DEF Serve, Review, Attach, Approve, Reject, RequestEvidence, AddAttachment, Found
    <2>2. OwnsRow(expenses', q)
        BY <1>0, <2>1, FoundIsOwned, OwnsRowKept
    <2>3. request' = [request EXCEPT ![c] = q] /\ reply' = [reply EXCEPT ![c] = None]
        BY <1>6 DEF Serve, Receives, Answer
    <2>4. QED BY <1>2, <2>2, <2>3
<1>7. ASSUME NEW c \in Clients, NEW q \in Request, CreateExpense(c, q)
      PROVE  ApiInv'
    <2>1. MayCall(q) /\ q.route \in DriverRoutes /\ q.receipt # None
        BY <1>7 DEF CreateExpense, WellFormed, DriverRoutes
    <2>2. request' = [request EXCEPT ![c] = q]
        BY <1>7 DEF CreateExpense, Receives
    <2>3. CASE reply' = [reply EXCEPT ![c] = 500]
        <3>1. 500 \in Nat /\ 500 \notin Telling /\ 500 # None
            BY NoRequestAssumption DEF Telling
        <3>2. QED BY <1>2, <2>2, <2>3, <3>1
    <2>4. CASE Create(q.id, q.claims.driver, q.receipt) /\ reply' = [reply EXCEPT ![c] = 201]
        <3>1. /\ q.id \in Expenses /\ q.receipt \in Receipts
              /\ q.claims.role = "driver" /\ q.claims.driver \in Drivers
            BY <2>1, RequestFacts
        <3>2. expenses'[q.id] =
                 [owner |-> OwnerOf[q.claims.driver], driver |-> q.claims.driver,
                  receipt |-> q.receipt, amount |-> None, status |-> StatusPending,
                  reason |-> None, reviewedBy |-> None, reviewedAt |-> FALSE]
            BY <2>4, <3>1 DEF Create, IInv, TypeOK
        <3>3. expenses'[q.id] \in ExpenseRow
            BY <3>1, <3>2, OwnersAssumption DEF ExpenseRow, Status
        <3>4. expenses'[q.id] # None
            BY <3>3, NoRowAssumption
        <3>5. expenses'[q.id].driver = q.claims.driver
            BY <3>2
        <3>6. OwnsRow(expenses', q)
            BY <2>1, <3>1, <3>4, <3>5 DEF OwnsRow
        <3>7. QED BY <1>2, <2>2, <2>4, <3>6
    <2>5. QED BY <1>7, <2>3, <2>4 DEF CreateExpense, Answer
<1>8. ASSUME NEW c \in Clients, Written(c) \/ WrittenUnanswered(c) \/ Failed(c)
      PROVE  ApiInv'
    <2>1. Serves(c) /\ UNCHANGED request
        BY <1>8 DEF Written, WrittenUnanswered, Failed
    <2>2. request[c] \in Request /\ OwnsRow(expenses, request[c])
        BY <2>1 DEF Serves, ApiInv, Fits
    <2>3. OwnsRow(expenses', request[c])
        BY <1>0, <2>2, OwnsRowKept
    <2>4. request' = [request EXCEPT ![c] = request[c]]
        BY <2>1 DEF ApiInv
    <2>5. PICK code \in Nat : reply' = [reply EXCEPT ![c] = code]
        BY <1>8 DEF Written, WrittenUnanswered, Failed, Answer
    <2>6. QED BY <1>2, <2>2, <2>3, <2>4, <2>5
<1>9. ASSUME NEW c \in Clients, BotCall(c)
      PROVE  ApiInv'
    <2>1. request' = [request EXCEPT ![c] = None] /\ reply' = [reply EXCEPT ![c] = None]
        BY <1>9 DEF BotCall, Answer
    <2>2. Fits(expenses', None, None)
        BY TellingFacts DEF Fits
    <2>3. QED BY <1>0, <2>1, <2>2, OneAnswer
<1>10. ASSUME NEW c \in Clients, BotStep(c) PROVE ApiInv'
    BY <1>1, <1>10 DEF BotStep
<1>11. CASE BotWrite
    BY <1>1, <1>11 DEF BotWrite
<1>12. ASSUME NEW n \in notices, Deliver(n) \/ Lose(n) PROVE ApiInv'
    BY <1>1, <1>12 DEF Deliver, Lose
<1>13. CASE UNCHANGED apiVars
    BY <1>1, <1>13 DEF apiVars
<1>14. ASSUME NEW c \in Clients, RequestStep(c) PROVE ApiInv'
    BY <1>4, <1>5, <1>6, <1>7, <1>14 DEF RequestStep
<1>15. CASE ApiNext
    BY <1>8, <1>9, <1>10, <1>11, <1>12, <1>14, <1>15 DEF ApiNext
<1>16. QED BY <1>13, <1>15

\* For any number of tenants and of requests at the same time, and whatever
\* the bot writes meanwhile, only the owner of an expense, or its driver on the
\* driver routes, gets an answer that depends on it.
THEOREM ApiAnswersOwnRowsOnly == ApiSpec => []AnswersOwnRowsOnly
<1>1. ApiInit => ApiInv
    BY TellingFacts DEF ApiInit, ApiInv, Fits
<1>2. ApiSpec => []IInv
    BY ApiImplementsService, Invariance, PTL
<1>3. ApiInv => AnswersOwnRowsOnly
    <2> SUFFICES ASSUME ApiInv, NEW c \in Clients, reply[c] \in Telling
                 PROVE  OwnsRow(expenses, request[c])
        BY DEF AnswersOwnRowsOnly, OwnsRow, Telling
    <2>1. QED BY DEF ApiInv, Fits
<1>4. QED BY <1>1, <1>2, <1>3, ApiInductive, PTL DEF ApiSpec

-----------------------------------------------------------------------------
(* Requests that do not overlap on an expense.                             *)

\* As long as no two calls are moving the same expense, the statuses that any
\* number of requests, retries and bot calls produce follow the abstract
\* lifecycle (internal/httpapi/handlers/expenses.go).
THEOREM ApiOneMoverImplementsLifecycle ==
    ApiSpec /\ []OneMoverPerRow => ImplementsLifecycle
BY ApiImplementsService, OneMoverImplementsLifecycle, PTL

\* Without overlapping calls they always do.
THEOREM ApiSerialImplementsLifecycle ==
    ASSUME NEW c \in Clients, Clients = {c}
    PROVE  ApiSpec => ImplementsLifecycle
BY ApiImplementsService, SerialImplementsLifecycle, PTL

\* The statement in flight is the one the review asked for.
ServedFits(c) ==
    (Serves(c) /\ call[c] # None /\ request[c].route \in ReviewRoutes) =>
        /\ call[c].stmt = "UpdateStatus"
        /\ call[c].id = request[c].id
        /\ call[c].status = Target(request[c].route)
        /\ request[c].route = "reject" => call[c].reason = request[c].text

\* Row e was reviewed and its status is s.
Stands(e, s) == e \in Expenses /\ s \in Reviewed /\ Exists(e) /\ expenses[e].status = s

AckedStand == \A m \in acked : Stands(m[1], m[2])

\* What notice n says of its expense is so.
True(n) ==
    n.kind = StatusRejected => Stands(n.id, StatusRejected) /\ expenses[n.id].reason = n.text

NoticesTrue == (\A n \in notices : True(n)) /\ (\A m \in chat : True(m[1]))

StandingInv == (\A c \in Clients : ServedFits(c)) /\ AckedStand /\ NoticesTrue

LEMMA StandsOn ==
    ASSUME IInv, SeenIsCurrent, [Next]_vars,
           NEW e, NEW s, Stands(e, s)
    PROVE  (Stands(e, s))' /\ expenses'[e].reason = expenses[e].reason
<1>1. RowsKept
    BY RowStep DEF IInv
<1>2. QED
    BY <1>1, ReviewedRowStands DEF Stands, Exists, RowsKept

LEMMA TrueStays ==
    ASSUME IInv, SeenIsCurrent, [Next]_vars,
           NEW n, True(n)
    PROVE  (True(n))'
BY StandsOn DEF True

\* The row after the statement of a review.
LEMMA ReviewWritten ==
    ASSUME NEW c \in Clients, IInv, ServedFits(c), Serves(c), WriteStep(c),
           NEW q \in Request, q = request[c], q.route \in {"approve", "reject"}
    PROVE  /\ (Stands(q.id, Target(q.route)))'
           /\ q.route = "reject" => expenses'[q.id].reason = q.text
<1> DEFINE s == call[c]
<1>1. call[c] # None
    BY DEF WriteStep, UpdateStatus, UpdateReceiptID, SubmitReceiptID, UpdateAmountStmt,
        InsertAttachment, Executes
<1>2. /\ s.stmt = "UpdateStatus" /\ s.id = q.id /\ s.status = Target(q.route)
      /\ q.route = "reject" => s.reason = q.text
    BY <1>1 DEF ServedFits, ReviewRoutes
<1>3. UpdateStatus(c)
    BY <1>2 DEF WriteStep, UpdateReceiptID, SubmitReceiptID, UpdateAmountStmt,
        InsertAttachment, Executes
<1>4. s \in StatusStmt /\ s.id \in Expenses /\ expenses[s.id] \in ExpenseRow
    BY <1>1, <1>2, Executing, StatementKind DEF IInv
<1>5. expenses' = [expenses EXCEPT ![s.id] = RowAfter(expenses[s.id], s)]
    BY <1>3 DEF UpdateStatus
<1>6. /\ RowAfter(expenses[s.id], s) \in ExpenseRow
      /\ RowAfter(expenses[s.id], s).status = s.status
      /\ RowAfter(expenses[s.id], s).reason = s.reason
    BY <1>4, RowAfterType
<1>7. /\ expenses'[s.id] \in ExpenseRow /\ expenses'[s.id].status = s.status
      /\ expenses'[s.id].reason = s.reason
    BY <1>4, <1>5, <1>6 DEF IInv, TypeOK
<1>8. expenses'[s.id] # None
    BY <1>7, NoRowAssumption
<1>9. Target(q.route) \in Reviewed
    BY DEF Target, Reviewed
<1>10. QED
    BY <1>2, <1>4, <1>7, <1>8, <1>9 DEF Stands, Exists

\* A request, its answer and its statement change by their own client only.
LEMMA OwnRequest ==
    ASSUME IInv, ApiInv, [ApiNext]_apiVars, NEW d \in Clients
    PROVE  \/ call'[d] = call[d] /\ request'[d] = request[d] /\ reply'[d] = reply[d]
           \/ RequestStep(d) \/ Written(d) \/ WrittenUnanswered(d) \/ Failed(d)
           \/ BotCall(d) \/ BotStep(d)
<1> DEFINE Same == call'[d] = call[d] /\ request'[d] = request[d] /\ reply'[d] = reply[d]
<1>1. /\ request \in [Clients -> Request \cup {None}] /\ reply \in [Clients -> Nat \cup {None}]
      /\ call \in [Clients -> Statement \cup {None}] /\ TypeOK
    BY DEF ApiInv, IInv, TypeOK
<1>2. ASSUME NEW c \in Clients, c # d, WriteStep(c) \/ Fail(c)
      PROVE  call'[d] = call[d]
    BY <1>1, <1>2 DEF WriteStep, UpdateStatus, UpdateReceiptID, SubmitReceiptID,
        UpdateAmountStmt, InsertAttachment, Fail, Return
<1>3. ASSUME NEW c \in Clients, c # d, NEW s, Decide(c, s)
      PROVE  call'[d] = call[d]
    BY <1>1, <1>3 DEF Decide
<1>4. ASSUME NEW c \in Clients, c # d, NEW q \in Request,
             \/ Unauthorized(c, q) \/ BadRequest(c, q) \/ NotFound(c, q)
             \/ InvalidTransition(c, q) \/ Read(c, q) \/ ReadFails(c, q)
      PROVE  Same
    <2>1. \E code : Refuse(c, q, code)
        BY <1>4 DEF Unauthorized, BadRequest, NotFound, InvalidTransition, Read, ReadFails
    <2>2. QED
        BY <1>1, <1>4, <2>1 DEF Refuse, Receives, Answer, vars
<1>5. ASSUME NEW c \in Clients, c # d, NEW q \in Request, Serve(c, q)
      PROVE  Same
    <2>1. \E s \in Statement : Decide(c, s) /\ StatementFits(s) /\ SeenNow(s)
        BY <1>1, <1>5, ServeIsCall, Decision
    <2>2. call'[d] = call[d]
        BY <1>3, <1>5, <2>1
    <2>3. QED
        BY <1>1, <1>5, <2>2 DEF Serve, Receives, Answer
<1>6. ASSUME NEW c \in Clients, c # d, NEW q \in Request, CreateExpense(c, q)
      PROVE  Same
    BY <1>1, <1>6 DEF CreateExpense, Receives, Answer, Create, vars
<1>7. ASSUME NEW c \in Clients, c # d, Written(c) \/ WrittenUnanswered(c) \/ Failed(c)
      PROVE  Same
    <2>1. (WriteStep(c) \/ Fail(c)) /\ request' = request
        BY <1>7 DEF Written, WrittenUnanswered, Failed
    <2>2. \E code : reply' = [reply EXCEPT ![c] = code]
        BY <1>7 DEF Written, WrittenUnanswered, Failed, Answer
    <2>3. QED
        BY <1>1, <1>2, <1>7, <2>1, <2>2
<1>8. ASSUME NEW c \in Clients, c # d, BotCall(c)
      PROVE  Same
    <2>1. \E s \in Statement : Decide(c, s) /\ StatementFits(s) /\ SeenNow(s)
        BY <1>1, <1>8, Decision DEF BotCall
    <2>2. call'[d] = call[d]
        BY <1>3, <1>8, <2>1
    <2>3. QED
        BY <1>1, <1>8, <2>2 DEF BotCall, Answer
<1>9. ASSUME NEW c \in Clients, c # d, BotStep(c)
      PROVE  Same
    BY <1>2, <1>9 DEF BotStep
<1>10. CASE BotWrite
    BY <1>10 DEF BotWrite, Create, UpdateAmount
<1>11. ASSUME NEW n \in notices, Deliver(n) \/ Lose(n)
       PROVE  Same
    BY <1>11 DEF Deliver, Lose
<1>12. CASE UNCHANGED apiVars
    BY <1>12 DEF apiVars, vars
<1>13. ASSUME NEW c \in Clients, c # d, RequestStep(c)
       PROVE  Same
    BY <1>4, <1>5, <1>6, <1>13 DEF RequestStep
<1> DEFINE Own(c) == RequestStep(c) \/ Written(c) \/ WrittenUnanswered(c) \/ Failed(c)
                         \/ BotCall(c) \/ BotStep(c)
<1>14. ASSUME NEW c \in Clients, Own(c), c # d
       PROVE  Same
    <2> HIDE DEF Same
    <2>1. QED
        BY <1>7, <1>8, <1>9, <1>13, <1>14
<1>15. ASSUME NEW c \in Clients, Own(c)
       PROVE  Same \/ Own(d)
    <2> HIDE DEF Same, Own
    <2>1. QED
        BY <1>14, <1>15
<1>16. (\E c \in Clients : Own(c)) \/ BotWrite \/ (\E n \in notices : Deliver(n) \/ Lose(n))
            \/ UNCHANGED apiVars
    BY Zenon DEF ApiNext
<1>17. Same \/ Own(d)
    <2>1. CASE \E c \in Clients : Own(c)
        <3>1. PICK c \in Clients : Own(c)
            BY <2>1
        <3>2. QED
            BY <1>15, <3>1
    <2>2. CASE \E n \in notices : Deliver(n) \/ Lose(n)
        BY <1>11, <2>2
    <2>3. QED
        BY <1>10, <1>12, <1>16, <2>1, <2>2
<1>18. QED
    BY <1>17

LEMMA ServedFitsStep ==
    ASSUME NEW c \in Clients, IInv, ApiInv, ServedFits(c), [ApiNext]_apiVars
    PROVE  (ServedFits(c))'
<1>1. /\ request \in [Clients -> Request \cup {None}] /\ reply \in [Clients -> Nat \cup {None}]
      /\ call \in [Clients -> Statement \cup {None}]
    BY DEF ApiInv, IInv, TypeOK
<1>2. CASE call'[c] = call[c] /\ request'[c] = request[c] /\ reply'[c] = reply[c]
    BY <1>2 DEF ServedFits, Serves
<1>3. ASSUME NEW code \in Nat, reply' = [reply EXCEPT ![c] = code]
      PROVE  (ServedFits(c))'
    BY <1>1, <1>3, NoRequestAssumption DEF ServedFits, Serves
<1>4. ASSUME NEW q \in Request, Unauthorized(c, q) \/ BadRequest(c, q) \/ NotFound(c, q)
                 \/ InvalidTransition(c, q) \/ Read(c, q) \/ ReadFails(c, q)
      PROVE  (ServedFits(c))'
    <2>1. PICK code \in {200, 400, 401, 403, 404, 409, 422, 500, 502} : Refuse(c, q, code)
        BY <1>4 DEF Unauthorized, BadRequest, NotFound, InvalidTransition, Read, ReadAnswers,
            ReadFails
    <2>2. code \in Nat
        OBVIOUS
    <2>3. QED
        BY <1>3, <2>1, <2>2 DEF Refuse, Answer
<1>5. ASSUME NEW q \in Request, CreateExpense(c, q)
      PROVE  (ServedFits(c))'
    BY <1>3, <1>5 DEF CreateExpense, Answer
<1>6. ASSUME NEW q \in Request, Serve(c, q)
      PROVE  (ServedFits(c))'
    <2>1. request'[c] = q
        BY <1>1, <1>6 DEF Serve, Receives
    <2>2. ASSUME NEW s, Decide(c, s)
          PROVE  call'[c] = s
        BY <1>1, <2>2 DEF Decide
    <2>3. CASE q.route = "approve" /\ Approve(c, q.id, q.claims.owner)
        BY <2>1, <2>2, <2>3 DEF Approve, SetStatus, ServedFits, Target
    <2>4. CASE q.route = "reject" /\ Reject(c, q.id, q.claims.owner, q.text)
        BY <2>1, <2>2, <2>4 DEF Reject, SetStatus, ServedFits, Target
    <2>5. CASE q.route = "request-evidence" /\ RequestEvidence(c, q.id, q.claims.owner, q.text)
        BY <2>1, <2>2, <2>5 DEF RequestEvidence, SetStatus, ServedFits, Target
    <2>6. CASE Attach(c, q)
        BY <2>1, <2>6 DEF Attach, ServedFits, ReviewRoutes
    <2>7. QED
        BY <1>6, <2>3, <2>4, <2>5, <2>6 DEF Serve, Review
<1>7. CASE Written(c) \/ WrittenUnanswered(c) \/ Failed(c)
    <2>1. PICK code \in Nat : reply' = [reply EXCEPT ![c] = code]
        BY <1>7 DEF Written, WrittenUnanswered, Failed, Answer
    <2>2. QED
        BY <1>3, <2>1
<1>8. CASE BotCall(c)
    <2>1. request'[c] = None
        BY <1>1, <1>8 DEF BotCall
    <2>2. QED
        BY <2>1 DEF ServedFits, Serves
<1>9. CASE BotStep(c)
    BY <1>9 DEF BotStep, ServedFits, Serves
<1>10. QED
    BY <1>2, <1>4, <1>5, <1>6, <1>7, <1>8, <1>9, OwnRequest DEF RequestStep

LEMMA StandingStep ==
    ASSUME IInv, SeenIsCurrent, ApiInv, StandingInv, [ApiNext]_apiVars
    PROVE  AckedStand' /\ NoticesTrue'
<1>1. [Next]_vars
    BY ApiStep
<1>2. /\ \A m \in acked : (Stands(m[1], m[2]))'
      /\ \A n \in notices : (True(n))'
      /\ \A m \in chat : (True(m[1]))'
    BY <1>1, StandsOn, TrueStays DEF StandingInv, AckedStand, NoticesTrue
<1>3. CASE UNCHANGED <<acked, notices, chat>>
    BY <1>2, <1>3 DEF AckedStand, NoticesTrue
<1>4. ASSUME NEW c \in Clients, Written(c)
      PROVE  AckedStand' /\ NoticesTrue'
    <2>0. PICK q \in Request : q = request[c]
        BY <1>4 DEF Written, Serves, ApiInv
    <2>1. Serves(c) /\ WriteStep(c)
        BY <1>4 DEF Written
    <2>2. q.route \in {"approve", "reject"} =>
              /\ (Stands(q.id, Target(q.route)))'
              /\ q.route = "reject" => expenses'[q.id].reason = q.text
        BY <2>0, <2>1, ReviewWritten DEF StandingInv
    <2>3. \A m \in Acknowledged(q) : (Stands(m[1], m[2]))'
        BY <2>2 DEF Acknowledged
    <2>4. \A n \in Started(q) : (True(n))'
        <3>1. CASE q.route = "reject"
            <4>1. \A n \in Started(q) : n.id = q.id /\ n.text = q.text
                BY <3>1 DEF Started
            <4>2. (Stands(q.id, StatusRejected))' /\ expenses'[q.id].reason = q.text
                BY <2>2, <3>1 DEF Target
            <4>3. QED
                BY <4>1, <4>2 DEF True, Stands, Exists
        <3>2. CASE q.route = "request-evidence"
            <4>1. \A n \in Started(q) : n.kind = StatusNeedsEvidence
                BY <3>2 DEF Started, Target
            <4>2. QED
                BY <4>1 DEF True, StatusRejected, StatusNeedsEvidence
        <3>3. CASE q.route \notin {"reject", "request-evidence"}
            BY <3>3 DEF Started
        <3>4. QED
            BY <3>1, <3>2, <3>3
    <2>5. /\ notices' = notices \cup Started(q) /\ acked' = acked \cup Acknowledged(q)
          /\ chat' = chat
        BY <1>4, <2>0 DEF Written
    <2>6. AckedStand'
        BY <1>2, <2>3, <2>5 DEF AckedStand
    <2>7. NoticesTrue'
        BY <1>2, <2>4, <2>5 DEF NoticesTrue
    <2>8. QED
        BY <2>6, <2>7
<1>5. ASSUME NEW n \in notices, Deliver(n)
      PROVE  AckedStand' /\ NoticesTrue'
    <2>1. /\ notices' = notices \ {n} /\ acked' = acked
          /\ chat' = chat \cup {<<n, expenses[n.id].driver>>}
        BY <1>5 DEF Deliver
    <2>2. <<n, expenses[n.id].driver>>[1] = n
        OBVIOUS
    <2>3. AckedStand'
        BY <1>2, <2>1 DEF AckedStand
    <2>4. \A x \in notices' : (True(x))'
        BY <1>2, <2>1
    <2>5. \A m \in chat' : (True(m[1]))'
        BY <1>2, <2>1, <2>2
    <2>6. QED
        BY <2>3, <2>4, <2>5 DEF NoticesTrue
<1>6. ASSUME NEW n \in notices, Lose(n)
      PROVE  AckedStand' /\ NoticesTrue'
    BY <1>2, <1>6 DEF Lose, AckedStand, NoticesTrue
<1>7. CASE UNCHANGED apiVars
    BY <1>3, <1>7 DEF apiVars
<1>8. ASSUME NEW c \in Clients, NEW q \in Request, Unauthorized(c, q) \/ BadRequest(c, q) \/ NotFound(c, q)
                 \/ InvalidTransition(c, q) \/ Read(c, q) \/ ReadFails(c, q)
                 \/ Serve(c, q) \/ CreateExpense(c, q)
      PROVE  UNCHANGED <<acked, notices, chat>>
    BY <1>8 DEF Unauthorized, BadRequest, NotFound, InvalidTransition, Read, ReadFails,
        Refuse, Serve, CreateExpense, Receives
<1>9. ASSUME NEW c \in Clients, BotCall(c) \/ BotStep(c) \/ WrittenUnanswered(c) \/ Failed(c)
      PROVE  UNCHANGED <<acked, notices, chat>>
    BY <1>9 DEF BotCall, BotStep, WrittenUnanswered, Failed
<1>10. CASE BotWrite
    BY <1>3, <1>10 DEF BotWrite
<1>11. QED
    BY <1>3, <1>4, <1>5, <1>6, <1>7, <1>8, <1>9, <1>10 DEF ApiNext, RequestStep

\* As long as no two calls are moving the same expense.
LEMMA StandingAlways == ApiSpec /\ []OneMoverPerRow => []StandingInv
<1>1. ApiInit => ApiInv /\ SeenIsCurrent /\ StandingInv
    BY TellingFacts DEF ApiInit, ApiInv, Fits, Init, SeenIsCurrent, StandingInv, ServedFits,
        Serves, AckedStand, NoticesTrue
<1>2. IInv /\ SeenIsCurrent /\ OneMoverPerRow /\ [ApiNext]_apiVars => SeenIsCurrent'
    BY ApiStep, SeenStep
<1>3. IInv /\ SeenIsCurrent /\ ApiInv /\ StandingInv /\ [ApiNext]_apiVars => StandingInv'
    BY ServedFitsStep, StandingStep DEF StandingInv
<1>4. ApiSpec => []IInv
    BY ApiImplementsService, Invariance, PTL
<1>5. QED
    BY <1>1, <1>2, <1>3, <1>4, ApiInductive, PTL DEF ApiSpec

\* As long as no two calls are moving the same expense, a review that was
\* answered with 200 stands, through bot calls, failed calls, lost answers and
\* retried requests on any number of expenses
\* (internal/httpapi/handlers/expenses.go Approve, Reject).
THEOREM AcknowledgedReviewsStand ==
    ApiSpec /\ []OneMoverPerRow => []AcknowledgedReviewStands
<1>1. StandingInv => AcknowledgedReviewStands
    BY DEF StandingInv, AckedStand, Stands, AcknowledgedReviewStands
<1>2. QED
    BY <1>1, StandingAlways, PTL

\* As long as no two calls are moving the same expense, a driver who is told of
\* a rejection, however late the message comes, finds the expense rejected for
\* that reason (internal/telegram/direct_notifier.go).
THEOREM ToldRejectionsAreTrue ==
    ApiSpec /\ []OneMoverPerRow => []ToldRejectedIsRejected
<1>1. StandingInv => ToldRejectedIsRejected
    BY DEF StandingInv, NoticesTrue, True, Stands, ToldRejectedIsRejected
<1>2. QED
    BY <1>1, StandingAlways, PTL

\* With one client nothing has to be assumed of the calls.
THEOREM SerialAnswersStand ==
    ASSUME NEW c \in Clients, Clients = {c}
    PROVE  ApiSpec => [](AcknowledgedReviewStands /\ ToldRejectedIsRejected)
<1>1. OneMoverPerRow
    BY DEF OneMoverPerRow
<1>2. QED
    BY <1>1, AcknowledgedReviewsStand, ToldRejectionsAreTrue, PTL

=============================================================================
