----------------------------- MODULE ExpenseApi -----------------------------
(***************************************************************************)
(* The expense endpoints of the API process (internal/httpapi), composed   *)
(* with ExpenseService: authentication, the role of the route, the answer  *)
(* for every outcome of the service call, and the Telegram notice that     *)
(* reject and request-evidence start in a goroutine of their own.          *)
(*                                                                         *)
(* A client of ExpenseService serves here an HTTP request or runs a call   *)
(* of the bot process.  The answer to a request is its status code.  The   *)
(* connection may be lost after a statement was committed: the call then   *)
(* reports an error although the row has changed, and the owner retries.   *)
(***************************************************************************)
EXTENDS ExpenseService, Naturals

VARIABLES
    request,  \* request[c]: the request client c serves or has answered last
    reply,    \* reply[c]: its answer, None while it is served
    notices,  \* goroutines that have a notice to send
    chat,     \* notices that reached a driver
    acked     \* history: <<e, status>> for every review answered with 200

apiVars == <<expenses, attachments, call, request, reply, notices, chat, acked>>

\* The claims of a verified JWT.
Claims ==
    [role: {"admin"}, owner: Owners, driver: {None}]
      \cup {[role |-> "driver", owner |-> OwnerOf[d], driver |-> d] : d \in Drivers}

DriverRoutes == {"create", "attach"}
ReviewRoutes == {"approve", "reject", "request-evidence"}
ReadRoutes   == {"get", "receipt", "attachments", "image"}
Routes       == DriverRoutes \cup ReviewRoutes \cup ReadRoutes

\* The role RequireAuth asks for on the group of the route.
RoleOf(route) == IF route \in DriverRoutes THEN "driver" ELSE "admin"

RequestOf(routes, texts, receipts) ==
    [route: routes, id: Expenses, claims: Claims \cup {None}, text: texts, receipt: receipts]

\* claims: None when the token is missing, invalid or expired.
Request ==
    RequestOf(ReadRoutes \cup {"approve"}, {None}, {None})
      \cup RequestOf({"reject", "request-evidence"}, Messages \cup {None}, {None})
      \cup RequestOf(DriverRoutes, {None}, Receipts \cup {None})

ASSUME NoRequestAssumption == None \notin Request /\ None \notin Nat

Notice == [id: Expenses, kind: {StatusRejected, StatusNeedsEvidence},
           text: Messages \cup {None}]

ApiTypeOK ==
    /\ TypeOK
    /\ request \in [Clients -> Request \cup {None}]
    /\ reply \in [Clients -> {200, 201, 400, 401, 403, 404, 409, 422, 500, 502, None}]
    /\ notices \subseteq Notice
    /\ chat \subseteq Notice \X Drivers
    /\ acked \subseteq Expenses \X Reviewed

ApiInit ==
    /\ Init
    /\ request = [c \in Clients |-> None]
    /\ reply = [c \in Clients |-> None]
    /\ notices = {}
    /\ chat = {}
    /\ acked = {}

-----------------------------------------------------------------------------
(* The request up to the service's decision.                               *)

Receives(c, q) ==
    /\ call[c] = None
    /\ request' = [request EXCEPT ![c] = q]
    /\ UNCHANGED <<notices, chat, acked>>

Answer(c, code) == reply' = [reply EXCEPT ![c] = code]

\* The request ends before any statement is decided on.
Refuse(c, q, code) ==
    /\ Receives(c, q)
    /\ Answer(c, code)
    /\ UNCHANGED vars

\* Mutation: the role of the token is not compared with the route's.
RequireAuth_AnyRole(q) == q.claims # None

RequireAuth(q) == q.claims # None /\ q.claims.role = RoleOf(q.route)

\* The handlers of the driver routes look once more for a driver.
MayCall(q) == RequireAuth(q) /\ (q.route \in DriverRoutes => q.claims.driver # None)

Unauthorized(c, q) ==
    /\ ~MayCall(q)
    /\ Refuse(c, q, IF q.claims = None THEN 401 ELSE 403)

\* ErrReceiptRequired and ErrEvidenceMessageRequired come before the read.
BadRequest(c, q) ==
    /\ MayCall(q)
    /\ \/ /\ q.route \in DriverRoutes
          /\ q.receipt = None
          /\ Refuse(c, q, 422)
       \/ /\ q.route = "request-evidence"
          /\ q.text = None
          /\ Refuse(c, q, 400)

WellFormed(q) ==
    /\ MayCall(q)
    /\ q.route \in DriverRoutes => q.receipt # None
    /\ q.route = "request-evidence" => q.text # None

\* The row the service call finds for the claims.
Found(q) ==
    IF q.route = "attach" THEN GetByIDOfDriver(q.id, q.claims.driver)
                          ELSE GetByIDOfOwner(q.id, q.claims.owner)

\* Another tenant's expense, another driver's, and no expense look the same.
NotFound(c, q) ==
    /\ WellFormed(q)
    /\ q.route # "create"
    /\ ~Found(q)
    /\ Refuse(c, q, 404)

Target(route) ==
    CASE route = "approve" -> StatusApproved
      [] route = "reject"  -> StatusRejected
      [] OTHER             -> StatusNeedsEvidence

Refreshes(q) == q.route = "request-evidence" /\ expenses[q.id].status = StatusNeedsEvidence

InvalidTransition(c, q) ==
    /\ WellFormed(q)
    /\ q.route \in ReviewRoutes
    /\ Found(q)
    /\ ~canTransition(expenses[q.id].status, Target(q.route))
    /\ ~Refreshes(q)
    /\ Refuse(c, q, 409)

\* One image is looked up in the expense's attachments; files come from the
\* storage, which may not answer (a manual entry has none).
ReadAnswers(q) ==
    CASE q.route = "receipt" -> {200, 502}
      [] q.route = "image"   -> IF \E r \in Receipts : <<q.id, r>> \in attachments
                                    THEN {200, 404, 502} ELSE {404}
      [] OTHER               -> {200}

Read(c, q) ==
    /\ WellFormed(q)
    /\ q.route \in ReadRoutes
    /\ Found(q)
    /\ \E code \in ReadAnswers(q) : Refuse(c, q, code)

\* GetByID, or another read, ends with an error of the database.
ReadFails(c, q) ==
    /\ WellFormed(q)
    /\ q.route # "create"
    /\ Refuse(c, q, 500)

\* The service call has read the row and decided on its statement.
Review(c, q) ==
    \/ q.route = "approve" /\ Approve(c, q.id, q.claims.owner)
    \/ q.route = "reject"  /\ Reject(c, q.id, q.claims.owner, q.text)
    \/ q.route = "request-evidence" /\ RequestEvidence(c, q.id, q.claims.owner, q.text)

Attach(c, q) == q.route = "attach" /\ AddAttachment(c, q.id, q.claims.driver, q.receipt)

Serve(c, q) ==
    /\ WellFormed(q)
    /\ Review(c, q) \/ Attach(c, q)
    /\ Receives(c, q)
    /\ Answer(c, None)

\* POST /expenses: one INSERT with the tenant and the driver of the claims.
CreateExpense(c, q) ==
    /\ WellFormed(q)
    /\ q.route = "create"
    /\ Receives(c, q)
    /\ \/ Create(q.id, q.claims.driver, q.receipt) /\ Answer(c, 201)
       \/ Create(q.id, q.claims.driver, q.receipt) /\ Answer(c, 500)  \* connection lost
       \/ UNCHANGED vars /\ Answer(c, 500)                            \* INSERT refused

-----------------------------------------------------------------------------
(* The end of the request.                                                 *)

Serves(c) == request[c] # None /\ reply[c] = None

\* The notice the handler starts after the service call returned no error.
Started(q) ==
    IF q.route \in {"reject", "request-evidence"}
        THEN {[id |-> q.id, kind |-> Target(q.route), text |-> q.text]}
        ELSE {}

Acknowledged(q) ==
    IF q.route \in {"approve", "reject"} THEN {<<q.id, Target(q.route)>>} ELSE {}

Written(c) ==
    /\ Serves(c)
    /\ WriteStep(c)
    /\ Answer(c, IF request[c].route = "attach" THEN 201 ELSE 200)
    /\ notices' = notices \cup Started(request[c])
    /\ acked' = acked \cup Acknowledged(request[c])
    /\ UNCHANGED <<request, chat>>

\* The statement was committed and the connection lost before its result.
WrittenUnanswered(c) ==
    /\ Serves(c)
    /\ WriteStep(c)
    /\ Answer(c, 500)
    /\ UNCHANGED <<request, notices, chat, acked>>

\* Mutation: the notice goes out although the service call failed.
Failed_StillNotifies(c) ==
    /\ Serves(c)
    /\ Fail(c)
    /\ Answer(c, 500)
    /\ notices' = notices \cup Started(request[c])
    /\ UNCHANGED <<request, chat, acked>>

\* Mutation: the error is dropped and the handler answers 200.
Failed_AnswersOK(c) ==
    /\ Serves(c)
    /\ Fail(c)
    /\ Answer(c, 200)
    /\ acked' = acked \cup Acknowledged(request[c])
    /\ UNCHANGED <<request, notices, chat>>

Failed(c) ==
    /\ Serves(c)
    /\ Fail(c)
    /\ Answer(c, 500)
    /\ UNCHANGED <<request, notices, chat, acked>>

\* The goroutine re-reads the expense and the driver's Telegram account.
Deliver(n) ==
    /\ n \in notices
    /\ notices' = notices \ {n}
    /\ chat' = chat \cup {<<n, expenses[n.id].driver>>}
    /\ UNCHANGED <<expenses, attachments, call, request, reply, acked>>

\* A read or Telegram fails, no account is linked, or the process ends.
Lose(n) ==
    /\ n \in notices
    /\ notices' = notices \ {n}
    /\ UNCHANGED <<expenses, attachments, call, request, reply, chat, acked>>

-----------------------------------------------------------------------------
(* Calls of the bot process, which answer no request.                      *)

BotCall(c) ==
    /\ call[c] = None
    /\ \/ DriverCall(c)
       \/ \E r \in Receipts, a \in Amounts : UpdateAmountByReceiptID(c, r, a)
    /\ request' = [request EXCEPT ![c] = None]
    /\ Answer(c, None)
    /\ UNCHANGED <<notices, chat, acked>>

BotStep(c) ==
    /\ request[c] = None
    /\ WriteStep(c) \/ Fail(c)
    /\ UNCHANGED <<request, reply, notices, chat, acked>>

BotWrite ==
    /\ \E e \in Expenses :
          \/ \E d \in Drivers, r \in Receipts : Create(e, d, r)
          \/ \E a \in Amounts : UpdateAmount(e, a)
    /\ UNCHANGED <<request, reply, notices, chat, acked>>

RequestStep(c) ==
    \E q \in Request :
        \/ Unauthorized(c, q)
        \/ BadRequest(c, q)
        \/ NotFound(c, q)
        \/ InvalidTransition(c, q)
        \/ Read(c, q)
        \/ ReadFails(c, q)
        \/ Serve(c, q)
        \/ CreateExpense(c, q)

ApiNext ==
    \/ \E c \in Clients :
          \/ RequestStep(c)
          \/ Written(c)
          \/ WrittenUnanswered(c)
          \/ Failed(c)
          \/ BotCall(c)
          \/ BotStep(c)
    \/ BotWrite
    \/ \E n \in notices : Deliver(n) \/ Lose(n)

ApiSpec == ApiInit /\ [][ApiNext]_apiVars

-----------------------------------------------------------------------------
(* Properties.                                                             *)

\* No request reaches a row that is not its caller's: an answer that depends
\* on the row (200, 201, 409, 502) goes to an admin token of the tenant or, on
\* the driver routes, to the driver of the expense.  For everyone else the
\* expense does not exist, whatever its status.
AnswersOwnRowsOnly ==
    \A c \in Clients : reply[c] \in {200, 201, 409, 502} =>
        LET q   == request[c]
            row == expenses[q.id]
        IN  /\ row # None
            /\ IF q.route \in DriverRoutes
                   THEN q.claims.role = "driver" /\ q.claims.driver = row.driver
                   ELSE q.claims.role = "admin" /\ q.claims.owner = row.owner

\* A review that was answered with 200 stands from then on, through bot calls,
\* failed calls, lost answers and retried requests.
AcknowledgedReviewStands == \A m \in acked : expenses[m[1]].status = m[2]

\* A driver who is told of a rejection, now or by a goroutine that still runs,
\* finds the expense rejected for the reason of the message: nothing is sent
\* for a request that failed, and none follows that takes the rejection back.
ToldRejectedIsRejected ==
    \A n \in notices \cup {m[1] : m \in chat} :
        n.kind = StatusRejected =>
            expenses[n.id].status = StatusRejected /\ expenses[n.id].reason = n.text

=============================================================================
