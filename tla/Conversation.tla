---------------------------- MODULE Conversation ----------------------------
(***************************************************************************)
(* internal/telegram: the conversation of one driver with the bot.         *)
(*                                                                         *)
(* telebot runs every update in a goroutine of its own, so two messages of *)
(* the driver, and a result of the OCR pool, run at the same time on the   *)
(* same *ConversationState.  The store maps the driver's Telegram id to    *)
(* such an object; reset and a (re)authentication put a new object there,  *)
(* while a handler that started before keeps the old one, and puts it      *)
(* back.                                                                   *)
(*                                                                         *)
(* What a handler does between two calls to the database, Telegram or the  *)
(* storage is one action; task[t] says which call goroutine t is in.       *)
(* Statuses move as in ExpenseService, one call at a time.  Amounts and    *)
(* readings are in OcrPipeline: here the calls about them only succeed or  *)
(* fail.                                                                   *)
(***************************************************************************)
EXTENDS ExpenseStatus, Integers, FiniteSets

CONSTANTS
    NReceipts,    \* receipts and expenses are numbered as they are inserted
    NExpenses,
    Tasks,        \* goroutines that handle updates of this driver
    NObjects,     \* ConversationState objects in use at the same time
    MaxReviews,   \* reviews by the owner
    MaxRestarts,  \* restarts of the bot process
    None

Receipts == 1..NReceipts
Expenses == 1..NExpenses
Objects  == 1..NObjects

ASSUME CountsAssumption == /\ NReceipts \in Nat /\ NExpenses \in Nat
                           /\ NObjects \in Nat /\ MaxReviews \in Nat
                           /\ MaxRestarts \in Nat

ASSUME NoneAssumption == None \notin Receipts \cup Expenses \cup Objects

VARIABLES
    heap,         \* heap[o]: the ConversationState object o
    store,        \* the object stored for the driver, None if there is none
    task,         \* task[t]: the call goroutine t is in, and what it holds
    shown,        \* inline buttons the chat shows, where they stay; the one to
                  \* edit the amount comes with "confirm" and with "retry"
    ocr,          \* ocr[r]: "absent", or what the OCR still has to do with r
    expenses,     \* expenses[e]: the row, None until inserted
    reviews, restarts

vars == <<heap, store, task, shown, ocr, expenses, reviews, restarts>>

\* StateAwaitingTaxiSelection is never entered: getDriverTaxiIDs returns the
\* driver's one active assignment.
State == {"Idle", "AwaitingCategorySelection", "AwaitingReceiptPhoto",
          "AwaitingManualAmount", "AwaitingOCRConfirmation",
          "AwaitingEvidencePhoto", "AwaitingOptionalEvidence"}

\* taxi, category: SelectedTaxiID and SelectedCategoryID are set.
ConversationState ==
    [state: State, taxi: BOOLEAN, category: BOOLEAN, receipt: Receipts \cup {None},
     expense: Expenses \cup {None}]

Call == {"idle", "auth", "assignment", "list", "photo_upload", "photo_create",
         "retry_upload", "retry_link", "evidence_upload", "evidence_submit",
         "evidence_attach", "optional_upload", "optional_attach", "manual_receipt",
         "manual_create", "manual_amount", "manual_update", "confirm", "save"}

\* cs: the object the handler got.  next: the handler that waits for "auth", or
\* the state that "save" writes.  receipt, expense: arguments of the call, or
\* the ids that "save" writes.
Task == [at: Call, cs: Objects \cup {None}, next: State \cup {"gasto", "soporte", None},
         receipt: Receipts \cup {None}, expense: Expenses \cup {None}]

\* mine: driver_id is this driver's.
ExpenseRow == [mine: BOOLEAN, status: Status, receipt: Receipts \cup {None}]

ASSUME NoRowAssumption == None \notin ExpenseRow

\* skipped: no result comes any more; failed: the driver was asked for the amount.
OcrState == {"absent", "skipped", "pending", "failed"}

TypeOK ==
    /\ heap \in [Objects -> ConversationState]
    /\ store \in Objects \cup {None}
    /\ task \in [Tasks -> Task]
    /\ shown \subseteq {"confirm", "retry", "cancel"}
    /\ ocr \in [Receipts -> OcrState]
    /\ expenses \in [Expenses -> ExpenseRow \cup {None}]
    /\ reviews \in 0..MaxReviews
    /\ restarts \in 0..MaxRestarts

NewState == [state |-> "Idle", taxi |-> FALSE, category |-> FALSE, receipt |-> None,
             expense |-> None]

NoTask == [at |-> "idle", cs |-> None, next |-> None, receipt |-> None, expense |-> None]

Init ==
    /\ heap = [o \in Objects |-> NewState]
    /\ store = None
    /\ task = [t \in Tasks |-> NoTask]
    /\ shown = {}
    /\ ocr = [r \in Receipts |-> "absent"]
    /\ expenses = [e \in Expenses |-> None]
    /\ reviews = 0
    /\ restarts = 0

-----------------------------------------------------------------------------
(* Rows.                                                                   *)

NextReceipt(r) == ocr[r] = "absent" /\ \A q \in Receipts : q < r => ocr[q] # "absent"
NextExpense(e) == expenses[e] = None /\ \A f \in Expenses : f < e => expenses[f] # None

InsertReceipt(r, ocr_status) ==
    /\ NextReceipt(r)
    /\ ocr' = [ocr EXCEPT ![r] = ocr_status]

InsertExpense(e, r) ==
    /\ NextExpense(e)
    /\ expenses' = [expenses EXCEPT ![e] =
            [mine |-> TRUE, status |-> StatusPending, receipt |-> r]]

\* Mutation: the filter forgets the driver.
ListNeedsEvidence_AnyDriver ==
    LET found == {e \in Expenses : /\ expenses[e] # None
                                   /\ expenses[e].status = StatusNeedsEvidence}
    IN {e \in found : \A f \in found : f <= e}

\* needs_evidence expenses of the driver, the newest first, LIMIT 1.
ListNeedsEvidence ==
    LET found == {e \in Expenses : /\ expenses[e] # None
                                   /\ expenses[e].mine
                                   /\ expenses[e].status = StatusNeedsEvidence}
    IN {e \in found : \A f \in found : f <= e}

-----------------------------------------------------------------------------
(* Objects and goroutines.                                                 *)

At(t, call) == task[t].at = call

\* Go collects the objects that nothing refers to: they are new ones again.
Collect(objects, used) == [o \in Objects |-> IF o \in used THEN objects[o] ELSE NewState]

HeldBy(tasks) == {task[t].cs : t \in tasks}

\* The handler returns; what it held is dropped.
Return(t) == task' = [task EXCEPT ![t] = NoTask]

\* Goroutine t enters a call of its handler, with these arguments.
Calls(t, call, receipt, expense) ==
    task' = [task EXCEPT ![t].at = call, ![t].receipt = receipt, ![t].expense = expense]

\* The calls are done: cs gets this state, and these ids if they are not None.
SaveNext(t, state, receipt, expense) ==
    task' = [task EXCEPT ![t].at = "save", ![t].next = state,
                         ![t].receipt = receipt, ![t].expense = expense]

Unused == Objects \ ({store} \cup HeldBy(Tasks))

\* A new *ConversationState replaces the stored one.
StoreNew(o) ==
    /\ o \in Unused
    /\ \A p \in Unused : o <= p
    /\ heap' = Collect(heap, HeldBy(Tasks))
    /\ store' = o

\* What the handler of task s writes in its object: cs.State = ...
Saved(cs, s) ==
    [cs EXCEPT !.state = s.next,
               !.taxi = @ \/ s.next \in {"AwaitingCategorySelection",
                                         "AwaitingEvidencePhoto"},
               !.receipt = IF s.receipt = None THEN @ ELSE s.receipt,
               !.expense = IF s.expense = None THEN @ ELSE s.expense]

\* ... and states.set(telegramID, cs).
Save(t) ==
    /\ At(t, "save")
    /\ LET s == task[t] IN
        /\ heap' = Collect([heap EXCEPT ![s.cs] = Saved(heap[s.cs], s)],
                           {s.cs} \cup HeldBy(Tasks))
        /\ store' = s.cs
        /\ shown' = IF s.next = "AwaitingEvidencePhoto" THEN shown \cup {"cancel"} ELSE shown
    /\ Return(t)
    /\ UNCHANGED <<ocr, expenses, reviews, restarts>>

\* A handler gets the stored object, for a message that needs claims.
Begins(t, call) ==
    /\ At(t, "idle")
    /\ store # None
    /\ task' = [task EXCEPT ![t] = [NoTask EXCEPT !.at = call, !.cs = store]]

\* The same with the expense of the conversation as argument of the first call.
BeginsWith(t, call, receipt, expense) ==
    /\ At(t, "idle")
    /\ store # None
    /\ task' = [task EXCEPT ![t] = [NoTask EXCEPT !.at = call, !.cs = store,
                                        !.receipt = receipt, !.expense = expense]]

Reading == UNCHANGED <<heap, store, shown, ocr, expenses, reviews, restarts>>

-----------------------------------------------------------------------------
(* /start, authentication, and handlers that make no call before they      *)
(* write the conversation.                                                 *)

\* There are no claims: /start and ensureAuthenticated look the driver up by
\* Telegram id.  Only /gasto and /soporte find something to do afterwards.
NeedsAuth(t) ==
    /\ At(t, "idle")
    /\ store = None
    /\ \E handler \in {"gasto", "soporte", None} :
          task' = [task EXCEPT ![t] = [NoTask EXCEPT !.at = "auth", !.next = handler]]
    /\ Reading

\* issueJWTAndWelcome, or the rest of ensureAuthenticated: the new object
\* replaces the one another goroutine may have stored since.
Authenticate(t) ==
    /\ At(t, "auth")
    /\ \E o \in Objects :
        /\ StoreNew(o)
        /\ LET call == CASE task[t].next = "gasto"   -> "assignment"
                         [] task[t].next = "soporte" -> "list"
                         [] OTHER                    -> "idle"
           IN task' = [task EXCEPT ![t] =
                          IF call = "idle" THEN NoTask
                          ELSE [NoTask EXCEPT !.at = call, !.cs = o]]
    /\ UNCHANGED <<shown, ocr, expenses, reviews, restarts>>

\* The stored object changes in place, without any call in between.
Answers(fields) ==
    /\ store # None
    /\ heap' = [heap EXCEPT ![store] = fields]
    /\ UNCHANGED <<store, task, shown, ocr, expenses, reviews, restarts>>

HandleCategorySelection ==
    /\ store # None
    /\ heap[store].state = "AwaitingCategorySelection"
    /\ Answers([heap[store] EXCEPT !.state = "AwaitingReceiptPhoto",
                                   !.category = TRUE])

\* Mutation: the button does not ask for a pending expense.
HandleEditAmount_NoExpenseCheck ==
    /\ shown \cap {"confirm", "retry"} # {}
    /\ store # None
    /\ Answers([heap[store] EXCEPT !.state = "AwaitingManualAmount"])

HandleEditAmount ==
    /\ shown \cap {"confirm", "retry"} # {}
    /\ store # None
    /\ heap[store].expense # None
    /\ Answers([heap[store] EXCEPT !.state = "AwaitingManualAmount"])

HandleCallbackRetryPhoto ==
    /\ "retry" \in shown
    /\ store # None
    /\ heap[store].expense # None
    /\ Answers([heap[store] EXCEPT !.state = "AwaitingReceiptPhoto", !.receipt = None])

\* Mutation: the object that running handlers hold is cleared in place.
Reset_InPlace == Answers(NewState)

\* reset: a new object that keeps the claims.
Reset ==
    /\ store # None
    /\ \E o \in Objects : StoreNew(o)
    /\ UNCHANGED <<task, shown, ocr, expenses, reviews, restarts>>

HandleCallbackCancelEvidence == "cancel" \in shown /\ Reset

HandleOmitir ==
    /\ store # None
    /\ heap[store].state = "AwaitingOptionalEvidence"
    /\ Reset

-----------------------------------------------------------------------------
(* /gasto and /soporte.                                                    *)

HandleGasto(t) == Begins(t, "assignment") /\ Reading

\* GetActiveAssignment returns the driver's taxi.
GotAssignment(t) ==
    /\ At(t, "assignment")
    /\ SaveNext(t, "AwaitingCategorySelection", None, None)
    /\ Reading

HandleSoporte(t) == Begins(t, "list") /\ Reading

Listed(t) ==
    /\ At(t, "list")
    /\ \E e \in ListNeedsEvidence : SaveNext(t, "AwaitingEvidencePhoto", None, e)
    /\ Reading

-----------------------------------------------------------------------------
(* Photos.  The photo is stored before its receipt is inserted: download,  *)
(* upload and INSERT are one call.                                         *)

\* Mutation: the idempotency guard is missing.
PhotoUpload_NoGuard(cs) ==
    CASE cs.state = "AwaitingEvidencePhoto"    -> "evidence_upload"
      [] cs.state = "AwaitingOptionalEvidence" -> "optional_upload"
      [] cs.state = "AwaitingReceiptPhoto" /\ cs.expense # None /\ cs.receipt = None
                                               -> "retry_upload"
      [] cs.state = "AwaitingReceiptPhoto"     -> "photo_upload"
      [] OTHER -> "idle"

\* The upload that a photo starts in this conversation.  A second photo of a
\* registered expense is only answered.
PhotoUpload(cs) ==
    CASE cs.state = "AwaitingEvidencePhoto"    -> "evidence_upload"
      [] cs.state = "AwaitingOptionalEvidence" -> "optional_upload"
      [] cs.state = "AwaitingReceiptPhoto" /\ cs.expense = None -> "photo_upload"
      [] cs.state = "AwaitingReceiptPhoto" /\ cs.expense # None /\ cs.receipt = None
                                               -> "retry_upload"
      [] OTHER -> "idle"

HandlePhoto(t) ==
    /\ store # None
    /\ PhotoUpload(heap[store]) # "idle"
    /\ Begins(t, PhotoUpload(heap[store]))
    /\ Reading

Uploaded(t, call, ocr_status, then, expense) ==
    /\ At(t, call)
    /\ \E r \in Receipts : InsertReceipt(r, ocr_status) /\ Calls(t, then, r, expense)
    /\ UNCHANGED <<heap, store, shown, expenses, reviews, restarts>>

Conv(t) == heap[task[t].cs]

PhotoUploaded(t) ==
    Uploaded(t, "photo_upload", "pending", "photo_create", None)

PhotoCreate(t) ==
    /\ At(t, "photo_create")
    /\ \E e \in Expenses :
        /\ InsertExpense(e, task[t].receipt)
        /\ SaveNext(t, "AwaitingOCRConfirmation", task[t].receipt, e)
    /\ UNCHANGED <<heap, store, shown, ocr, reviews, restarts>>

\* handleRetryPhoto: a fresh receipt for the same expense.
RetryUploaded(t) ==
    Uploaded(t, "retry_upload", "pending", "retry_link", Conv(t).expense)

RetryLink(t) ==
    /\ At(t, "retry_link")
    /\ expenses[task[t].expense].mine
    /\ expenses' = [expenses EXCEPT ![task[t].expense].receipt = task[t].receipt]
    /\ SaveNext(t, "AwaitingOCRConfirmation", task[t].receipt, None)
    /\ UNCHANGED <<heap, store, shown, ocr, reviews, restarts>>

\* handleEvidencePhoto.
EvidenceUploaded(t) ==
    Uploaded(t, "evidence_upload", "skipped", "evidence_submit", Conv(t).expense)

EvidenceSubmit(t) ==
    /\ At(t, "evidence_submit")
    /\ LET e == task[t].expense IN
        /\ expenses[e].mine
        /\ expenses[e].status = StatusNeedsEvidence
        /\ expenses' = [expenses EXCEPT ![e].receipt = task[t].receipt,
                                        ![e].status = StatusConfirmed]
    /\ Calls(t, "evidence_attach", task[t].receipt, Conv(t).expense)
    /\ UNCHANGED <<heap, store, shown, ocr, reviews, restarts>>

\* AddAttachment succeeds, or fails and is only logged.  The attachments table
\* is in ExpenseService; nothing here reads it.
EvidenceAttach(t) ==
    /\ At(t, "evidence_attach")
    /\ SaveNext(t, "AwaitingOptionalEvidence", None, None)
    /\ Reading

\* handleOptionalEvidencePhoto: the conversation stays as it is.
OptionalUploaded(t) ==
    Uploaded(t, "optional_upload", "skipped", "optional_attach", Conv(t).expense)

OptionalAttach(t) ==
    /\ At(t, "optional_attach")
    /\ task[t].expense # None
    /\ Return(t)
    /\ heap' = Collect(heap, {store} \cup HeldBy(Tasks \ {t}))
    /\ UNCHANGED <<store, shown, ocr, expenses, reviews, restarts>>

\* The store is in memory: when the process ends the conversation is forgotten
\* and every handler stops.  The chat, its buttons and the tables stay.
Forget ==
    /\ store' = None
    /\ heap' = Collect(heap, {})
    /\ task' = [t \in Tasks |-> NoTask]

\* *cs.PendingExpenseID is nil: the goroutine panics, nothing recovers it, and
\* the process ends.
OptionalAttachPanics(t) ==
    /\ At(t, "optional_attach")
    /\ task[t].expense = None
    /\ Forget
    /\ UNCHANGED <<shown, ocr, expenses, reviews, restarts>>

-----------------------------------------------------------------------------
(* Amounts and confirmation.                                               *)

\* Mutation: an amount always makes a new expense, with the receipt there is.
AmountCall_AlwaysCreates(cs) == "manual_create"

\* The pending expense is updated if there is one; else one is created.
AmountCall(cs) == IF cs.expense # None THEN "manual_update" ELSE "manual_create"

\* handleText with a valid amount; a receipt the conversation has is reused.
HandleManualAmount(t) ==
    /\ store # None
    /\ LET cs == heap[store] IN
        /\ cs.state \in {"AwaitingReceiptPhoto", "AwaitingManualAmount"}
        /\ IF cs.receipt # None
             THEN BeginsWith(t, AmountCall(cs), cs.receipt, cs.expense)
             ELSE Begins(t, "manual_receipt")
    /\ Reading

ManualReceipt(t) ==
    Uploaded(t, "manual_receipt", "skipped", AmountCall(Conv(t)), Conv(t).expense)

\* UpdateAmount takes any expense id; the id for Confirm is read afterwards.
ManualUpdate(t) ==
    /\ At(t, "manual_update")
    /\ Calls(t, "confirm", None, Conv(t).expense)
    /\ Reading

ManualCreate(t) ==
    /\ At(t, "manual_create")
    /\ \E e \in Expenses :
        /\ InsertExpense(e, task[t].receipt)
        /\ Calls(t, "manual_amount", None, e)
    /\ UNCHANGED <<heap, store, shown, ocr, reviews, restarts>>

ManualAmount(t) ==
    /\ At(t, "manual_amount")
    /\ Calls(t, "confirm", None, task[t].expense)
    /\ Reading

HandleConfirmOCR(t) ==
    /\ "confirm" \in shown
    /\ store # None
    /\ heap[store].expense # None
    /\ BeginsWith(t, "confirm", None, heap[store].expense)
    /\ Reading

\* Service.Confirm for the driver; the pending ids of the conversation stay.
Confirm(t) ==
    /\ At(t, "confirm")
    /\ LET e == task[t].expense IN
        /\ expenses[e].mine
        /\ canTransition(expenses[e].status, StatusConfirmed)
        /\ expenses' = [expenses EXCEPT ![e].status = StatusConfirmed]
    /\ SaveNext(t, "AwaitingOptionalEvidence", None, None)
    /\ UNCHANGED <<heap, store, shown, ocr, reviews, restarts>>

\* The call in flight fails, or the service refuses: the handler answers with
\* an error and returns, and what was written stays.
Fails(t) ==
    /\ task[t].at \notin {"idle", "save", "evidence_attach", "optional_attach"}
    /\ Return(t)
    /\ heap' = Collect(heap, {store} \cup HeldBy(Tasks \ {t}))
    /\ UNCHANGED <<store, shown, ocr, expenses, reviews, restarts>>

-----------------------------------------------------------------------------
(* The OCR pool, the owner, other drivers and the bot process.             *)

\* The OCR of r is done, with or without a total, or failed.  A failure asks
\* for the amount, whatever expense the conversation is about; a result only
\* adds buttons.
NotifyOCRResult(r) ==
    /\ ocr[r] = "pending"
    /\ \/ /\ ocr' = [ocr EXCEPT ![r] = "failed"]
          /\ heap' = IF store # None /\ heap[store].expense # None
                       THEN [heap EXCEPT ![store].state = "AwaitingManualAmount"]
                       ELSE heap
          /\ UNCHANGED shown
       \/ /\ ocr' = [ocr EXCEPT ![r] = "skipped"]
          /\ \E button \in {"confirm", "retry"} : shown' = shown \cup {button}
          /\ UNCHANGED heap
    /\ UNCHANGED <<store, task, expenses, reviews, restarts>>

\* The owner approves, rejects or asks for evidence.
OwnerReviews(e) ==
    /\ reviews < MaxReviews
    /\ reviews' = reviews + 1
    /\ expenses[e] # None
    /\ \E status \in Reviewed \cup {StatusNeedsEvidence} :
        /\ canTransition(expenses[e].status, status)
        /\ expenses' = [expenses EXCEPT ![e].status = status]
    /\ UNCHANGED <<heap, store, task, shown, ocr, restarts>>

\* Another driver of the owner registers an expense, with a receipt of his.
OtherDriverCreates(e) ==
    /\ NextExpense(e)
    /\ expenses' = [expenses EXCEPT ![e] =
            [mine |-> FALSE, status |-> StatusPending, receipt |-> None]]
    /\ UNCHANGED <<heap, store, task, shown, ocr, reviews, restarts>>

Restart ==
    /\ restarts < MaxRestarts
    /\ restarts' = restarts + 1
    /\ Forget
    /\ UNCHANGED <<shown, ocr, expenses, reviews>>

-----------------------------------------------------------------------------

Message(t) ==
    \/ NeedsAuth(t) \/ HandleGasto(t) \/ HandleSoporte(t) \/ HandlePhoto(t)
    \/ HandleManualAmount(t) \/ HandleConfirmOCR(t)

Continue(t) ==
    \/ Authenticate(t) \/ GotAssignment(t) \/ Listed(t) \/ PhotoUploaded(t)
    \/ PhotoCreate(t) \/ RetryUploaded(t) \/ RetryLink(t) \/ EvidenceUploaded(t)
    \/ EvidenceSubmit(t) \/ EvidenceAttach(t) \/ OptionalUploaded(t)
    \/ OptionalAttach(t) \/ OptionalAttachPanics(t) \/ ManualReceipt(t)
    \/ ManualUpdate(t) \/ ManualCreate(t) \/ ManualAmount(t) \/ Confirm(t) \/ Save(t)

Chat ==
    \/ HandleCategorySelection \/ HandleEditAmount \/ HandleCallbackRetryPhoto
    \/ HandleCallbackCancelEvidence \/ HandleOmitir

Environment ==
    \/ \E r \in Receipts : NotifyOCRResult(r)
    \/ \E e \in Expenses : OwnerReviews(e) \/ OtherDriverCreates(e)
    \/ Restart

Next ==
    \/ \E t \in Tasks : Message(t) \/ Continue(t) \/ Fails(t)
    \/ Chat
    \/ Environment

Spec == Init /\ [][Next]_vars

-----------------------------------------------------------------------------
(* Properties.                                                             *)

\* The states in which a handler dereferences PendingExpenseID are only
\* entered on an object that has one, whichever goroutine writes the object:
\* SelectedTaxiID and SelectedCategoryID likewise.
StateHasItsFields ==
    \A o \in Objects :
        LET cs == heap[o] IN
        /\ cs.state \in {"AwaitingManualAmount", "AwaitingOCRConfirmation",
                         "AwaitingEvidencePhoto"} => cs.expense # None
        /\ cs.state \notin {"Idle"} => cs.taxi
        /\ cs.state = "AwaitingReceiptPhoto" => cs.category \/ cs.expense # None
        /\ cs.receipt # None => cs.expense # None

\* No handler but the one for optional evidence dereferences a nil id: what it
\* checked before a call to the storage or the database still holds after it.
NoNilDereference ==
    \A t \in Tasks :
        /\ task[t].at \in {"photo_upload", "retry_upload", "evidence_upload",
                           "optional_upload", "manual_receipt"} => Conv(t).taxi
        /\ task[t].at \in {"photo_upload", "photo_create", "manual_create"} => Conv(t).category
        /\ task[t].at \in {"retry_link", "evidence_submit", "evidence_attach",
                           "manual_amount", "manual_update", "confirm"} => task[t].expense # None

\* UpdateAmount checks neither driver nor owner: the bot has to call it, and
\* to hold in its conversations, only expenses of the driver it talks to.
OwnExpensesOnly ==
    /\ \A o \in Objects : heap[o].expense # None =>
           expenses[heap[o].expense] # None /\ expenses[heap[o].expense].mine
    /\ \A t \in Tasks : task[t].expense # None =>
           expenses[task[t].expense] # None /\ expenses[task[t].expense].mine

\* No two expenses carry the same receipt: the OCR pool finds the expense of a
\* receipt with LIMIT 1, and would write the amount on either.
ReceiptCarriedOnce ==
    \A e, f \in Expenses :
        (/\ e # f
         /\ expenses[e] # None /\ expenses[f] # None
         /\ expenses[e].receipt # None) => expenses[e].receipt # expenses[f].receipt

\* handlePhoto's idempotency guard: as long as messages do not overlap, a photo
\* creates an expense only in a conversation that has none, also after failed
\* calls, /gasto again, a retried photo or a restart.  Two photos handled at
\* the same time both pass the guard.
OneExpensePerConversation ==
    [][\A t \in Tasks : PhotoCreate(t) => Conv(t).expense = None]_vars

-----------------------------------------------------------------------------
(* What the documents say and the code does not do.                        *)

\* conversation.go: "StateAwaitingOptionalEvidence - expense confirmed; driver
\* may attach optional supporting evidence".  After a manual entry the
\* conversation is in that state without the expense.
OptionalEvidenceHasExpense ==
    store # None /\ heap[store].state = "AwaitingOptionalEvidence" =>
        heap[store].expense # None

=============================================================================
