---------------------------- MODULE OcrPipeline -----------------------------
(***************************************************************************)
(* internal/worker and internal/receipt: the pool of OCR goroutines of the *)
(* bot process, the receipts table they poll, and what they write to the   *)
(* expenses that carry a receipt.                                          *)
(*                                                                         *)
(* Receipts are numbered in created_at order.  A worker polls a batch of   *)
(* the oldest pending receipts and runs Process on each; every SQL         *)
(* statement, the OCR call and the notification are steps of their own, so *)
(* workers, the bot's handlers, failures and restarts interleave between   *)
(* them.  FOR UPDATE SKIP LOCKED locks the rows of a batch until the poll's *)
(* statement ends, and not while the batch is processed.                   *)
(***************************************************************************)
EXTENDS Integers, FiniteSets

CONSTANTS
    NReceipts,    \* receipts the bot may create
    Expenses,
    Amounts,
    Workers,      \* the pool's goroutines
    BatchLimit,   \* LIMIT of the poll
    Reading,      \* Reading[r]: the total OCR reads from receipt r's image
    MaxFaults,    \* SQL statements and OCR calls that may fail
    MaxCrashes,   \* panics in the OCR and restarts of the bot process
    None

Receipts == 1..NReceipts

NoTotal  == "no_total"    \* no total on the image
Unparsed == "unparsed"    \* a total that decimal.NewFromString refuses

ASSUME CountsAssumption  == /\ NReceipts \in Nat /\ BatchLimit \in Nat \ {0}
                            /\ MaxFaults \in Nat /\ MaxCrashes \in Nat
ASSUME NoneAssumption    == /\ None \notin Receipts /\ None \notin Amounts
                            /\ None \notin {"result", "error"}
ASSUME ReadingAssumption == Reading \in [Receipts -> Amounts \cup {NoTotal, Unparsed}]

VARIABLES
    ocr_status,  \* ocr_status[r]; "absent" until inserted
    extracted,   \* extracted[r]: extracted_total
    ocr_raw,     \* ocr_raw[r]: the OCR result, the error, or NULL
    expenses,    \* expenses[e]: the receipt it carries, its amount, and who set it
    carried,     \* carried[e]: the receipts expense e has carried (history)
    handling,    \* receipts a running bot handler inserted and has not linked yet
    worker,      \* worker[w]: where goroutine w is in its batch
    notifySet,   \* the processor has its notify callback
    notified,    \* notified[r]: the results the callback was called with for r
    faults, crashes

tables == <<ocr_status, extracted, ocr_raw, expenses, carried>>
vars   == <<tables, handling, worker, notifySet, notified, faults, crashes>>

Steps == {"poll", "locked", "next", "extract", "fields", "done", "lookup",
          "amount", "failed", "notify_ok", "notify_failed"}

\* batch: the receipts still to process, r: the one being processed,
\* exp: the expense GetByReceiptID returned.
Worker == [step: Steps, batch: SUBSET Receipts, r: Receipts \cup {None},
           exp: Expenses \cup {None}]

Polling == [step |-> "poll", batch |-> {}, r |-> None, exp |-> None]

Expense == [receipt: Receipts, amount: Amounts \cup {None}, setBy: {"nobody", "ocr", "driver"}]

ASSUME NoRowAssumption == None \notin Expense   \* None also stands for no row

TypeOK ==
    /\ ocr_status \in [Receipts -> {"absent", "pending", "processing", "done",
                                    "failed", "skipped"}]
    /\ extracted \in [Receipts -> Amounts \cup {None}]
    /\ ocr_raw \in [Receipts -> {"result", "error", None}]
    /\ expenses \in [Expenses -> Expense \cup {None}]
    /\ carried \in [Expenses -> SUBSET Receipts]
    /\ handling \subseteq Receipts
    /\ worker \in [Workers -> Worker]
    /\ notifySet \in BOOLEAN
    /\ notified \in [Receipts -> SUBSET {"ok", "failed"}]
    /\ faults \in 0..MaxFaults
    /\ crashes \in 0..MaxCrashes

Init ==
    /\ ocr_status = [r \in Receipts |-> "absent"]
    /\ extracted = [r \in Receipts |-> None]
    /\ ocr_raw = [r \in Receipts |-> None]
    /\ expenses = [e \in Expenses |-> None]
    /\ carried = [e \in Expenses |-> {}]
    /\ handling = {}
    /\ worker = [w \in Workers |-> Polling]
    /\ notifySet = FALSE
    /\ notified = [r \in Receipts |-> {}]
    /\ faults = 0
    /\ crashes = 0

-----------------------------------------------------------------------------
(* The bot's handlers, as far as they touch what the pipeline reads.  The  *)
(* bot polls Telegram only after main has called SetNotify.                *)

\* Receipts are inserted in created_at order: pending for a photo, skipped for
\* a manual entry or a piece of evidence.
CreateReceipt(r) ==
    /\ notifySet
    /\ ocr_status[r] = "absent"
    /\ \A q \in Receipts : q < r => ocr_status[q] # "absent"
    /\ \E s \in {"pending", "skipped"} : ocr_status' = [ocr_status EXCEPT ![r] = s]
    /\ handling' = handling \cup {r}
    /\ UNCHANGED <<extracted, ocr_raw, expenses, carried, worker, notifySet, notified,
                   faults, crashes>>

Link(e, r) ==
    /\ carried' = [carried EXCEPT ![e] = @ \cup {r}]
    /\ handling' = handling \ {r}
    /\ UNCHANGED <<ocr_status, extracted, ocr_raw, worker, notifySet, notified,
                   faults, crashes>>

\* handlePhoto inserts the expense in a second statement, when the receipt is
\* already visible to the workers.
CreateExpense(e, r) ==
    /\ r \in handling
    /\ expenses[e] = None
    /\ expenses' = [expenses EXCEPT ![e] =
                        [receipt |-> r, amount |-> None, setBy |-> "nobody"]]
    /\ Link(e, r)

\* handleRetryPhoto and handleEvidencePhoto: the expense carries a newer receipt.
RelinkExpense(e, r) ==
    /\ r \in handling
    /\ expenses[e] # None
    /\ expenses' = [expenses EXCEPT ![e].receipt = r]
    /\ Link(e, r)

\* handleManualAmount: the driver types the amount.
DriverSetsAmount(e, a) ==
    /\ notifySet
    /\ expenses[e] # None
    /\ expenses' = [expenses EXCEPT ![e].amount = a, ![e].setBy = "driver"]
    /\ UNCHANGED <<ocr_status, extracted, ocr_raw, carried, handling, worker, notifySet,
                   notified, faults, crashes>>

\* main starts the pool before it builds the bot and sets the callback.
SetNotify ==
    /\ ~notifySet
    /\ notifySet' = TRUE
    /\ UNCHANGED <<tables, handling, worker, notified, faults, crashes>>

-----------------------------------------------------------------------------
(* The pool.                                                               *)

At(w, step) == worker[w].step = step

Goto(w, step) == worker' = [worker EXCEPT ![w].step = step]

\* The receipt is finished: on to the rest of the batch, or to the next poll.
Finished(w) ==
    worker' = [worker EXCEPT ![w] =
        IF worker[w].batch = {} THEN Polling
        ELSE [step |-> "next", batch |-> worker[w].batch, r |-> None, exp |-> None]]

\* Rows locked by polls that have not ended yet.
Locked == UNION {worker[v].batch : v \in {u \in Workers : At(u, "locked")}}

\* Mutation: the poll has no condition on the status.
Pending_AnyStatus == {r \in Receipts : ocr_status[r] # "absent"}

\* Mutation: the poll retries failed receipts.
Pending_RetriesFailed == {r \in Receipts : ocr_status[r] \in {"pending", "failed"}}

Pending == {r \in Receipts : ocr_status[r] = "pending"}

\* Mutation: LIMIT is one less.
ListPendingOCR_OffByOne ==
    LET free == Pending \ Locked IN
    {r \in free : Cardinality({q \in free : q <= r}) < BatchLimit}

\* The BatchLimit oldest pending receipts no other poll has locked.
ListPendingOCR ==
    LET free == Pending \ Locked IN
    {r \in free : Cardinality({q \in free : q < r}) < BatchLimit}

\* Nothing to do: wait for the next interval.
PollNothing(w) ==
    /\ At(w, "poll")
    /\ ListPendingOCR = {}
    /\ UNCHANGED vars

Poll(w) ==
    /\ At(w, "poll")
    /\ ListPendingOCR # {}
    /\ worker' = [worker EXCEPT ![w].step = "locked", ![w].batch = ListPendingOCR]
    /\ UNCHANGED <<tables, handling, notifySet, notified, faults, crashes>>

\* The SELECT ends, and its implicit transaction with it: the locks are gone.
Unlock(w) ==
    /\ At(w, "locked")
    /\ Goto(w, "next")
    /\ UNCHANGED <<tables, handling, notifySet, notified, faults, crashes>>

Oldest(batch) == CHOOSE q \in batch : \A p \in batch : q <= p

\* Process starts on the oldest receipt of the batch: GetByID, then
\* SetOCRStatus(processing) whatever the status is by now.  The UPDATE waits
\* while a poll holds the row.
Take(w) ==
    /\ At(w, "next")
    /\ LET r == Oldest(worker[w].batch) IN
        /\ r \notin Locked
        /\ ocr_status' = [ocr_status EXCEPT ![r] = "processing"]
        /\ worker' = [worker EXCEPT ![w].step = "extract", ![w].r = r,
                                    ![w].batch = worker[w].batch \ {r}]
    /\ UNCHANGED <<extracted, ocr_raw, expenses, carried, handling, notifySet, notified,
                   faults, crashes>>

\* downloadImage and ExtractData succeed; the result is Reading[r].
Extract(w) ==
    /\ At(w, "extract")
    /\ Goto(w, "fields")
    /\ UNCHANGED <<tables, handling, notifySet, notified, faults, crashes>>

UpdateOCRFields(w) ==
    /\ At(w, "fields")
    /\ LET r == worker[w].r IN
        /\ extracted' = [extracted EXCEPT ![r] =
                            IF Reading[r] \in Amounts THEN Reading[r] ELSE None]
        /\ ocr_raw' = [ocr_raw EXCEPT ![r] = "result"]
    /\ Goto(w, "done")
    /\ UNCHANGED <<ocr_status, expenses, carried, handling, notifySet, notified,
                   faults, crashes>>

\* Mutation: a total that does not parse is treated as an OCR failure.
AfterDone_FailsUnparsed(w) ==
    Goto(w, IF Reading[worker[w].r] \in Amounts THEN "lookup" ELSE "failed")

\* Mutation: the result is reported and the amount is not updated.
AfterDone_NoAmount(w) == Goto(w, "notify_ok")

\* After SetOCRStatus(done), whether or not it succeeded, the amount is
\* updated if the total parses.
AfterDone(w) ==
    Goto(w, IF Reading[worker[w].r] \in Amounts THEN "lookup" ELSE "notify_ok")

SetDone(w) ==
    /\ At(w, "done")
    /\ ocr_status' = [ocr_status EXCEPT ![worker[w].r] = "done"]
    /\ ocr_raw' = [ocr_raw EXCEPT ![worker[w].r] = "result"]
    /\ AfterDone(w)
    /\ UNCHANGED <<extracted, expenses, carried, handling, notifySet, notified,
                   faults, crashes>>

\* Mutation: GetByReceiptID does not filter by the receipt.
GetByReceiptID_AnyExpense(w) ==
    /\ At(w, "lookup")
    /\ \E e \in Expenses :
          /\ expenses[e] # None
          /\ worker' = [worker EXCEPT ![w].step = "amount", ![w].exp = e]
    /\ UNCHANGED <<tables, handling, notifySet, notified, faults, crashes>>

\* UpdateAmountByReceiptID, first statement: an expense that carries r, if any.
GetByReceiptID(w) ==
    /\ At(w, "lookup")
    /\ LET carriers == {e \in Expenses : expenses[e] # None
                                         /\ expenses[e].receipt = worker[w].r} IN
        \/ /\ carriers = {}
           /\ Goto(w, "notify_ok")
        \/ \E e \in carriers :
              worker' = [worker EXCEPT ![w].step = "amount", ![w].exp = e]
    /\ UNCHANGED <<tables, handling, notifySet, notified, faults, crashes>>

\* UpdateAmountByReceiptID, second statement: unconditional.
UpdateAmount(w) ==
    /\ At(w, "amount")
    /\ expenses' = [expenses EXCEPT ![worker[w].exp].amount = Reading[worker[w].r],
                                    ![worker[w].exp].setBy = "ocr"]
    /\ Goto(w, "notify_ok")
    /\ UNCHANGED <<ocr_status, extracted, ocr_raw, carried, handling, notifySet, notified,
                   faults, crashes>>

\* Mutation: failReceipt returns without notifying the driver.
SetFailed_NotReported(w) ==
    /\ At(w, "failed")
    /\ ocr_status' = [ocr_status EXCEPT ![worker[w].r] = "failed"]
    /\ ocr_raw' = [ocr_raw EXCEPT ![worker[w].r] = "error"]
    /\ Finished(w)
    /\ UNCHANGED <<extracted, expenses, carried, handling, notifySet, notified,
                   faults, crashes>>

SetFailed(w) ==
    /\ At(w, "failed")
    /\ ocr_status' = [ocr_status EXCEPT ![worker[w].r] = "failed"]
    /\ ocr_raw' = [ocr_raw EXCEPT ![worker[w].r] = "error"]
    /\ Goto(w, "notify_failed")
    /\ UNCHANGED <<extracted, expenses, carried, handling, notifySet, notified,
                   faults, crashes>>

\* sendNotify calls the callback, or nothing before SetNotify has run; what
\* the callback does with the result never comes back to the pool.
SendNotify(w) ==
    /\ At(w, "notify_ok") \/ At(w, "notify_failed")
    /\ LET told == IF At(w, "notify_ok") THEN "ok" ELSE "failed" IN
       notified' = IF notifySet
                     THEN [notified EXCEPT ![worker[w].r] = @ \cup {told}]
                     ELSE notified
    /\ Finished(w)
    /\ UNCHANGED <<tables, handling, notifySet, faults, crashes>>

-----------------------------------------------------------------------------
(* Failures.                                                               *)

Fault == faults < MaxFaults /\ faults' = faults + 1

\* GetByID or SetOCRStatus(processing) fails: Process returns the error, the
\* receipt stays as it is and the batch goes on.
TakeFails(w) ==
    /\ At(w, "next") /\ Fault
    /\ LET rest == worker[w].batch \ {Oldest(worker[w].batch)} IN
       worker' = [worker EXCEPT ![w] =
                     IF rest = {} THEN Polling ELSE [@ EXCEPT !.batch = rest]]
    /\ UNCHANGED <<tables, handling, notifySet, notified, crashes>>

\* Mutation: a failure of UpdateOCRFields is only logged.
ExtractFails_FieldsIgnored(w) ==
    /\ At(w, "extract") \/ At(w, "fields")
    /\ Fault
    /\ Goto(w, IF At(w, "fields") THEN "done" ELSE "failed")
    /\ UNCHANGED <<tables, handling, notifySet, notified, crashes>>

\* The download, the OCR or UpdateOCRFields fails: failReceipt.
ExtractFails(w) ==
    /\ At(w, "extract") \/ At(w, "fields")
    /\ Fault
    /\ Goto(w, "failed")
    /\ UNCHANGED <<tables, handling, notifySet, notified, crashes>>

\* Mutation: a failed SetOCRStatus(done) is handled as a failed OCR.
SettleFails_FailsReceipt(w) ==
    /\ Fault
    /\ \/ At(w, "done") /\ Goto(w, "failed")
       \/ At(w, "failed") /\ Goto(w, "notify_failed")
    /\ UNCHANGED <<tables, handling, notifySet, notified, crashes>>

\* SetOCRStatus(done) and SetOCRStatus(failed) are best effort.
SettleFails(w) ==
    /\ Fault
    /\ \/ At(w, "done") /\ AfterDone(w)
       \/ At(w, "failed") /\ Goto(w, "notify_failed")
    /\ UNCHANGED <<tables, handling, notifySet, notified, crashes>>

\* Either statement of UpdateAmountByReceiptID fails: logged, then notified.
AmountFails(w) ==
    /\ At(w, "lookup") \/ At(w, "amount")
    /\ Fault
    /\ Goto(w, "notify_ok")
    /\ UNCHANGED <<tables, handling, notifySet, notified, crashes>>

Crash == crashes < MaxCrashes /\ crashes' = crashes + 1

\* A panic in the OCR is recovered by safeProcessBatch: the goroutine goes
\* back to polling and the rest of the batch is dropped.
Panic(w) ==
    /\ At(w, "extract") /\ Crash
    /\ worker' = [worker EXCEPT ![w] = Polling]
    /\ UNCHANGED <<tables, handling, notifySet, notified, faults>>

\* The bot process stops and starts again: the tables are all that is left.
Restart ==
    /\ Crash
    /\ worker' = [w \in Workers |-> Polling]
    /\ handling' = {}
    /\ notifySet' = FALSE
    /\ UNCHANGED <<tables, notified, faults>>

-----------------------------------------------------------------------------

WorkerStep(w) ==
    \/ PollNothing(w) \/ Poll(w) \/ Unlock(w) \/ Take(w) \/ Extract(w) \/ UpdateOCRFields(w) \/ SetDone(w)
    \/ GetByReceiptID(w) \/ UpdateAmount(w) \/ SetFailed(w) \/ SendNotify(w)

WorkerFails(w) ==
    \/ TakeFails(w) \/ ExtractFails(w) \/ SettleFails(w) \/ AmountFails(w) \/ Panic(w)

BotStep ==
    \/ \E r \in Receipts : CreateReceipt(r)
    \/ \E e \in Expenses, r \in Receipts : CreateExpense(e, r) \/ RelinkExpense(e, r)
    \/ \E e \in Expenses, a \in Amounts : DriverSetsAmount(e, a)

Next ==
    \/ BotStep
    \/ SetNotify
    \/ Restart
    \/ \E w \in Workers : WorkerStep(w) \/ WorkerFails(w)

Spec == Init /\ [][Next]_vars

\* The Go scheduler runs every goroutine, time.After fires, the database and
\* the OCR answer, and main goes on to SetNotify: a step that stays possible
\* is taken.  Drivers and failures are under no fairness.
Fairness == WF_vars(SetNotify) /\ \A w \in Workers : WF_vars(WorkerStep(w))

FairSpec == Spec /\ Fairness

-----------------------------------------------------------------------------
(* Properties.                                                             *)

\* A receipt shown as done carries what the OCR read: the fields are written
\* before the status, and neither a second worker on the same receipt, nor a
\* failure, nor a restart leaves a done receipt without them.
DoneHasFields ==
    \A r \in Receipts : ocr_status[r] = "done" =>
        /\ ocr_raw[r] = "result"
        /\ extracted[r] = IF Reading[r] \in Amounts THEN Reading[r] ELSE None

\* Receipts of manual entries and of evidence never reach the OCR: no worker
\* holds one and the driver is told nothing about it.
SkippedIsLeftAlone ==
    \A r \in Receipts : ocr_status[r] = "skipped" =>
        /\ extracted[r] = None /\ ocr_raw[r] = None /\ notified[r] = {}
        /\ \A w \in Workers : r \notin worker[w].batch \cup {worker[w].r}

\* An amount the OCR wrote on an expense was extracted, and stored, from a
\* receipt that this expense carries or carried when the OCR looked it up.
OcrAmountIsExtracted ==
    \A e \in Expenses : (expenses[e] # None /\ expenses[e].setBy = "ocr") =>
        \E r \in carried[e] : extracted[r] = expenses[e].amount

\* A total is in the expense by the time its driver is asked to confirm it, if
\* the expense carried the receipt before a worker took it: UpdateOCRFields and
\* the amount come before the notice.  The handler inserts the expense after the
\* receipt, so a worker may come first; then the total is dropped.
Carries(e, r) == expenses[e] # None /\ expenses[e].receipt = r

Awaited(e, r) == Carries(e, r) /\ ocr_status[r] = "pending" /\ Reading[r] \in Amounts

ReportedIsStored(e, r) ==
    ("ok" \in notified[r] /\ Carries(e, r) /\ faults = 0)
        => expenses[e].amount # None

AwaitedTotalArrives ==
    \A e \in Expenses, r \in Receipts : [](Awaited(e, r) => []ReportedIsStored(e, r))

\* With one worker ocr_status follows the abstract lifecycle, through
\* failures, panics and restarts.
Lifecycle == INSTANCE OcrLifecycle
ImplementsLifecycle == Lifecycle!OSpec

\* With one worker a result that was stored stays, through failures, panics and
\* restarts (spec.md REQ-OCR-05: "OCR data is immutable once written").  With
\* two workers on a receipt, the failure of one replaces it.
OcrDataIsImmutable ==
    [][\A r \in Receipts : ocr_raw[r] = "result" =>
          ocr_raw'[r] = "result" /\ extracted'[r] = extracted[r]]_vars

\* A pending receipt is never lost: neither a failed statement, nor a panic
\* that drops the rest of the batch, nor a restart keeps it pending forever.
PendingIsTaken ==
    \A r \in Receipts : ocr_status[r] = "pending" ~> ocr_status[r] # "pending"

\* Statements and OCR calls may fail, but as long as nothing panics or
\* restarts the driver is told about every receipt.
PendingIsReported ==
    \A r \in Receipts :
        ocr_status[r] = "pending" ~> (notified[r] # {} \/ crashes # 0)

\* If nothing at all fails, every pending receipt ends done, also when two
\* workers process it.
PendingSettles ==
    \A r \in Receipts :
        ocr_status[r] = "pending" ~>
            ([](ocr_status[r] = "done") \/ faults # 0 \/ crashes # 0)

=============================================================================
