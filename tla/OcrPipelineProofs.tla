------------------------ MODULE OcrPipelineProofs ---------------------------
(***************************************************************************)
(* Proofs about OcrPipeline, for any number of receipts, expenses and      *)
(* workers, any batch limit and any number of faults and crashes.          *)
(***************************************************************************)
EXTENDS OcrPipeline, TLAPS, WellFoundedInduction

-----------------------------------------------------------------------------
(* The inductive invariant.  A receipt's row says what was stored of it,   *)
(* an expense's row where its amount came from, and a worker's step what   *)
(* it has already written about the receipt it holds.                      *)

\* What the OCR stores as the total of receipt r.
Total(r) == IF Reading[r] \in Amounts THEN Reading[r] ELSE None

ReceiptOK(r) ==
    /\ ocr_status[r] \in {"absent", "skipped"} =>
          extracted[r] = None /\ ocr_raw[r] = None /\ notified[r] = {}
    /\ ocr_raw[r] = "result" => extracted[r] = Total(r)
    /\ ocr_status[r] = "done" => ocr_raw[r] = "result"

ReceiptsOK == \A r \in Receipts : ReceiptOK(r)

\* The OCR read amount a from a receipt expense e carries or carried, and
\* stored it there.
Stored(e, a) == \E r \in carried[e] : Reading[r] = a /\ a \in Amounts /\ extracted[r] = a

ExpensesOK ==
    \A e \in Expenses : expenses[e] # None =>
        /\ expenses[e].receipt \in carried[e]
        /\ expenses[e].setBy = "ocr" => Stored(e, expenses[e].amount)

\* The receipts worker w has in hand.
Held(w) == worker[w].batch \cup {worker[w].r}

WorkerOK(w) ==
    /\ worker[w].step \in {"locked", "next"} => worker[w].batch # {}
    /\ worker[w].step \notin {"poll", "locked", "next"} => worker[w].r \in Receipts
    /\ worker[w].step \in {"done", "lookup", "amount"} =>
          extracted[worker[w].r] = Total(worker[w].r)
    /\ worker[w].step \in {"lookup", "amount"} => Reading[worker[w].r] \in Amounts
    /\ worker[w].step = "amount" =>
          /\ worker[w].exp \in Expenses
          /\ expenses[worker[w].exp] # None
          /\ worker[w].r \in carried[worker[w].exp]
    /\ \A r \in Receipts : r \in Held(w) => ocr_status[r] \notin {"absent", "skipped"}

WorkersOK == \A w \in Workers : WorkerOK(w)

IInv == TypeOK /\ ReceiptsOK /\ ExpensesOK /\ WorkersOK

\* Without sharing: what a worker holds is as it left it.
AloneOK(w) ==
    /\ \A r \in Receipts : ocr_status[r] = "pending" => ocr_raw[r] = None
    /\ \A r \in worker[w].batch : ocr_status[r] = "pending"
    /\ worker[w].step \in {"extract", "fields", "done", "failed"} =>
          ocr_status[worker[w].r] = "processing"
    /\ worker[w].step \in {"extract", "fields", "failed"} => ocr_raw[worker[w].r] = None
-----------------------------------------------------------------------------
(* Operators and worker moves.                                             *)

\* A batch that is not empty has an oldest receipt.
LEMMA OldestIsHeld ==
    ASSUME NEW batch, batch \subseteq Nat, batch # {}
    PROVE  Oldest(batch) \in batch
<1>1. PICK q \in batch : \A p \in batch : ~(<<p, q>> \in OpToRel(<, Nat))
    BY NatLessThanWellFounded, WFMin
<1>2. \A p \in batch : q <= p
    <2>1. TAKE p \in batch
    <2>2. p \in Nat /\ q \in Nat /\ ~(p < q)
        BY <1>1 DEF OpToRel
    <2>3. QED
        BY <2>2
<1>3. QED
    BY <1>2 DEF Oldest

Typed == worker \in [Workers -> Worker]

\* Goto moves one worker and leaves what it holds and the other workers alone.
LEMMA GotoMoves ==
    ASSUME Typed, NEW w \in Workers, NEW s \in Steps, Goto(w, s)
    PROVE  /\ Typed'
           /\ worker'[w].step = s
           /\ worker'[w].batch = worker[w].batch
           /\ worker'[w].r = worker[w].r
           /\ worker'[w].exp = worker[w].exp
           /\ \A u \in Workers \ {w} : worker'[u] = worker[u]
<1>1. worker[w] \in Worker
    BY DEF Typed
<1>2. [worker[w] EXCEPT !.step = s] \in Worker
    BY <1>1 DEF Worker
<1>3. worker' = [worker EXCEPT ![w] = [worker[w] EXCEPT !.step = s]]
    BY DEF Goto, Typed
<1>4. worker'[w] = [worker[w] EXCEPT !.step = s]
    BY <1>3 DEF Typed
<1>5. QED
    BY <1>1, <1>2, <1>3, <1>4 DEF Typed, Worker

\* Finished leaves the worker polling, or about to take the rest of its batch.
LEMMA FinishedMoves ==
    ASSUME Typed, NEW w \in Workers, Finished(w)
    PROVE  /\ Typed'
           /\ worker'[w].step = IF worker[w].batch = {} THEN "poll" ELSE "next"
           /\ worker'[w].batch = worker[w].batch
           /\ worker'[w].r = None
           /\ worker'[w].exp = None
           /\ \A u \in Workers \ {w} : worker'[u] = worker[u]
<1> DEFINE v == IF worker[w].batch = {} THEN Polling
                ELSE [step |-> "next", batch |-> worker[w].batch, r |-> None, exp |-> None]
<1>1. worker[w] \in Worker
    BY DEF Typed
<1>2. v \in Worker
    BY <1>1 DEF Worker, Steps, Polling
<1>3. worker' = [worker EXCEPT ![w] = v]
    BY DEF Finished
<1>4. /\ v.step = IF worker[w].batch = {} THEN "poll" ELSE "next"
      /\ v.batch = worker[w].batch /\ v.r = None /\ v.exp = None
    BY DEF Polling
<1>5. worker'[w] = v
    BY <1>3 DEF Typed
<1>6. QED
    BY <1>2, <1>3, <1>4, <1>5 DEF Typed

\* Any other move gives one worker a new value.
LEMMA WorkerMoves ==
    ASSUME Typed, NEW w \in Workers, NEW v \in Worker, worker' = [worker EXCEPT ![w] = v]
    PROVE  /\ Typed'
           /\ worker'[w] = v
           /\ \A u \in Workers \ {w} : worker'[u] = worker[u]
BY DEF Typed

LEMMA PollingIsIdle ==
    /\ Polling \in Worker
    /\ Polling.step = "poll" /\ Polling.batch = {} /\ Polling.r = None /\ Polling.exp = None
BY DEF Polling, Worker, Steps

\* The receipt a worker takes up next.
LEMMA NextReceipt ==
    ASSUME TypeOK, WorkersOK, NEW w \in Workers, At(w, "next")
    PROVE  /\ Oldest(worker[w].batch) \in worker[w].batch
           /\ Oldest(worker[w].batch) \in Receipts
<1>1. worker[w].batch \subseteq Receipts /\ worker[w].batch # {}
    BY DEF TypeOK, Worker, WorkersOK, WorkerOK, At
<1>2. Receipts \subseteq Nat
    BY CountsAssumption DEF Receipts
<1>3. QED
    BY <1>1, <1>2, OldestIsHeld

-----------------------------------------------------------------------------
(* The steps.                                                              *)

\* A worker that has a receipt in hand has a receipt of the table.
LEMMA InHand ==
    ASSUME IInv, NEW w \in Workers, worker[w].step \notin {"poll", "locked", "next"}
    PROVE  /\ worker[w].r \in Receipts
           /\ ocr_status[worker[w].r] \notin {"absent", "skipped"}
BY DEF IInv, WorkersOK, WorkerOK, Held

LEMMA TypeInit == Init => TypeOK
<1>1. SUFFICES ASSUME Init PROVE TypeOK
    OBVIOUS
<1>2. worker \in [Workers -> Worker]
    BY <1>1, PollingIsIdle DEF Init
<1>3. faults \in 0..MaxFaults /\ crashes \in 0..MaxCrashes
    BY <1>1, CountsAssumption DEF Init
<1>4. /\ ocr_status \in [Receipts -> {"absent", "pending", "processing", "done",
                                     "failed", "skipped"}]
      /\ extracted \in [Receipts -> Amounts \cup {None}]
      /\ ocr_raw \in [Receipts -> {"result", "error", None}]
      /\ expenses \in [Expenses -> Expense \cup {None}]
      /\ carried \in [Expenses -> SUBSET Receipts]
      /\ handling \subseteq Receipts
    BY <1>1 DEF Init
<1>5. notified \in [Receipts -> SUBSET {"ok", "failed"}] /\ notifySet \in BOOLEAN
    BY <1>1 DEF Init
<1>6. QED
    BY <1>2, <1>3, <1>4, <1>5 DEF TypeOK

\* The statements that change a table, and the callback.
TableStep ==
    \/ \E r \in Receipts : CreateReceipt(r)
    \/ \E e \in Expenses, r \in Receipts : CreateExpense(e, r) \/ RelinkExpense(e, r)
    \/ \E e \in Expenses, a \in Amounts : DriverSetsAmount(e, a)
    \/ \E w \in Workers : \/ Take(w) \/ UpdateOCRFields(w) \/ SetDone(w)
                          \/ UpdateAmount(w) \/ SetFailed(w) \/ SendNotify(w)

\* Every other step leaves the tables, and what the driver was told, alone.
LEMMA TablesStep ==
    ASSUME [Next]_vars
    PROVE  TableStep \/ UNCHANGED <<tables, notified>>
<1>1. CASE BotStep
    BY <1>1 DEF BotStep, TableStep
<1>2. CASE SetNotify \/ Restart \/ UNCHANGED vars
    BY <1>2 DEF SetNotify, Restart, vars
<1>3. CASE \E w \in Workers : WorkerStep(w)
    <2>1. PICK w \in Workers : WorkerStep(w)
        BY <1>3
    <2>2. CASE PollNothing(w) \/ Poll(w) \/ Unlock(w) \/ Extract(w) \/ GetByReceiptID(w)
        BY <2>2 DEF PollNothing, Poll, Unlock, Extract, GetByReceiptID, vars
    <2>3. CASE Take(w) \/ UpdateOCRFields(w) \/ SetDone(w) \/ UpdateAmount(w)
               \/ SetFailed(w) \/ SendNotify(w)
        BY <2>3 DEF TableStep
    <2>4. QED
        BY <2>1, <2>2, <2>3 DEF WorkerStep
<1>4. CASE \E w \in Workers : WorkerFails(w)
    BY <1>4 DEF WorkerFails, TakeFails, ExtractFails, SettleFails, AmountFails, Panic
<1>5. QED
    BY <1>1, <1>2, <1>3, <1>4 DEF Next

\* A worker that is not polling has only receipts of the table, and GetByReceiptID
\* a row to write to.
LEMMA Aimed ==
    ASSUME IInv, NEW w \in Workers, At(w, "amount")
    PROVE  /\ worker[w].r \in Receipts /\ Reading[worker[w].r] \in Amounts
           /\ extracted[worker[w].r] = Reading[worker[w].r]
           /\ worker[w].exp \in Expenses
           /\ worker[w].r \in carried[worker[w].exp]
           /\ expenses[worker[w].exp] # None
           /\ expenses[worker[w].exp] \in Expense
BY DEF IInv, TypeOK, WorkersOK, WorkerOK, At, Total

-----------------------------------------------------------------------------
(* Type correctness.                                                       *)

LEMMA WorkerTypeStep ==
    ASSUME TypeOK, WorkersOK, [Next]_vars
    PROVE  Typed'
<1> USE DEF Typed
<1>1. Typed
    BY DEF TypeOK
<1>2. CASE BotStep
    BY <1>1, <1>2 DEF BotStep, CreateReceipt, CreateExpense, RelinkExpense, Link, DriverSetsAmount
<1>3. CASE SetNotify \/ UNCHANGED vars
    BY <1>1, <1>3 DEF SetNotify, vars
<1>4. CASE Restart
    BY <1>4, PollingIsIdle DEF Restart
<1>5. ASSUME NEW w \in Workers, WorkerStep(w)
      PROVE  Typed'
    <2>1. worker[w] \in Worker
        BY <1>1
    <2>2. ASSUME NEW s \in Steps, Goto(w, s)
          PROVE  Typed'
        BY <1>1, <2>2, GotoMoves
    <2>3. CASE PollNothing(w)
        BY <1>1, <2>3 DEF PollNothing, vars
    <2>4. CASE Poll(w)
        <3>1. ListPendingOCR \subseteq Receipts
            BY DEF ListPendingOCR, Pending
        <3>2. [worker[w] EXCEPT !.step = "locked", !.batch = ListPendingOCR] \in Worker
            BY <2>1, <3>1 DEF Worker, Steps
        <3>3. worker' = [worker EXCEPT ![w] =
                            [worker[w] EXCEPT !.step = "locked", !.batch = ListPendingOCR]]
            BY <2>4 DEF Poll
        <3>4. QED
            BY <1>1, <3>2, <3>3, WorkerMoves
    <2>5. CASE Unlock(w)
        BY <2>2, <2>5 DEF Unlock, Steps
    <2>6. CASE Take(w)
        <3> DEFINE r == Oldest(worker[w].batch)
        <3> DEFINE v == [worker[w] EXCEPT !.step = "extract", !.r = r,
                                          !.batch = worker[w].batch \ {r}]
        <3>1. r \in Receipts
            BY <2>6, NextReceipt DEF Take
        <3>2. worker' = [worker EXCEPT ![w] = v]
            BY <2>6 DEF Take
        <3> HIDE DEF r
        <3>3. v \in Worker
            BY <2>1, <3>1 DEF Worker, Steps
        <3>4. QED
            BY <1>1, <3>2, <3>3, WorkerMoves
    <2>7. CASE Extract(w)
        BY <2>2, <2>7 DEF Extract, Steps
    <2>8. CASE UpdateOCRFields(w)
        BY <2>2, <2>8 DEF UpdateOCRFields, Steps
    <2>9. CASE SetDone(w)
        BY <2>2, <2>9 DEF SetDone, AfterDone, Steps
    <2>10. CASE GetByReceiptID(w)
        <3>1. CASE Goto(w, "notify_ok")
            BY <2>2, <3>1 DEF Steps
        <3>2. ASSUME NEW e \in Expenses,
                     worker' = [worker EXCEPT ![w].step = "amount", ![w].exp = e]
              PROVE  Typed'
            <4>1. [worker[w] EXCEPT !.step = "amount", !.exp = e] \in Worker
                BY <2>1 DEF Worker, Steps
            <4>2. worker' = [worker EXCEPT ![w] =
                                [worker[w] EXCEPT !.step = "amount", !.exp = e]]
                BY <3>2
            <4>3. QED
                BY <1>1, <4>1, <4>2, WorkerMoves
        <3>3. QED
            BY <2>10, <3>1, <3>2 DEF GetByReceiptID
    <2>11. CASE UpdateAmount(w)
        BY <2>2, <2>11 DEF UpdateAmount, Steps
    <2>12. CASE SetFailed(w)
        BY <2>2, <2>12 DEF SetFailed, Steps
    <2>13. CASE SendNotify(w)
        BY <1>1, <2>13, FinishedMoves DEF SendNotify
    <2>14. QED
        BY <1>5, <2>3, <2>4, <2>5, <2>6, <2>7, <2>8, <2>9, <2>10, <2>11, <2>12, <2>13
            DEF WorkerStep
<1>6. ASSUME NEW w \in Workers, WorkerFails(w)
      PROVE  Typed'
    <2>1. worker[w] \in Worker
        BY <1>1
    <2>2. ASSUME NEW s \in Steps, Goto(w, s)
          PROVE  Typed'
        BY <1>1, <2>2, GotoMoves
    <2>3. CASE TakeFails(w)
        <3> DEFINE rest == worker[w].batch \ {Oldest(worker[w].batch)}
        <3> DEFINE v == IF rest = {} THEN Polling ELSE [worker[w] EXCEPT !.batch = rest]
        <3>1. rest \subseteq Receipts
            BY <2>1 DEF Worker
        <3>2. worker' = [worker EXCEPT ![w] = v]
            BY <2>3 DEF TakeFails
        <3> HIDE DEF rest
        <3>3. v \in Worker
            BY <2>1, <3>1, PollingIsIdle DEF Worker
        <3>4. QED
            BY <1>1, <3>2, <3>3, WorkerMoves
    <2>4. CASE ExtractFails(w)
        BY <2>2, <2>4 DEF ExtractFails, Steps
    <2>5. CASE SettleFails(w)
        BY <2>2, <2>5 DEF SettleFails, AfterDone, Steps
    <2>6. CASE AmountFails(w)
        BY <2>2, <2>6 DEF AmountFails, Steps
    <2>7. CASE Panic(w)
        BY <1>1, <2>7, PollingIsIdle, WorkerMoves DEF Panic
    <2>8. QED
        BY <1>6, <2>3, <2>4, <2>5, <2>6, <2>7 DEF WorkerFails
<1>7. QED
    BY <1>2, <1>3, <1>4, <1>5, <1>6 DEF Next

LEMMA CountersTypeStep ==
    ASSUME TypeOK, [Next]_vars
    PROVE  /\ handling' \subseteq Receipts
           /\ notifySet' \in BOOLEAN
           /\ faults' \in 0..MaxFaults
           /\ crashes' \in 0..MaxCrashes
<1>1. handling' \subseteq Receipts
    BY DEF TypeOK, Next, BotStep, CreateReceipt, CreateExpense, RelinkExpense, Link,
        DriverSetsAmount, SetNotify, Restart, WorkerStep, PollNothing, Poll, Unlock, Take,
        Extract, UpdateOCRFields, SetDone, GetByReceiptID, UpdateAmount, SetFailed,
        SendNotify, WorkerFails, TakeFails, ExtractFails, SettleFails, AmountFails, Panic, vars
<1>2. notifySet' \in BOOLEAN
    BY DEF TypeOK, Next, BotStep, CreateReceipt, CreateExpense, RelinkExpense, Link,
        DriverSetsAmount, SetNotify, Restart, WorkerStep, PollNothing, Poll, Unlock, Take,
        Extract, UpdateOCRFields, SetDone, GetByReceiptID, UpdateAmount, SetFailed,
        SendNotify, WorkerFails, TakeFails, ExtractFails, SettleFails, AmountFails, Panic, vars
<1>3. UNCHANGED faults \/ (faults < MaxFaults /\ faults' = faults + 1)
    BY DEF Next, BotStep, CreateReceipt, CreateExpense, RelinkExpense, Link,
        DriverSetsAmount, SetNotify, Restart, WorkerStep, PollNothing, Poll, Unlock, Take,
        Extract, UpdateOCRFields, SetDone, GetByReceiptID, UpdateAmount, SetFailed, Fault,
        SendNotify, WorkerFails, TakeFails, ExtractFails, SettleFails, AmountFails, Panic, vars
<1>4. UNCHANGED crashes \/ (crashes < MaxCrashes /\ crashes' = crashes + 1)
    BY DEF Next, BotStep, CreateReceipt, CreateExpense, RelinkExpense, Link,
        DriverSetsAmount, SetNotify, Restart, WorkerStep, PollNothing, Poll, Unlock, Take,
        Extract, UpdateOCRFields, SetDone, GetByReceiptID, UpdateAmount, SetFailed, Crash,
        SendNotify, WorkerFails, TakeFails, ExtractFails, SettleFails, AmountFails, Panic, vars
<1>5. QED
    BY <1>1, <1>2, <1>3, <1>4, CountsAssumption DEF TypeOK

\* The tables and what the driver was told.
TablesTyped ==
    /\ ocr_status \in [Receipts -> {"absent", "pending", "processing", "done",
                                    "failed", "skipped"}]
    /\ extracted \in [Receipts -> Amounts \cup {None}]
    /\ ocr_raw \in [Receipts -> {"result", "error", None}]
    /\ expenses \in [Expenses -> Expense \cup {None}]
    /\ carried \in [Expenses -> SUBSET Receipts]
    /\ notified \in [Receipts -> SUBSET {"ok", "failed"}]

LEMMA TablesTypeStep ==
    ASSUME IInv, [Next]_vars
    PROVE  TablesTyped'
<1> USE DEF TablesTyped
<1>1. TablesTyped
    BY DEF IInv, TypeOK
<1>2. CASE UNCHANGED <<tables, notified>>
    BY <1>1, <1>2 DEF tables
<1>3. ASSUME NEW r \in Receipts, CreateReceipt(r)
      PROVE  TablesTyped'
    BY <1>1, <1>3 DEF CreateReceipt
<1>4. ASSUME NEW e \in Expenses, NEW r \in Receipts, CreateExpense(e, r)
      PROVE  TablesTyped'
    <2>1. [receipt |-> r, amount |-> None, setBy |-> "nobody"] \in Expense
        BY DEF Expense
    <2>2. QED
        BY <1>1, <1>4, <2>1 DEF CreateExpense, Link
<1>5. ASSUME NEW e \in Expenses, NEW r \in Receipts, RelinkExpense(e, r)
      PROVE  TablesTyped'
    <2>1. expenses[e] \in Expense
        BY <1>1, <1>5 DEF RelinkExpense
    <2>2. [expenses[e] EXCEPT !.receipt = r] \in Expense
        BY <2>1 DEF Expense
    <2>3. expenses' = [expenses EXCEPT ![e] = [expenses[e] EXCEPT !.receipt = r]]
        BY <1>5 DEF RelinkExpense
    <2>4. QED
        BY <1>1, <1>5, <2>2, <2>3 DEF RelinkExpense, Link
<1>6. ASSUME NEW e \in Expenses, NEW a \in Amounts, DriverSetsAmount(e, a)
      PROVE  TablesTyped'
    <2>1. expenses[e] \in Expense
        BY <1>1, <1>6 DEF DriverSetsAmount
    <2>2. [expenses[e] EXCEPT !.amount = a, !.setBy = "driver"] \in Expense
        BY <2>1 DEF Expense
    <2>3. expenses' = [expenses EXCEPT ![e] =
                          [expenses[e] EXCEPT !.amount = a, !.setBy = "driver"]]
        BY <1>6 DEF DriverSetsAmount
    <2>4. QED
        BY <1>1, <1>6, <2>2, <2>3 DEF DriverSetsAmount
<1>7. ASSUME NEW w \in Workers, UpdateAmount(w)
      PROVE  TablesTyped'
    <2> DEFINE e == worker[w].exp
    <2> DEFINE a == Reading[worker[w].r]
    <2>1. e \in Expenses /\ expenses[e] \in Expense /\ a \in Amounts
        BY <1>7, Aimed DEF UpdateAmount
    <2>2. expenses' = [expenses EXCEPT ![e] = [expenses[e] EXCEPT !.amount = a, !.setBy = "ocr"]]
        BY <1>7 DEF UpdateAmount
    <2>3. UNCHANGED <<ocr_status, extracted, ocr_raw, carried, notified>>
        BY <1>7 DEF UpdateAmount
    <2> HIDE DEF e, a
    <2>4. [expenses[e] EXCEPT !.amount = a, !.setBy = "ocr"] \in Expense
        BY <2>1 DEF Expense
    <2>5. QED
        BY <1>1, <2>1, <2>2, <2>3, <2>4
<1>8. ASSUME NEW w \in Workers,
             Take(w) \/ UpdateOCRFields(w) \/ SetDone(w) \/ SetFailed(w) \/ SendNotify(w)
      PROVE  TablesTyped'
    <2>1. CASE Take(w)
        BY <1>1, <2>1 DEF Take
    <2>2. CASE UpdateOCRFields(w)
        BY <1>1, <2>2 DEF UpdateOCRFields
    <2>3. CASE SetDone(w)
        BY <1>1, <2>3 DEF SetDone
    <2>4. CASE SetFailed(w)
        BY <1>1, <2>4 DEF SetFailed
    <2>5. CASE SendNotify(w)
        BY <1>1, <2>5 DEF SendNotify, tables
    <2>6. QED
        BY <1>8, <2>1, <2>2, <2>3, <2>4, <2>5
<1>9. QED
    BY <1>2, <1>3, <1>4, <1>5, <1>6, <1>7, <1>8, TablesStep DEF TableStep

LEMMA TypeStep ==
    ASSUME IInv, [Next]_vars
    PROVE  TypeOK'
BY WorkerTypeStep, CountersTypeStep, TablesTypeStep DEF IInv, TypeOK, Typed, TablesTyped

-----------------------------------------------------------------------------
(* What the tables only gain.                                              *)

\* A stored total stays, an inserted receipt is never skipped afterwards, and
\* an expense keeps its row and its history: what a worker has in hand stays
\* true while the others go on.
TablesGrow ==
    /\ \A r \in Receipts : extracted[r] = Total(r) => extracted'[r] = Total(r)
    /\ \A r \in Receipts : ocr_status[r] \notin {"absent", "skipped"} =>
                               ocr_status'[r] \notin {"absent", "skipped"}
    /\ \A e \in Expenses : /\ expenses[e] # None => expenses'[e] # None
                           /\ carried[e] \subseteq carried'[e]

LEMMA GrowStep ==
    ASSUME IInv, [Next]_vars
    PROVE  TablesGrow
<1> USE DEF TablesGrow
<1>1. TablesTyped /\ TablesTyped'
    BY TablesTypeStep DEF IInv, TypeOK, TablesTyped
<1>2. CASE UNCHANGED <<tables, notified>>
    BY <1>1, <1>2 DEF tables
<1>3. ASSUME NEW r \in Receipts, CreateReceipt(r)
      PROVE  TablesGrow
    BY <1>1, <1>3 DEF CreateReceipt, TablesTyped
<1>4. ASSUME NEW e \in Expenses, NEW r \in Receipts, CreateExpense(e, r) \/ RelinkExpense(e, r)
      PROVE  TablesGrow
    <2>1. UNCHANGED <<ocr_status, extracted>> /\ carried' = [carried EXCEPT ![e] = @ \cup {r}]
        BY <1>4 DEF CreateExpense, RelinkExpense, Link
    <2>2. \A x \in Expenses \ {e} : expenses'[x] = expenses[x]
        BY <1>1, <1>4 DEF CreateExpense, RelinkExpense, Link, TablesTyped
    <2>3. expenses'[e] # None
        <3>1. [receipt |-> r, amount |-> None, setBy |-> "nobody"] \in Expense
            BY DEF Expense
        <3>2. CASE CreateExpense(e, r)
            BY <1>1, <3>1, <3>2, NoRowAssumption DEF CreateExpense, TablesTyped
        <3>3. CASE RelinkExpense(e, r)
            <4>1. expenses[e] \in Expense
                BY <1>1, <3>3 DEF RelinkExpense, TablesTyped
            <4>2. [expenses[e] EXCEPT !.receipt = r] \in Expense
                BY <4>1 DEF Expense
            <4>3. expenses'[e] = [expenses[e] EXCEPT !.receipt = r]
                BY <1>1, <3>3 DEF RelinkExpense, TablesTyped
            <4>4. QED
                BY <4>2, <4>3, NoRowAssumption
        <3>4. QED
            BY <1>4, <3>2, <3>3
    <2>4. QED
        BY <1>1, <2>1, <2>2, <2>3 DEF TablesTyped
<1>5. ASSUME NEW e \in Expenses, NEW a \in Amounts, DriverSetsAmount(e, a)
      PROVE  TablesGrow
    <2>1. expenses[e] \in Expense
        BY <1>1, <1>5 DEF DriverSetsAmount, TablesTyped
    <2>2. [expenses[e] EXCEPT !.amount = a, !.setBy = "driver"] \in Expense
        BY <2>1 DEF Expense
    <2>3. expenses' = [expenses EXCEPT ![e] =
                          [expenses[e] EXCEPT !.amount = a, !.setBy = "driver"]]
        BY <1>5 DEF DriverSetsAmount
    <2>4. QED
        BY <1>1, <1>5, <2>2, <2>3, NoRowAssumption DEF DriverSetsAmount, TablesTyped
<1>6. ASSUME NEW w \in Workers, UpdateAmount(w)
      PROVE  TablesGrow
    <2> DEFINE e == worker[w].exp
    <2> DEFINE a == Reading[worker[w].r]
    <2>1. e \in Expenses /\ expenses[e] \in Expense /\ a \in Amounts
        BY <1>6, Aimed DEF UpdateAmount
    <2>2. expenses' = [expenses EXCEPT ![e] = [expenses[e] EXCEPT !.amount = a, !.setBy = "ocr"]]
        BY <1>6 DEF UpdateAmount
    <2>3. UNCHANGED <<ocr_status, extracted, ocr_raw, carried, notified>>
        BY <1>6 DEF UpdateAmount
    <2> HIDE DEF e, a
    <2>4. [expenses[e] EXCEPT !.amount = a, !.setBy = "ocr"] \in Expense
        BY <2>1 DEF Expense
    <2>5. QED
        BY <1>1, <2>1, <2>2, <2>3, <2>4, NoRowAssumption DEF TablesTyped
<1>7. ASSUME NEW w \in Workers,
             Take(w) \/ UpdateOCRFields(w) \/ SetDone(w) \/ SetFailed(w) \/ SendNotify(w)
      PROVE  TablesGrow
    <2>1. CASE Take(w)
        BY <1>1, <2>1 DEF Take, TablesTyped
    <2>2. CASE UpdateOCRFields(w)
        BY <1>1, <2>2 DEF UpdateOCRFields, TablesTyped, Total
    <2>3. CASE SetDone(w)
        BY <1>1, <2>3 DEF SetDone, TablesTyped
    <2>4. CASE SetFailed(w)
        BY <1>1, <2>4 DEF SetFailed, TablesTyped
    <2>5. CASE SendNotify(w)
        BY <1>1, <2>5 DEF SendNotify, tables, TablesTyped
    <2>6. QED
        BY <1>7, <2>1, <2>2, <2>3, <2>4, <2>5
<1>8. QED
    BY <1>2, <1>3, <1>4, <1>5, <1>6, <1>7, TablesStep DEF TableStep

-----------------------------------------------------------------------------
(* The three parts of the inductive invariant.                             *)

LEMMA ReceiptsStep ==
    ASSUME IInv, [Next]_vars
    PROVE  ReceiptsOK'
<1> USE DEF ReceiptsOK, ReceiptOK
<1>1. TablesTyped /\ ReceiptsOK
    BY DEF IInv, TypeOK, TablesTyped
<1>2. CASE UNCHANGED <<tables, notified>>
    BY <1>1, <1>2 DEF tables
<1>3. ASSUME NEW r \in Receipts, CreateReceipt(r)
      PROVE  ReceiptsOK'
    BY <1>1, <1>3 DEF CreateReceipt, TablesTyped
<1>4. CASE UNCHANGED <<ocr_status, extracted, ocr_raw, notified>>
    BY <1>1, <1>4
<1>5. ASSUME NEW w \in Workers, Take(w)
      PROVE  ReceiptsOK'
    <2> DEFINE r == Oldest(worker[w].batch)
    <2>1. r \in Receipts /\ r \in worker[w].batch
        BY <1>5, NextReceipt DEF IInv, Take
    <2>2. ocr_status[r] \notin {"absent", "skipped"}
        BY <2>1 DEF IInv, WorkersOK, WorkerOK, Held
    <2>3. ocr_status' = [ocr_status EXCEPT ![r] = "processing"]
        BY <1>5 DEF Take
    <2>4. UNCHANGED <<extracted, ocr_raw, notified>>
        BY <1>5 DEF Take
    <2> HIDE DEF r
    <2>5. QED
        BY <1>1, <2>1, <2>2, <2>3, <2>4 DEF TablesTyped
<1>6. ASSUME NEW w \in Workers, UpdateOCRFields(w)
      PROVE  ReceiptsOK'
    <2>1. worker[w].r \in Receipts /\ ocr_status[worker[w].r] \notin {"absent", "skipped"}
        BY <1>6, InHand DEF UpdateOCRFields, At
    <2>2. QED
        BY <1>1, <1>6, <2>1 DEF UpdateOCRFields, TablesTyped, Total
<1>7. ASSUME NEW w \in Workers, SetDone(w)
      PROVE  ReceiptsOK'
    <2>1. worker[w].r \in Receipts /\ ocr_status[worker[w].r] \notin {"absent", "skipped"}
        BY <1>7, InHand DEF SetDone, At
    <2>2. extracted[worker[w].r] = Total(worker[w].r)
        BY <1>7 DEF IInv, WorkersOK, WorkerOK, SetDone, At
    <2>3. QED
        BY <1>1, <1>7, <2>1, <2>2 DEF SetDone, TablesTyped
<1>8. ASSUME NEW w \in Workers, SetFailed(w)
      PROVE  ReceiptsOK'
    <2>1. worker[w].r \in Receipts /\ ocr_status[worker[w].r] \notin {"absent", "skipped"}
        BY <1>8, InHand DEF SetFailed, At
    <2>2. QED
        BY <1>1, <1>8, <2>1, NoneAssumption DEF SetFailed, TablesTyped
<1>9. ASSUME NEW w \in Workers, SendNotify(w)
      PROVE  ReceiptsOK'
    <2>1. worker[w].r \in Receipts /\ ocr_status[worker[w].r] \notin {"absent", "skipped"}
        BY <1>9, InHand DEF SendNotify, At
    <2>2. QED
        BY <1>1, <1>9, <2>1 DEF SendNotify, tables, TablesTyped
<1>10. QED
    BY <1>2, <1>3, <1>4, <1>5, <1>6, <1>7, <1>8, <1>9, TablesStep
        DEF TableStep, CreateExpense, RelinkExpense, Link, DriverSetsAmount, UpdateAmount

\* A total that is stored stays stored, and the history only grows.
LEMMA StoredStays ==
    ASSUME IInv, [Next]_vars, NEW e \in Expenses, NEW a, Stored(e, a)
    PROVE  (Stored(e, a))'
<1>1. PICK r \in carried[e] : Reading[r] = a /\ a \in Amounts /\ extracted[r] = a
    BY DEF Stored
<1>2. r \in Receipts
    BY <1>1 DEF IInv, TypeOK
<1>3. r \in carried'[e] /\ extracted'[r] = a
    BY <1>1, <1>2, GrowStep DEF TablesGrow, Total
<1>4. QED
    BY <1>1, <1>3 DEF Stored

LEMMA ExpensesStep ==
    ASSUME IInv, [Next]_vars
    PROVE  ExpensesOK'
<1>1. TablesTyped /\ TablesGrow /\ ExpensesOK
    BY GrowStep DEF IInv, TypeOK, TablesTyped
<1>2. SUFFICES ASSUME NEW x \in Expenses, expenses'[x] # None
               PROVE  /\ expenses'[x].receipt \in carried'[x]
                      /\ expenses'[x].setBy = "ocr" => (Stored(x, expenses[x].amount))'
    BY DEF ExpensesOK
<1>3. CASE expenses'[x] = expenses[x]
    BY <1>1, <1>2, <1>3, StoredStays DEF ExpensesOK, TablesGrow, Stored
<1>4. CASE UNCHANGED expenses
    BY <1>3, <1>4
<1>5. ASSUME NEW e \in Expenses, NEW r \in Receipts, CreateExpense(e, r), x = e
      PROVE  /\ expenses'[x].receipt \in carried'[x]
             /\ expenses'[x].setBy = "ocr" => (Stored(x, expenses[x].amount))'
    BY <1>1, <1>5 DEF CreateExpense, Link, TablesTyped
<1>6. ASSUME NEW e \in Expenses, NEW r \in Receipts, RelinkExpense(e, r), x = e
      PROVE  /\ expenses'[x].receipt \in carried'[x]
             /\ expenses'[x].setBy = "ocr" => (Stored(x, expenses[x].amount))'
    <2>1. expenses[e] \in Expense /\ expenses[e] # None
        BY <1>1, <1>6 DEF RelinkExpense, TablesTyped
    <2>2. /\ expenses'[x].receipt = r /\ expenses'[x].setBy = expenses[x].setBy
          /\ expenses'[x].amount = expenses[x].amount
        BY <1>1, <1>6, <2>1 DEF RelinkExpense, TablesTyped, Expense
    <2>3. r \in carried'[x]
        BY <1>1, <1>6 DEF RelinkExpense, Link, TablesTyped
    <2>4. QED
        BY <1>1, <1>6, <2>1, <2>2, <2>3, StoredStays DEF ExpensesOK, Stored
<1>7. ASSUME NEW e \in Expenses, NEW a \in Amounts, DriverSetsAmount(e, a), x = e
      PROVE  /\ expenses'[x].receipt \in carried'[x]
             /\ expenses'[x].setBy = "ocr" => (Stored(x, expenses[x].amount))'
    <2>1. expenses[e] \in Expense /\ expenses[e] # None
        BY <1>1, <1>7 DEF DriverSetsAmount, TablesTyped
    <2>2. expenses'[x].receipt = expenses[x].receipt /\ expenses'[x].setBy = "driver"
        BY <1>1, <1>7, <2>1 DEF DriverSetsAmount, TablesTyped, Expense
    <2>3. QED
        BY <1>1, <1>7, <2>1, <2>2 DEF ExpensesOK, TablesGrow
<1>8. ASSUME NEW w \in Workers, UpdateAmount(w), x = worker[w].exp
      PROVE  /\ expenses'[x].receipt \in carried'[x]
             /\ expenses'[x].setBy = "ocr" => (Stored(x, expenses[x].amount))'
    <2> DEFINE a == Reading[worker[w].r]
    <2>1. /\ worker[w].r \in Receipts /\ a \in Amounts /\ extracted[worker[w].r] = a
          /\ worker[w].r \in carried[x]
          /\ expenses[x] \in Expense /\ expenses[x] # None
        BY <1>8, Aimed DEF UpdateAmount
    <2>2. expenses' = [expenses EXCEPT ![x].amount = a, ![x].setBy = "ocr"]
          /\ UNCHANGED <<extracted, carried>>
        BY <1>8 DEF UpdateAmount
    <2>3. expenses'[x].receipt = expenses[x].receipt /\ expenses'[x].amount = a
        BY <1>1, <2>1, <2>2 DEF TablesTyped, Expense
    <2>4. (Stored(x, expenses[x].amount))'
        BY <2>1, <2>2, <2>3 DEF Stored
    <2>5. QED
        BY <1>1, <2>1, <2>2, <2>3, <2>4 DEF ExpensesOK
<1>9. \/ UNCHANGED expenses \/ expenses'[x] = expenses[x]
      \/ \E e \in Expenses, r \in Receipts :
            x = e /\ (CreateExpense(e, r) \/ RelinkExpense(e, r))
      \/ \E e \in Expenses, a \in Amounts : x = e /\ DriverSetsAmount(e, a)
      \/ \E w \in Workers : x = worker[w].exp /\ UpdateAmount(w)
    BY <1>1, TablesStep DEF TableStep, CreateReceipt, CreateExpense, RelinkExpense, Link,
        DriverSetsAmount, Take, UpdateOCRFields, SetDone, UpdateAmount, SetFailed,
        SendNotify, tables, TablesTyped
<1>10. QED
    BY <1>3, <1>4, <1>5, <1>6, <1>7, <1>8, <1>9

\* What a worker that does not move has in hand stays true.
LEMMA Bystander ==
    ASSUME IInv, TablesGrow, NEW u \in Workers, worker'[u] = worker[u]
    PROVE  (WorkerOK(u))'
<1>1. WorkerOK(u)
    BY DEF IInv, WorkersOK
<1>2. worker[u].exp \in Expenses /\ expenses[worker[u].exp] # None
          => expenses'[worker[u].exp] # None
    BY DEF TablesGrow
<1>3. worker[u].exp \in Expenses /\ worker[u].r \in carried[worker[u].exp]
          => worker[u].r \in carried'[worker[u].exp]
    BY DEF TablesGrow
<1>4. worker[u].r \in Receipts /\ extracted[worker[u].r] = Total(worker[u].r)
          => extracted'[worker[u].r] = Total(worker[u].r)
    BY DEF TablesGrow
<1>5. \A r \in Receipts : ocr_status[r] \notin {"absent", "skipped"} =>
                              ocr_status'[r] \notin {"absent", "skipped"}
    BY DEF TablesGrow
<1>6. QED
    BY <1>1, <1>2, <1>3, <1>4, <1>5 DEF WorkerOK, Held

\* A worker that lets go of its receipt: it polls, or it has more of its batch.
LEMMA LetsGo ==
    ASSUME IInv, TablesGrow, NEW w \in Workers,
           worker'[w].step \in {"poll", "next"},
           worker'[w].step = "next" => worker'[w].batch # {},
           worker'[w].batch \subseteq worker[w].batch,
           worker'[w].r = None \/ worker'[w].r = worker[w].r
    PROVE  (WorkerOK(w))'
<1>1. \A r \in Receipts : r \in (Held(w))' => r \in Held(w)
    BY NoneAssumption DEF Held
<1>2. \A r \in Receipts : r \in (Held(w))' => ocr_status'[r] \notin {"absent", "skipped"}
    BY <1>1 DEF IInv, WorkersOK, WorkerOK, TablesGrow
<1>3. QED
    BY <1>2 DEF WorkerOK

\* A worker that goes on with the receipt it holds.
LEMMA GoesOn ==
    ASSUME IInv, TablesGrow, NEW w \in Workers, NEW s \in Steps, Goto(w, s),
           s \notin {"poll", "locked", "next", "amount"},
           worker[w].step \notin {"poll", "locked", "next"},
           s \in {"done", "lookup"} => extracted'[worker[w].r] = Total(worker[w].r),
           s = "lookup" => Reading[worker[w].r] \in Amounts
    PROVE  (WorkerOK(w))'
<1>1. /\ worker'[w].step = s /\ worker'[w].batch = worker[w].batch
      /\ worker'[w].r = worker[w].r
    BY GotoMoves DEF IInv, TypeOK, Typed
<1>2. worker'[w].r \in Receipts
    BY <1>1, InHand
<1>3. \A r \in Receipts : r \in (Held(w))' => ocr_status'[r] \notin {"absent", "skipped"}
    BY <1>1 DEF Held, IInv, WorkersOK, WorkerOK, TablesGrow
<1>4. QED
    BY <1>1, <1>2, <1>3 DEF WorkerOK

LEMMA WorkersStep ==
    ASSUME IInv, [Next]_vars
    PROVE  WorkersOK'
<1>1. TablesGrow /\ TablesTyped /\ Typed
    BY GrowStep DEF IInv, TypeOK, TablesTyped, Typed
<1>2. CASE UNCHANGED worker
    BY <1>1, <1>2, Bystander DEF WorkersOK
<1>3. CASE Restart
    <2>1. \A w \in Workers : worker'[w] = Polling
        BY <1>3 DEF Restart
    <2>2. \A w \in Workers : (WorkerOK(w))'
        BY <1>1, <2>1, PollingIsIdle, LetsGo
    <2>3. QED
        BY <2>2 DEF WorkersOK
<1>4. ASSUME NEW w \in Workers, WorkerStep(w)
      PROVE  (WorkerOK(w))'
    <2>1. worker[w] \in Worker /\ WorkerOK(w)
        BY DEF IInv, TypeOK, WorkersOK
    <2>2. CASE PollNothing(w)
        BY <1>1, <2>2, Bystander DEF PollNothing, vars
    <2>3. CASE Poll(w)
        <3> DEFINE v == [worker[w] EXCEPT !.step = "locked", !.batch = ListPendingOCR]
        <3>1. v \in Worker
            BY <2>1 DEF Worker, Steps, ListPendingOCR, Pending
        <3>2. worker' = [worker EXCEPT ![w] = v]
            BY <2>3 DEF Poll
        <3>3. worker'[w] = v
            BY <1>1, <3>1, <3>2, WorkerMoves
        <3>4. v.step = "locked" /\ v.batch = ListPendingOCR /\ v.r = worker[w].r
            BY <2>1 DEF Worker
        <3>5. \A r \in ListPendingOCR : ocr_status[r] = "pending"
            BY DEF ListPendingOCR, Pending
        <3>6. \A r \in Receipts : r \in (Held(w))' => ocr_status'[r] \notin {"absent", "skipped"}
            BY <1>1, <2>1, <3>3, <3>4, <3>5 DEF Held, WorkerOK, TablesGrow
        <3>7. ListPendingOCR # {}
            BY <2>3 DEF Poll
        <3>8. QED
            BY <3>3, <3>4, <3>6, <3>7 DEF WorkerOK
    <2>4. CASE Unlock(w)
        <3>1. worker'[w].step = "next" /\ worker'[w].batch = worker[w].batch
              /\ worker'[w].r = worker[w].r
            BY <1>1, <2>4, GotoMoves DEF Unlock, Steps
        <3>2. worker[w].batch # {}
            BY <2>1, <2>4 DEF Unlock, At, WorkerOK
        <3>3. QED
            BY <1>1, <3>1, <3>2, LetsGo
    <2>5. CASE Take(w)
        <3> DEFINE r == Oldest(worker[w].batch)
        <3> DEFINE v == [worker[w] EXCEPT !.step = "extract", !.r = r,
                                          !.batch = worker[w].batch \ {r}]
        <3>1. r \in Receipts /\ r \in worker[w].batch
            BY <2>5, NextReceipt DEF IInv, Take
        <3>2. worker' = [worker EXCEPT ![w] = v]
            BY <2>5 DEF Take
        <3> HIDE DEF r
        <3>3. v \in Worker
            BY <2>1, <3>1 DEF Worker, Steps
        <3>4. worker'[w] = v
            BY <1>1, <3>2, <3>3, WorkerMoves
        <3>5. v.step = "extract" /\ v.r = r /\ v.batch \subseteq worker[w].batch
            BY <2>1 DEF Worker
        <3>6. \A q \in Receipts : q \in (Held(w))' => ocr_status'[q] \notin {"absent", "skipped"}
            BY <1>1, <2>1, <3>1, <3>4, <3>5 DEF Held, WorkerOK, TablesGrow
        <3>7. QED
            BY <3>1, <3>4, <3>5, <3>6 DEF WorkerOK
    <2>6. CASE Extract(w)
        BY <1>1, <2>6, GoesOn DEF Extract, At, Steps
    <2>7. CASE UpdateOCRFields(w)
        <3>1. worker[w].r \in Receipts
            BY <2>7, InHand DEF UpdateOCRFields, At
        <3>2. extracted'[worker[w].r] = Total(worker[w].r)
            BY <1>1, <2>7, <3>1 DEF UpdateOCRFields, Total, TablesTyped
        <3>3. QED
            BY <1>1, <2>7, <3>2, GoesOn DEF UpdateOCRFields, At, Steps
    <2>8. CASE SetDone(w)
        <3>1. extracted[worker[w].r] = Total(worker[w].r) /\ UNCHANGED extracted
            BY <2>1, <2>8 DEF SetDone, At, WorkerOK
        <3>2. CASE Reading[worker[w].r] \in Amounts
            BY <1>1, <2>8, <3>1, <3>2, GoesOn DEF SetDone, AfterDone, At, Steps
        <3>3. CASE Reading[worker[w].r] \notin Amounts
            BY <1>1, <2>8, <3>3, GoesOn DEF SetDone, AfterDone, At, Steps
        <3>4. QED
            BY <3>2, <3>3
    <2>9. CASE GetByReceiptID(w)
        <3>1. CASE Goto(w, "notify_ok")
            BY <1>1, <2>9, <3>1, GoesOn DEF GetByReceiptID, At, Steps
        <3>2. ASSUME NEW e \in Expenses, expenses[e] # None,
                     expenses[e].receipt = worker[w].r,
                     worker' = [worker EXCEPT ![w].step = "amount", ![w].exp = e]
              PROVE  (WorkerOK(w))'
            <4> DEFINE v == [worker[w] EXCEPT !.step = "amount", !.exp = e]
            <4>1. v \in Worker
                BY <2>1 DEF Worker, Steps
            <4>2. worker' = [worker EXCEPT ![w] = v]
                BY <3>2
            <4>3. worker'[w] = v
                BY <1>1, <4>1, <4>2, WorkerMoves
            <4>4. /\ v.step = "amount" /\ v.exp = e /\ v.r = worker[w].r
                  /\ v.batch = worker[w].batch
                BY <2>1 DEF Worker
            <4>5. worker[w].r \in carried[e]
                BY <3>2 DEF IInv, ExpensesOK
            <4>6. /\ worker[w].r \in Receipts /\ Reading[worker[w].r] \in Amounts
                  /\ extracted[worker[w].r] = Total(worker[w].r)
                BY <2>1, <2>9 DEF GetByReceiptID, At, WorkerOK
            <4>7. UNCHANGED <<ocr_status, extracted, expenses, carried>>
                BY <2>9 DEF GetByReceiptID, tables
            <4>8. \A q \in Receipts : q \in (Held(w))' => ocr_status'[q] \notin {"absent", "skipped"}
                BY <2>1, <4>3, <4>4, <4>7 DEF Held, WorkerOK
            <4> HIDE DEF v
            <4>9. QED
                BY <3>2, <4>3, <4>4, <4>5, <4>6, <4>7, <4>8 DEF WorkerOK, Total
        <3>3. QED
            BY <2>9, <3>1, <3>2 DEF GetByReceiptID
    <2>10. CASE UpdateAmount(w)
        BY <1>1, <2>10, GoesOn DEF UpdateAmount, At, Steps
    <2>11. CASE SetFailed(w)
        BY <1>1, <2>11, GoesOn DEF SetFailed, At, Steps
    <2>12. CASE SendNotify(w)
        BY <1>1, <2>12, FinishedMoves, LetsGo DEF SendNotify
    <2>13. QED
        BY <1>4, <2>2, <2>3, <2>4, <2>5, <2>6, <2>7, <2>8, <2>9, <2>10, <2>11, <2>12
            DEF WorkerStep
<1>5. ASSUME NEW w \in Workers, WorkerFails(w)
      PROVE  (WorkerOK(w))'
    <2>1. worker[w] \in Worker /\ WorkerOK(w)
        BY DEF IInv, TypeOK, WorkersOK
    <2>2. CASE TakeFails(w)
        <3> DEFINE rest == worker[w].batch \ {Oldest(worker[w].batch)}
        <3> DEFINE v == IF rest = {} THEN Polling ELSE [worker[w] EXCEPT !.batch = rest]
        <3>1. rest \subseteq Receipts /\ rest \subseteq worker[w].batch
            BY <2>1 DEF Worker
        <3>2. worker' = [worker EXCEPT ![w] = v] /\ worker[w].step = "next"
            BY <2>2 DEF TakeFails, At
        <3> HIDE DEF rest
        <3>3. v \in Worker
            BY <2>1, <3>1, PollingIsIdle DEF Worker
        <3>4. worker'[w] = v
            BY <1>1, <3>2, <3>3, WorkerMoves
        <3>5. CASE rest = {}
            BY <1>1, <3>4, <3>5, PollingIsIdle, LetsGo
        <3>6. CASE rest # {}
            <4>1. v.step = "next" /\ v.batch = rest /\ v.r = worker[w].r
                BY <2>1, <3>2, <3>6 DEF Worker
            <4> HIDE DEF v
            <4>2. QED
                BY <1>1, <3>1, <3>4, <3>6, <4>1, LetsGo
        <3>7. QED
            BY <3>5, <3>6
    <2>3. CASE ExtractFails(w)
        BY <1>1, <2>3, GoesOn DEF ExtractFails, At, Steps
    <2>4. CASE SettleFails(w)
        <3>1. CASE At(w, "failed") /\ Goto(w, "notify_failed")
            BY <1>1, <3>1, GoesOn DEF At, Steps
        <3>2. CASE At(w, "done") /\ AfterDone(w)
            <4>1. extracted[worker[w].r] = Total(worker[w].r) /\ UNCHANGED extracted
                BY <2>1, <2>4, <3>2 DEF SettleFails, At, WorkerOK, tables
            <4>2. CASE Reading[worker[w].r] \in Amounts
                BY <1>1, <3>2, <4>1, <4>2, GoesOn DEF AfterDone, At, Steps
            <4>3. CASE Reading[worker[w].r] \notin Amounts
                BY <1>1, <3>2, <4>3, GoesOn DEF AfterDone, At, Steps
            <4>4. QED
                BY <4>2, <4>3
        <3>3. QED
            BY <2>4, <3>1, <3>2 DEF SettleFails
    <2>5. CASE AmountFails(w)
        BY <1>1, <2>5, GoesOn DEF AmountFails, At, Steps
    <2>6. CASE Panic(w)
        <3>1. worker'[w] = Polling
            BY <1>1, <2>6 DEF Panic, Typed
        <3>2. QED
            BY <1>1, <3>1, PollingIsIdle, LetsGo
    <2>7. QED
        BY <1>5, <2>2, <2>3, <2>4, <2>5, <2>6 DEF WorkerFails
<1>6. ASSUME NEW w \in Workers, WorkerStep(w) \/ WorkerFails(w)
      PROVE  \A u \in Workers \ {w} : worker'[u] = worker[u]
    BY <1>1, <1>6 DEF WorkerStep, PollNothing, Poll, Unlock, Take, Extract, UpdateOCRFields,
        SetDone, AfterDone, GetByReceiptID, UpdateAmount, SetFailed, SendNotify, WorkerFails,
        TakeFails, ExtractFails, SettleFails, AmountFails, Panic, Goto, Finished, vars, Typed
<1>7. ASSUME NEW w \in Workers, WorkerStep(w) \/ WorkerFails(w)
      PROVE  WorkersOK'
    <2>1. (WorkerOK(w))'
        BY <1>4, <1>5, <1>7
    <2>2. \A u \in Workers \ {w} : (WorkerOK(u))'
        BY <1>1, <1>6, <1>7, Bystander
    <2>3. QED
        BY <2>1, <2>2 DEF WorkersOK
<1>8. CASE BotStep \/ SetNotify \/ UNCHANGED vars
    BY <1>2, <1>8 DEF BotStep, CreateReceipt, CreateExpense, RelinkExpense, Link,
        DriverSetsAmount, SetNotify, vars
<1>9. QED
    BY <1>3, <1>7, <1>8 DEF Next

-----------------------------------------------------------------------------
(* Theorems.                                                               *)

LEMMA InvInit == Init => IInv
<1>1. SUFFICES ASSUME Init PROVE IInv
    OBVIOUS
<1>2. ReceiptsOK
    BY <1>1, NoneAssumption DEF Init, ReceiptsOK, ReceiptOK
<1>3. ExpensesOK
    BY <1>1 DEF Init, ExpensesOK
<1>4. WorkersOK
    <2>1. \A w \in Workers : worker[w] = Polling
        BY <1>1 DEF Init
    <2>2. QED
        BY <2>1, PollingIsIdle, NoneAssumption DEF WorkersOK, WorkerOK, Held
<1>5. QED
    BY <1>1, <1>2, <1>3, <1>4, TypeInit DEF IInv

LEMMA InvStep == IInv /\ [Next]_vars => IInv'
BY TypeStep, ReceiptsStep, ExpensesStep, WorkersStep DEF IInv

\* In every reachable state the tables, and what each worker knows of them,
\* agree with what was written.
THEOREM Invariance == Spec => []IInv
BY InvInit, InvStep, PTL DEF Spec

\* Every variable keeps its type, for any pool and any number of failures and
\* restarts (internal/worker/pool.go, internal/receipt/processor.go).
THEOREM TypeCorrect == Spec => []TypeOK
<1>1. IInv => TypeOK
    BY DEF IInv
<1>2. QED
    BY <1>1, Invariance, PTL

\* A receipt shown as done carries what the OCR read, however many workers,
\* failures and restarts there are (internal/receipt/processor.go Process).
THEOREM DoneHasFieldsAlways == Spec => []DoneHasFields
<1>1. IInv => DoneHasFields
    BY DEF IInv, ReceiptsOK, ReceiptOK, Total, DoneHasFields
<1>2. QED
    BY <1>1, Invariance, PTL

\* The receipts of manual entries and of evidence never reach the OCR
\* (internal/receipt/repository.go ListPendingOCR).
THEOREM SkippedIsLeftAloneAlways == Spec => []SkippedIsLeftAlone
<1>1. IInv => SkippedIsLeftAlone
    BY DEF IInv, ReceiptsOK, ReceiptOK, WorkersOK, WorkerOK, Held, SkippedIsLeftAlone
<1>2. QED
    BY <1>1, Invariance, PTL

\* An amount the OCR wrote on an expense was read from a receipt this expense
\* carries or carried (internal/expense/repository.go UpdateAmountByReceiptID).
THEOREM OcrAmountIsExtractedAlways == Spec => []OcrAmountIsExtracted
<1>1. IInv => OcrAmountIsExtracted
    BY DEF IInv, ExpensesOK, Stored, OcrAmountIsExtracted
<1>2. QED
    BY <1>1, Invariance, PTL

-----------------------------------------------------------------------------
(* Workers that share no receipt.  Nobody else takes what a worker holds: a *)
(* batch stays pending and the receipt in hand stays as the worker left it. *)
(* A single worker shares none; two workers do when a poll comes between    *)
(* another poll and the end of its batch.                                  *)

NoneShared == \A v, w \in Workers : v # w => Held(v) \cap Held(w) \subseteq {None}

AllAlone == \A w \in Workers : AloneOK(w)

LEMMA AloneInit == Init => AllAlone
BY PollingIsIdle DEF Init, AllAlone, AloneOK

\* A step of worker w, or of the bot.
LEMMA ActorStaysAlone ==
    ASSUME NEW w \in Workers, IInv, AloneOK(w),
           \/ WorkerStep(w) \/ WorkerFails(w)
           \/ BotStep \/ SetNotify \/ Restart \/ UNCHANGED vars
    PROVE  (AloneOK(w))'
<1>1. TablesTyped /\ Typed
    BY DEF IInv, TypeOK, TablesTyped, Typed
<1>2. CASE UNCHANGED <<ocr_status, ocr_raw, worker>>
    BY <1>2 DEF AloneOK
<1>3. ASSUME NEW r \in Receipts, CreateReceipt(r)
      PROVE  (AloneOK(w))'
    <2>1. ocr_status[r] = "absent" /\ ocr_raw[r] = None
        BY <1>3 DEF CreateReceipt, IInv, ReceiptsOK, ReceiptOK
    <2>2. worker' = worker /\ ocr_raw' = ocr_raw
        BY <1>3 DEF CreateReceipt
    <2>3. \A q \in Receipts \ {r} : ocr_status'[q] = ocr_status[q]
        BY <1>1, <1>3 DEF CreateReceipt, TablesTyped
    <2>4. worker[w].batch \subseteq Receipts
        BY <1>1 DEF Typed, Worker
    <2>5. worker[w].step \in {"extract", "fields", "done", "failed"} => worker[w].r \in Receipts
        BY InHand
    <2>6. QED
        BY <2>1, <2>2, <2>3, <2>4, <2>5 DEF AloneOK
<1>4. CASE Restart
    BY <1>4, PollingIsIdle DEF Restart, AloneOK, tables
<1>5. ASSUME UNCHANGED <<ocr_status, ocr_raw>>, NEW s \in Steps, Goto(w, s),
             s \notin {"extract", "fields", "done", "failed"}
      PROVE  (AloneOK(w))'
    <2>1. worker'[w].step = s /\ worker'[w].batch = worker[w].batch
        BY <1>1, <1>5, GotoMoves
    <2>2. QED
        BY <1>5, <2>1 DEF AloneOK
<1>6. CASE WorkerStep(w)
    <2>1. worker[w] \in Worker
        BY <1>1 DEF Typed
    <2>2. CASE PollNothing(w)
        BY <1>2, <2>2 DEF PollNothing, vars, tables
    <2>3. CASE Poll(w)
        <3> DEFINE v == [worker[w] EXCEPT !.step = "locked", !.batch = ListPendingOCR]
        <3>1. v \in Worker
            BY <2>1 DEF Worker, Steps, ListPendingOCR, Pending
        <3>2. worker' = [worker EXCEPT ![w] = v] /\ UNCHANGED tables
            BY <2>3 DEF Poll
        <3>3. worker'[w] = v
            BY <1>1, <3>1, <3>2, WorkerMoves
        <3>4. v.step = "locked" /\ v.batch = ListPendingOCR
            BY <2>1 DEF Worker
        <3>5. \A r \in ListPendingOCR : ocr_status[r] = "pending"
            BY DEF ListPendingOCR, Pending
        <3>6. QED
            BY <3>2, <3>3, <3>4, <3>5 DEF AloneOK, tables
    <2>4. CASE Unlock(w)
        BY <1>5, <2>4 DEF Unlock, tables, Steps
    <2>5. CASE Take(w)
        <3> DEFINE r == Oldest(worker[w].batch)
        <3> DEFINE v == [worker[w] EXCEPT !.step = "extract", !.r = r,
                                          !.batch = worker[w].batch \ {r}]
        <3>1. r \in Receipts /\ r \in worker[w].batch
            BY <2>5, NextReceipt DEF IInv, Take
        <3>2. worker' = [worker EXCEPT ![w] = v] /\ ocr_raw' = ocr_raw
              /\ ocr_status' = [ocr_status EXCEPT ![r] = "processing"]
            BY <2>5 DEF Take
        <3> HIDE DEF r
        <3>3. v \in Worker
            BY <2>1, <3>1 DEF Worker, Steps
        <3>4. worker'[w] = v
            BY <1>1, <3>2, <3>3, WorkerMoves
        <3>5. v.step = "extract" /\ v.r = r /\ v.batch = worker[w].batch \ {r}
            BY <2>1 DEF Worker
        <3>6. ocr_raw[r] = None /\ ocr_status'[r] = "processing"
            BY <1>1, <3>1, <3>2 DEF AloneOK, TablesTyped
        <3>7. \A q \in Receipts \ {r} : ocr_status'[q] = ocr_status[q]
            BY <1>1, <3>2 DEF TablesTyped
        <3>8. worker[w].batch \subseteq Receipts
            BY <2>1 DEF Worker
        <3> HIDE DEF v
        <3>9. QED
            BY <3>1, <3>2, <3>4, <3>5, <3>6, <3>7, <3>8 DEF AloneOK
    <2>6. CASE Extract(w)
        <3>1. worker'[w].step = "fields" /\ worker'[w].batch = worker[w].batch
              /\ worker'[w].r = worker[w].r
            BY <1>1, <2>6, GotoMoves DEF Extract, Steps
        <3>2. QED
            BY <2>6, <3>1 DEF Extract, At, tables, AloneOK
    <2>7. CASE UpdateOCRFields(w)
        <3>1. worker[w].r \in Receipts
            BY <2>7, InHand DEF UpdateOCRFields, At
        <3>2. worker'[w].step = "done" /\ worker'[w].batch = worker[w].batch
              /\ worker'[w].r = worker[w].r
            BY <1>1, <2>7, GotoMoves DEF UpdateOCRFields, Steps
        <3>3. QED
            BY <1>1, <2>7, <3>1, <3>2 DEF UpdateOCRFields, At, TablesTyped, AloneOK
    <2>8. CASE SetDone(w)
        <3>1. worker[w].r \in Receipts /\ ocr_status[worker[w].r] = "processing"
            BY <2>8, InHand DEF SetDone, At, AloneOK
        <3>2. worker'[w].step \in {"lookup", "notify_ok"}
              /\ worker'[w].batch = worker[w].batch
            BY <1>1, <2>8, GotoMoves DEF SetDone, AfterDone, Steps
        <3>3. worker[w].batch \subseteq Receipts
            BY <2>1 DEF Worker
        <3>4. QED
            BY <1>1, <2>8, <3>1, <3>2, <3>3 DEF SetDone, TablesTyped, AloneOK
    <2>9. CASE GetByReceiptID(w)
        <3>1. CASE Goto(w, "notify_ok")
            BY <1>5, <2>9, <3>1 DEF GetByReceiptID, tables, Steps
        <3>2. ASSUME NEW e \in Expenses,
                     worker' = [worker EXCEPT ![w].step = "amount", ![w].exp = e]
              PROVE  (AloneOK(w))'
            <4>1. worker'[w] = [worker[w] EXCEPT !.step = "amount", !.exp = e]
                BY <1>1, <3>2 DEF Typed
            <4>2. worker'[w].step = "amount" /\ worker'[w].batch = worker[w].batch
                BY <2>1, <4>1 DEF Worker
            <4>3. QED
                BY <2>9, <4>2 DEF GetByReceiptID, tables, AloneOK
        <3>3. QED
            BY <2>9, <3>1, <3>2 DEF GetByReceiptID
    <2>10. CASE UpdateAmount(w)
        BY <1>5, <2>10 DEF UpdateAmount, Steps
    <2>11. CASE SetFailed(w)
        <3>1. worker[w].r \in Receipts /\ ocr_status[worker[w].r] = "processing"
            BY <2>11, InHand DEF SetFailed, At, AloneOK
        <3>2. worker'[w].step = "notify_failed" /\ worker'[w].batch = worker[w].batch
            BY <1>1, <2>11, GotoMoves DEF SetFailed, Steps
        <3>3. worker[w].batch \subseteq Receipts
            BY <2>1 DEF Worker
        <3>4. QED
            BY <1>1, <2>11, <3>1, <3>2, <3>3 DEF SetFailed, TablesTyped, AloneOK
    <2>12. CASE SendNotify(w)
        <3>1. worker'[w].step \in {"poll", "next"} /\ worker'[w].batch = worker[w].batch
            BY <1>1, <2>12, FinishedMoves DEF SendNotify
        <3>2. QED
            BY <2>12, <3>1 DEF SendNotify, tables, AloneOK
    <2>13. QED
        BY <1>6, <2>2, <2>3, <2>4, <2>5, <2>6, <2>7, <2>8, <2>9, <2>10, <2>11, <2>12
            DEF WorkerStep
<1>7. CASE WorkerFails(w)
    <2>1. worker[w] \in Worker
        BY <1>1 DEF Typed
    <2>2. UNCHANGED <<ocr_status, ocr_raw>>
        BY <1>7 DEF WorkerFails, TakeFails, ExtractFails, SettleFails, AmountFails, Panic, tables
    <2>3. CASE TakeFails(w)
        <3> DEFINE rest == worker[w].batch \ {Oldest(worker[w].batch)}
        <3> DEFINE v == IF rest = {} THEN Polling ELSE [worker[w] EXCEPT !.batch = rest]
        <3>1. worker[w].step = "next" /\ worker' = [worker EXCEPT ![w] = v]
            BY <2>3 DEF TakeFails, At
        <3>2. rest \subseteq worker[w].batch
            OBVIOUS
        <3> HIDE DEF rest
        <3>3. v.step \in {"poll", "next"} /\ v.batch \subseteq worker[w].batch
            BY <2>1, <3>1, <3>2, PollingIsIdle DEF Worker
        <3>4. worker'[w] = v
            BY <1>1, <3>1 DEF Typed
        <3> HIDE DEF v
        <3>5. QED
            BY <2>2, <3>3, <3>4 DEF AloneOK
    <2>4. CASE ExtractFails(w)
        <3>1. worker'[w].step = "failed" /\ worker'[w].batch = worker[w].batch
              /\ worker'[w].r = worker[w].r
            BY <1>1, <2>4, GotoMoves DEF ExtractFails, Steps
        <3>2. QED
            BY <2>2, <2>4, <3>1 DEF ExtractFails, At, AloneOK
    <2>5. CASE SettleFails(w)
        BY <1>5, <2>2, <2>5 DEF SettleFails, AfterDone, Steps
    <2>6. CASE AmountFails(w)
        BY <1>5, <2>2, <2>6 DEF AmountFails, Steps
    <2>7. CASE Panic(w)
        <3>1. worker'[w] = Polling
            BY <1>1, <2>7 DEF Panic, Typed
        <3>2. QED
            BY <2>2, <3>1, PollingIsIdle DEF AloneOK
    <2>8. QED
        BY <1>7, <2>3, <2>4, <2>5, <2>6, <2>7 DEF WorkerFails
<1>8. CASE UNCHANGED vars \/ SetNotify
    BY <1>2, <1>8 DEF vars, tables, SetNotify
<1>9. CASE BotStep
    BY <1>2, <1>3, <1>9 DEF BotStep, CreateExpense, RelinkExpense, Link, DriverSetsAmount
<1>10. QED
    BY <1>4, <1>6, <1>7, <1>8, <1>9

\* A worker changes the row of a receipt it holds only, and no other worker.
LEMMA TouchesItsOwn ==
    ASSUME NEW w \in Workers, IInv, WorkerStep(w) \/ WorkerFails(w)
    PROVE  /\ \A u \in Workers \ {w} : worker'[u] = worker[u]
           /\ \A r \in Receipts \ Held(w) :
                 ocr_status'[r] = ocr_status[r] /\ ocr_raw'[r] = ocr_raw[r]
<1>1. TablesTyped /\ Typed
    BY DEF IInv, TypeOK, TablesTyped, Typed
<1>2. \A u \in Workers \ {w} : worker'[u] = worker[u]
    BY <1>1 DEF Typed, WorkerStep, WorkerFails, PollNothing, Poll, Unlock, Take, Extract,
        UpdateOCRFields, SetDone, GetByReceiptID, UpdateAmount, SetFailed, SendNotify,
        TakeFails, ExtractFails, SettleFails, AmountFails, Panic, AfterDone, Goto, Finished, vars
<1>3. CASE Take(w)
    <2>1. Oldest(worker[w].batch) \in Held(w)
        BY <1>3, NextReceipt DEF IInv, Take, Held
    <2>2. QED
        BY <1>1, <1>2, <1>3, <2>1 DEF Take, TablesTyped
<1>4. CASE UpdateOCRFields(w) \/ SetDone(w) \/ SetFailed(w)
    BY <1>1, <1>2, <1>4 DEF UpdateOCRFields, SetDone, SetFailed, TablesTyped, Held
<1>5. \/ Take(w) \/ UpdateOCRFields(w) \/ SetDone(w) \/ SetFailed(w)
      \/ UNCHANGED <<ocr_status, ocr_raw>>
    BY DEF WorkerStep, WorkerFails, PollNothing, Poll, Unlock, Extract, GetByReceiptID,
        UpdateAmount, SendNotify, TakeFails, ExtractFails, SettleFails, AmountFails, Panic,
        tables, vars
<1>6. QED
    BY <1>2, <1>3, <1>4, <1>5

LEMMA AloneStep ==
    ASSUME IInv, AllAlone, NoneShared, [Next]_vars
    PROVE  AllAlone'
<1>1. CASE BotStep \/ SetNotify \/ Restart \/ UNCHANGED vars
    BY <1>1, ActorStaysAlone DEF AllAlone
<1>2. ASSUME NEW w \in Workers, WorkerStep(w) \/ WorkerFails(w), NEW u \in Workers
      PROVE  (AloneOK(u))'
    <2>1. (AloneOK(w))'
        BY <1>2, ActorStaysAlone DEF AllAlone
    <2>2. CASE u # w
        <3>1. worker'[u] = worker[u] /\ AloneOK(u)
            BY <1>2, <2>2, TouchesItsOwn DEF AllAlone
        <3>2. \A r \in Receipts : r \in Held(u) =>
                  ocr_status'[r] = ocr_status[r] /\ ocr_raw'[r] = ocr_raw[r]
            BY <1>2, <2>2, TouchesItsOwn, NoneAssumption DEF NoneShared
        <3>3. worker[u].batch \subseteq Receipts
            BY DEF IInv, TypeOK, Worker
        <3>4. worker[u].step \in {"extract", "fields", "done", "failed"} =>
                  worker[u].r \in Receipts
            BY InHand
        <3>5. QED
            BY <2>1, <3>1, <3>2, <3>3, <3>4 DEF AloneOK, Held
    <2>3. QED
        BY <2>1, <2>2
<1>3. QED
    BY <1>1, <1>2 DEF Next, AllAlone

\* Every statement that writes ocr_status follows the lifecycle.
LEMMA LifecycleStep ==
    ASSUME IInv, AllAlone, [Next]_vars
    PROVE  [Lifecycle!ONext]_ocr_status
<1> USE DEF Lifecycle!ONext, Lifecycle!Insert, Lifecycle!Take, Lifecycle!Settle,
            Lifecycle!Becomes, Lifecycle!NotCreated
<1>1. ASSUME NEW r \in Receipts, CreateReceipt(r)
      PROVE  Lifecycle!ONext
    BY <1>1 DEF CreateReceipt
<1>2. ASSUME NEW w \in Workers, Take(w)
      PROVE  Lifecycle!ONext
    <2>1. Oldest(worker[w].batch) \in Receipts
          /\ Oldest(worker[w].batch) \in worker[w].batch
        BY <1>2, NextReceipt DEF IInv, Take
    <2>2. ocr_status[Oldest(worker[w].batch)] = "pending"
        BY <2>1 DEF AllAlone, AloneOK
    <2>3. QED
        BY <1>2, <2>1, <2>2 DEF Take
<1>3. ASSUME NEW w \in Workers, SetDone(w)
      PROVE  Lifecycle!ONext
    <2>1. worker[w].r \in Receipts /\ ocr_status[worker[w].r] = "processing"
        BY <1>3, InHand DEF SetDone, At, AllAlone, AloneOK
    <2>2. QED
        BY <1>3, <2>1 DEF SetDone
<1>4. ASSUME NEW w \in Workers, SetFailed(w)
      PROVE  Lifecycle!ONext
    <2>1. worker[w].r \in Receipts /\ ocr_status[worker[w].r] = "processing"
        BY <1>4, InHand DEF SetFailed, At, AllAlone, AloneOK
    <2>2. QED
        BY <1>4, <2>1 DEF SetFailed
<1>5. \/ UNCHANGED ocr_status \/ \E r \in Receipts : CreateReceipt(r)
      \/ \E w \in Workers : Take(w) \/ SetDone(w) \/ SetFailed(w)
    BY TablesStep DEF TableStep, CreateExpense, RelinkExpense, Link, DriverSetsAmount,
        UpdateOCRFields, UpdateAmount, SendNotify, tables
<1>6. QED
    BY <1>1, <1>2, <1>3, <1>4, <1>5

\* No statement replaces a result that was stored.
LEMMA ImmutableStep ==
    ASSUME IInv, AllAlone, [Next]_vars,
           NEW r \in Receipts, ocr_raw[r] = "result"
    PROVE  ocr_raw'[r] = "result" /\ extracted'[r] = extracted[r]
<1>1. TablesTyped /\ extracted[r] = Total(r)
    BY DEF IInv, TypeOK, TablesTyped, ReceiptsOK, ReceiptOK
<1>2. ASSUME NEW w \in Workers, UpdateOCRFields(w)
      PROVE  ocr_raw'[r] = "result" /\ extracted'[r] = extracted[r]
    BY <1>1, <1>2 DEF UpdateOCRFields, TablesTyped, Total
<1>3. ASSUME NEW w \in Workers, SetDone(w)
      PROVE  ocr_raw'[r] = "result" /\ extracted'[r] = extracted[r]
    BY <1>1, <1>3 DEF SetDone, TablesTyped
<1>4. ASSUME NEW w \in Workers, SetFailed(w)
      PROVE  ocr_raw'[r] = "result" /\ extracted'[r] = extracted[r]
    <2>1. worker[w].r # r
        BY <1>4, NoneAssumption DEF SetFailed, At, AllAlone, AloneOK
    <2>2. QED
        BY <1>1, <1>4, <2>1 DEF SetFailed, TablesTyped
<1>5. \/ UNCHANGED <<extracted, ocr_raw>>
      \/ \E w \in Workers : UpdateOCRFields(w) \/ SetDone(w) \/ SetFailed(w)
    BY TablesStep DEF TableStep, CreateReceipt, CreateExpense, RelinkExpense, Link,
        DriverSetsAmount, Take, UpdateAmount, SendNotify, tables
<1>6. QED
    BY <1>2, <1>3, <1>4, <1>5

\* Every photo receipt is taken once and settles as the abstract lifecycle says,
\* with any number of workers, for as long as none of them poll the same receipt:
\* failures, panics and restarts alone never break it
\* (internal/receipt/processor.go Process, repository.go ListPendingOCR).
THEOREM UnsharedImplementsLifecycle == Spec /\ []NoneShared => ImplementsLifecycle
<1>1. Init => Lifecycle!OInit
    BY DEF Init, Lifecycle!OInit, Lifecycle!NotCreated
<1>2. IInv /\ AllAlone /\ [Next]_vars => [Lifecycle!ONext]_ocr_status
    BY LifecycleStep
<1>3. IInv /\ AllAlone /\ NoneShared /\ [Next]_vars => AllAlone'
    BY AloneStep
<1>4. QED
    BY <1>1, <1>2, <1>3, AloneInit, Invariance, PTL
        DEF Spec, ImplementsLifecycle, Lifecycle!OSpec

\* What the OCR stored of a receipt is never replaced, with any number of workers,
\* for as long as none of them poll the same receipt (spec.md REQ-OCR-05).
THEOREM UnsharedKeepsResults == Spec /\ []NoneShared => OcrDataIsImmutable
<1>1. IInv /\ AllAlone /\ [Next]_vars =>
          [\A r \in Receipts : ocr_raw[r] = "result" =>
               ocr_raw'[r] = "result" /\ extracted'[r] = extracted[r]]_vars
    BY ImmutableStep
<1>2. IInv /\ AllAlone /\ NoneShared /\ [Next]_vars => AllAlone'
    BY AloneStep
<1>3. QED
    BY <1>1, <1>2, AloneInit, Invariance, PTL DEF Spec, OcrDataIsImmutable

\* A single worker shares no receipt.
LEMMA OneSharesNone ==
    ASSUME NEW w \in Workers, Workers = {w}
    PROVE  NoneShared
BY DEF NoneShared

\* A pool of one worker: ocr_status follows the abstract lifecycle, through
\* failures, panics and restarts (internal/receipt/processor.go Process).
THEOREM OneWorkerImplementsLifecycle ==
    ASSUME NEW w \in Workers, Workers = {w}
    PROVE  Spec => ImplementsLifecycle
<1>1. NoneShared
    BY OneSharesNone
<1>2. QED
    BY <1>1, UnsharedImplementsLifecycle, PTL

\* A pool of one worker: what the OCR stored of a receipt is never replaced
\* (spec.md REQ-OCR-05).
THEOREM OneWorkerKeepsResults ==
    ASSUME NEW w \in Workers, Workers = {w}
    PROVE  Spec => OcrDataIsImmutable
<1>1. NoneShared
    BY OneSharesNone
<1>2. QED
    BY <1>1, UnsharedKeepsResults, PTL

-----------------------------------------------------------------------------
(* A total that an expense waits for arrives.  A receipt is linked once, a  *)
(* pending one has not been looked at, and from then on every worker on it  *)
(* passes the amount before the notice.                                     *)

\* Worker w is processing receipt r.
Busy(w, r) == worker[w].step \notin {"poll", "locked", "next"} /\ worker[w].r = r

\* A handler links the receipt it inserted to one expense, once.
LinkedOnce ==
    \A r \in Receipts :
        /\ ocr_status[r] = "absent" => r \notin handling
        /\ ocr_status[r] = "absent" \/ r \in handling => \A e \in Expenses : r \notin carried[e]
        /\ \A e, f \in Expenses : r \in carried[e] /\ r \in carried[f] => e = f

\* What is pending was not looked at, and nobody was told of it.
PendingUntouched ==
    \A r \in Receipts : ocr_status[r] = "pending" =>
        notified[r] = {} /\ \A w \in Workers : ~Busy(w, r)

TotalInv == IInv /\ LinkedOnce /\ PendingUntouched

\* Expense e has the total of receipt r, or whoever is on it will write it first.
OnItsWay(e, r) ==
    /\ expenses[e] # None /\ r \in carried[e]
    /\ \/ expenses[e].receipt # r \/ expenses[e].amount # None \/ faults # 0
       \/ /\ "ok" \notin notified[r]
          /\ \A w \in Workers : Busy(w, r) =>
                /\ worker[w].step # "notify_ok"
                /\ worker[w].step = "amount" => worker[w].exp = e

\* How a worker comes to be where it is with receipt r.
LEMMA BusyStep ==
    ASSUME IInv, [Next]_vars, NEW w \in Workers, NEW r \in Receipts, (Busy(w, r))'
    PROVE  \/ worker'[w] = worker[w]
           \/ worker'[w].step = "extract" /\ Take(w) /\ r = Oldest(worker[w].batch)
           \/ /\ Busy(w, r)
              /\ \/ worker'[w].step \notin {"extract", "amount", "notify_ok"}
                 \/ worker'[w].step = "notify_ok" /\ Reading[r] \notin Amounts
                 \/ /\ worker'[w].step = "notify_ok" /\ worker[w].step = "lookup"
                    /\ \A e \in Expenses : ~Carries(e, r)
                 \/ /\ worker'[w].step = "amount"
                    /\ worker'[w].exp \in Expenses /\ Carries(worker'[w].exp, r)
                 \/ worker[w].step = "amount" /\ UpdateAmount(w)
                 \/ faults' = faults + 1
<1>1. Typed /\ worker[w] \in Worker
    BY DEF IInv, TypeOK, Typed
<1>2. CASE BotStep \/ SetNotify \/ UNCHANGED vars
    BY <1>2 DEF BotStep, CreateReceipt, CreateExpense, RelinkExpense, Link, DriverSetsAmount,
        SetNotify, vars
<1>3. CASE Restart
    BY <1>3, PollingIsIdle DEF Restart, Busy
<1>4. ASSUME NEW v \in Workers \ {w}, WorkerStep(v) \/ WorkerFails(v)
      PROVE  worker'[w] = worker[w]
    BY <1>4, TouchesItsOwn
<1>5. ASSUME NEW s \in Steps, Goto(w, s), worker[w].step \notin {"poll", "locked", "next"}
      PROVE  Busy(w, r) /\ worker'[w].step = s
    BY <1>1, <1>5, GotoMoves DEF Busy
<1>6. CASE WorkerStep(w)
    <2>1. CASE PollNothing(w)
        BY <2>1 DEF PollNothing, vars
    <2>2. CASE Poll(w)
        <3>1. worker'[w].step = "locked"
            BY <1>1, <2>2 DEF Poll, Typed, Worker
        <3>2. QED
            BY <3>1 DEF Busy
    <2>3. CASE Unlock(w)
        <3>1. worker'[w].step = "next"
            BY <1>1, <2>3, GotoMoves DEF Unlock, Steps
        <3>2. QED
            BY <3>1 DEF Busy
    <2>4. CASE Take(w)
        <3>1. worker'[w].step = "extract" /\ worker'[w].r = Oldest(worker[w].batch)
            BY <1>1, <2>4 DEF Take, Typed, Worker
        <3>2. QED
            BY <2>4, <3>1 DEF Busy
    <2>5. CASE Extract(w)
        BY <1>5, <2>5 DEF Extract, At, Steps
    <2>6. CASE UpdateOCRFields(w)
        BY <1>5, <2>6 DEF UpdateOCRFields, At, Steps
    <2>7. CASE SetDone(w)
        <3>1. CASE Reading[worker[w].r] \in Amounts
            BY <1>5, <2>7, <3>1 DEF SetDone, AfterDone, At, Steps
        <3>2. CASE Reading[worker[w].r] \notin Amounts
            BY <1>5, <2>7, <3>2 DEF SetDone, AfterDone, At, Steps, Busy
        <3>3. QED
            BY <3>1, <3>2
    <2>8. CASE GetByReceiptID(w)
        <3>1. CASE Goto(w, "notify_ok") /\ \A e \in Expenses : ~Carries(e, worker[w].r)
            BY <1>5, <2>8, <3>1 DEF GetByReceiptID, At, Steps, Busy
        <3>2. ASSUME NEW e \in Expenses, Carries(e, worker[w].r),
                     worker' = [worker EXCEPT ![w].step = "amount", ![w].exp = e]
              PROVE  /\ Busy(w, r)
                     /\ worker'[w].step = "amount"
                     /\ worker'[w].exp \in Expenses /\ Carries(worker'[w].exp, r)
            <4>1. worker'[w].step = "amount" /\ worker'[w].exp = e /\ worker'[w].r = worker[w].r
                BY <1>1, <3>2 DEF Typed, Worker
            <4>2. QED
                BY <2>8, <3>2, <4>1 DEF Busy, GetByReceiptID, At
        <3>3. QED
            BY <2>8, <3>1, <3>2 DEF GetByReceiptID, Carries
    <2>9. CASE UpdateAmount(w)
        BY <1>5, <2>9 DEF UpdateAmount, At, Steps
    <2>10. CASE SetFailed(w)
        BY <1>5, <2>10 DEF SetFailed, At, Steps
    <2>11. CASE SendNotify(w)
        <3>1. worker'[w].step \in {"poll", "next"}
            BY <1>1, <2>11, FinishedMoves DEF SendNotify
        <3>2. QED
            BY <3>1 DEF Busy
    <2>12. QED
        BY <1>6, <2>1, <2>2, <2>3, <2>4, <2>5, <2>6, <2>7, <2>8, <2>9, <2>10, <2>11
            DEF WorkerStep
<1>7. CASE WorkerFails(w)
    <2>1. CASE TakeFails(w)
        <3>1. worker'[w].step \in {"poll", "next"}
            BY <1>1, <2>1, PollingIsIdle DEF TakeFails, At, Typed, Worker
        <3>2. QED
            BY <3>1 DEF Busy
    <2>2. CASE Panic(w)
        <3>1. worker'[w] = Polling
            BY <1>1, <2>2 DEF Panic, Typed
        <3>2. QED
            BY <3>1, PollingIsIdle DEF Busy
    <2>3. CASE ExtractFails(w)
        BY <1>5, <2>3 DEF ExtractFails, At, Steps
    <2>4. CASE SettleFails(w)
        BY <1>5, <2>4 DEF SettleFails, AfterDone, Fault, At, Steps
    <2>5. CASE AmountFails(w)
        BY <1>5, <2>5 DEF AmountFails, Fault, At, Steps
    <2>6. QED
        BY <1>7, <2>1, <2>2, <2>3, <2>4, <2>5 DEF WorkerFails
<1>8. QED
    BY <1>2, <1>3, <1>4, <1>6, <1>7 DEF Next

LEMMA LinkedOnceStep ==
    ASSUME IInv, LinkedOnce, [Next]_vars
    PROVE  LinkedOnce'
<1>1. TablesTyped /\ handling \subseteq Receipts
    BY DEF IInv, TypeOK, TablesTyped
<1>2. ASSUME NEW r \in Receipts, CreateReceipt(r)
      PROVE  LinkedOnce'
    BY <1>1, <1>2 DEF CreateReceipt, LinkedOnce, TablesTyped
<1>3. ASSUME NEW e \in Expenses, NEW r \in Receipts, CreateExpense(e, r) \/ RelinkExpense(e, r)
      PROVE  LinkedOnce'
    BY <1>1, <1>3 DEF CreateExpense, RelinkExpense, Link, LinkedOnce, TablesTyped
<1>4. ASSUME NEW w \in Workers, WorkerStep(w) \/ WorkerFails(w)
      PROVE  LinkedOnce'
    <2>1. UNCHANGED <<carried, handling>>
        BY <1>4 DEF WorkerStep, WorkerFails, PollNothing, Poll, Unlock, Take, Extract,
            UpdateOCRFields, SetDone, GetByReceiptID, UpdateAmount, SetFailed, SendNotify,
            TakeFails, ExtractFails, SettleFails, AmountFails, Panic, tables, vars
    <2>2. \A r \in Receipts : ocr_status'[r] = "absent" => ocr_status[r] = "absent"
        <3>1. CASE Take(w)
            BY <1>1, <3>1, NextReceipt DEF IInv, Take, TablesTyped
        <3>2. CASE SetDone(w) \/ SetFailed(w)
            BY <1>1, <3>2 DEF SetDone, SetFailed, TablesTyped
        <3>3. Take(w) \/ SetDone(w) \/ SetFailed(w) \/ UNCHANGED ocr_status
            BY <1>4 DEF WorkerStep, WorkerFails, PollNothing, Poll, Unlock, Extract,
                UpdateOCRFields, GetByReceiptID, UpdateAmount, SendNotify,
                TakeFails, ExtractFails, SettleFails, AmountFails, Panic, tables, vars
        <3>4. QED
            BY <3>1, <3>2, <3>3
    <2>3. QED
        BY <2>1, <2>2 DEF LinkedOnce
<1>5. CASE Restart
    BY <1>5 DEF Restart, tables, LinkedOnce
<1>6. CASE UNCHANGED <<ocr_status, carried, handling>>
    BY <1>6 DEF LinkedOnce
<1>7. CASE BotStep
    BY <1>2, <1>3, <1>6, <1>7 DEF BotStep, DriverSetsAmount
<1>8. QED
    BY <1>4, <1>5, <1>6, <1>7, <1>2, <1>3 DEF Next, SetNotify, tables, vars

\* A notice is about the receipt a worker is processing.
LEMMA NotifiedStep ==
    ASSUME IInv, [Next]_vars, NEW r \in Receipts
    PROVE  \/ notified'[r] = notified[r]
           \/ \E w \in Workers : /\ Busy(w, r) /\ SendNotify(w)
                                 /\ "ok" \in notified'[r] =>
                                       worker[w].step = "notify_ok" \/ "ok" \in notified[r]
<1>1. CASE UNCHANGED notified
    BY <1>1
<1>2. ASSUME NEW w \in Workers, SendNotify(w), notified'[r] # notified[r]
      PROVE  /\ Busy(w, r)
             /\ "ok" \in notified'[r] => worker[w].step = "notify_ok" \/ "ok" \in notified[r]
    <2>1. notified \in [Receipts -> SUBSET {"ok", "failed"}]
        BY DEF IInv, TypeOK
    <2>2. worker[w].step \in {"notify_ok", "notify_failed"}
        BY <1>2 DEF SendNotify, At
    <2>3. worker[w].r = r
        BY <1>2, <2>1 DEF SendNotify
    <2>4. "ok" \in notified'[r] => worker[w].step = "notify_ok" \/ "ok" \in notified[r]
        BY <1>2, <2>1, <2>3 DEF SendNotify, At
    <2>5. QED
        BY <2>2, <2>3, <2>4 DEF Busy
<1>3. UNCHANGED notified \/ \E w \in Workers : SendNotify(w)
    BY TablesStep DEF TableStep, CreateReceipt, CreateExpense, RelinkExpense, Link,
        DriverSetsAmount, Take, UpdateOCRFields, SetDone, UpdateAmount, SetFailed
<1>4. QED
    BY <1>1, <1>2, <1>3

LEMMA PendingUntouchedStep ==
    ASSUME IInv, PendingUntouched, [Next]_vars
    PROVE  PendingUntouched'
<1>1. SUFFICES ASSUME NEW r \in Receipts, ocr_status'[r] = "pending"
               PROVE  notified'[r] = {} /\ \A w \in Workers : ~(Busy(w, r))'
    BY DEF PendingUntouched
<1>2. TablesTyped
    BY DEF IInv, TypeOK, TablesTyped
<1>3. /\ notified[r] = {}
      /\ \A w \in Workers : ~Busy(w, r)
    <2>1. CASE ocr_status[r] = "pending"
        BY <2>1 DEF PendingUntouched
    <2>2. CASE ocr_status[r] # "pending"
        <3>1. ocr_status[r] = "absent"
            <4>1. CASE UNCHANGED ocr_status
                BY <1>1, <2>2, <4>1
            <4>2. ASSUME NEW q \in Receipts, CreateReceipt(q)
                  PROVE  ocr_status[r] = "absent"
                BY <1>1, <1>2, <2>2, <4>2 DEF CreateReceipt, TablesTyped
            <4>3. ASSUME NEW w \in Workers, Take(w) \/ SetDone(w) \/ SetFailed(w)
                  PROVE  ocr_status[r] = "absent"
                BY <1>1, <1>2, <2>2, <4>3 DEF Take, SetDone, SetFailed, TablesTyped
            <4>4. \/ UNCHANGED ocr_status \/ \E q \in Receipts : CreateReceipt(q)
                  \/ \E w \in Workers : Take(w) \/ SetDone(w) \/ SetFailed(w)
                BY TablesStep DEF TableStep, CreateExpense, RelinkExpense, Link,
                    DriverSetsAmount, UpdateOCRFields, UpdateAmount, SendNotify, tables
            <4>5. QED
                BY <4>1, <4>2, <4>3, <4>4
        <3>2. \A w \in Workers : ~Busy(w, r)
            BY <3>1, InHand DEF Busy
        <3>3. QED
            BY <3>1, <3>2 DEF IInv, ReceiptsOK, ReceiptOK
    <2>3. QED
        BY <2>1, <2>2
<1>4. notified'[r] = {}
    BY <1>3, NotifiedStep
<1>5. ASSUME NEW w \in Workers, (Busy(w, r))'
      PROVE  FALSE
    <2>1. ~(worker'[w] = worker[w])
        BY <1>3, <1>5 DEF Busy
    <2>2. Take(w) /\ r = Oldest(worker[w].batch)
        BY <1>3, <1>5, <2>1, BusyStep
    <2>3. ocr_status'[r] = "processing"
        BY <1>2, <2>2 DEF Take, TablesTyped
    <2>4. QED
        BY <1>1, <2>3
<1>6. QED
    BY <1>4, <1>5

\* An amount, a link and a count of faults that are there stay there.
LEMMA RowStays ==
    ASSUME TotalInv, [Next]_vars, NEW e \in Expenses, NEW r \in Receipts,
           expenses[e] # None, r \in carried[e]
    PROVE  /\ expenses[e].receipt # r => expenses'[e].receipt # r
           /\ expenses[e].amount # None => expenses'[e].amount # None
           /\ faults # 0 => faults' # 0
<1>1. TablesTyped /\ expenses[e] \in Expense /\ r \notin handling
    BY DEF TotalInv, IInv, TypeOK, TablesTyped, LinkedOnce
<1>2. faults # 0 => faults' # 0
    <2>1. faults \in Nat
        BY CountsAssumption DEF TotalInv, IInv, TypeOK
    <2>2. faults' = faults \/ faults' = faults + 1
        BY DEF Next, BotStep, CreateReceipt, CreateExpense, RelinkExpense, Link,
            DriverSetsAmount, SetNotify, Restart, WorkerStep, WorkerFails, PollNothing, Poll,
            Unlock, Take, Extract, UpdateOCRFields, SetDone, GetByReceiptID, UpdateAmount,
            SetFailed, SendNotify, TakeFails, ExtractFails, SettleFails, AmountFails, Panic,
            Fault, vars
    <2>3. QED
        BY <2>1, <2>2
<1>3. CASE UNCHANGED expenses
    BY <1>2, <1>3
<1>4. ASSUME NEW f \in Expenses, NEW q \in Receipts, CreateExpense(f, q)
      PROVE  expenses'[e] = expenses[e]
    BY <1>1, <1>4 DEF CreateExpense, TablesTyped
<1>5. ASSUME NEW f \in Expenses, NEW q \in Receipts, RelinkExpense(f, q)
      PROVE  /\ expenses[e].receipt # r => expenses'[e].receipt # r
             /\ expenses'[e].amount = expenses[e].amount
    BY <1>1, <1>5 DEF RelinkExpense, TablesTyped, Expense
<1>6. ASSUME NEW f \in Expenses, NEW a \in Amounts, DriverSetsAmount(f, a)
      PROVE  /\ expenses'[e].receipt = expenses[e].receipt
             /\ expenses[e].amount # None => expenses'[e].amount # None
    BY <1>1, <1>6, NoneAssumption DEF DriverSetsAmount, TablesTyped, Expense
<1>7. ASSUME NEW w \in Workers, UpdateAmount(w)
      PROVE  /\ expenses'[e].receipt = expenses[e].receipt
             /\ expenses[e].amount # None => expenses'[e].amount # None
    <2>1. worker[w].exp \in Expenses /\ Reading[worker[w].r] \in Amounts
        BY <1>7, Aimed DEF UpdateAmount, TotalInv
    <2>2. QED
        BY <1>1, <1>7, <2>1, NoneAssumption DEF UpdateAmount, TablesTyped, Expense
<1>8. \/ UNCHANGED expenses
      \/ \E f \in Expenses, q \in Receipts : CreateExpense(f, q) \/ RelinkExpense(f, q)
      \/ \E f \in Expenses, a \in Amounts : DriverSetsAmount(f, a)
      \/ \E w \in Workers : UpdateAmount(w)
    BY TablesStep DEF TableStep, CreateReceipt, Take, UpdateOCRFields, SetDone, SetFailed,
        SendNotify, tables
<1>9. QED
    BY <1>2, <1>3, <1>4, <1>5, <1>6, <1>7, <1>8

LEMMA OnItsWayStep ==
    ASSUME TotalInv, [Next]_vars, NEW e \in Expenses, NEW r \in Receipts,
           Reading[r] \in Amounts, OnItsWay(e, r)
    PROVE  (OnItsWay(e, r))'
<1>1. expenses[e] # None /\ r \in carried[e]
    BY DEF OnItsWay
<1>2. expenses'[e] # None /\ r \in carried'[e]
    BY <1>1, GrowStep DEF TotalInv, TablesGrow
<1>3. CASE expenses[e].receipt # r \/ expenses[e].amount # None \/ faults # 0
    BY <1>1, <1>2, <1>3, RowStays DEF OnItsWay
<1>4. CASE /\ expenses[e].receipt = r /\ faults = 0
           /\ "ok" \notin notified[r]
           /\ \A w \in Workers : Busy(w, r) =>
                /\ worker[w].step # "notify_ok"
                /\ worker[w].step = "amount" => worker[w].exp = e
    <2>1. SUFFICES ASSUME expenses'[e].amount = None, faults' = 0
                   PROVE  /\ "ok" \notin notified'[r]
                          /\ \A w \in Workers : (Busy(w, r))' =>
                                /\ worker'[w].step # "notify_ok"
                                /\ worker'[w].step = "amount" => worker'[w].exp = e
        BY <1>2 DEF OnItsWay, Busy
    <2>2. "ok" \notin notified'[r]
        BY <1>4, NotifiedStep DEF TotalInv
    <2>3. ASSUME NEW w \in Workers, (Busy(w, r))'
          PROVE  /\ worker'[w].step # "notify_ok"
                 /\ worker'[w].step = "amount" => worker'[w].exp = e
        <3>1. CASE worker'[w] = worker[w]
            BY <1>4, <2>3, <3>1 DEF Busy
        <3>2. CASE worker'[w].step \notin {"amount", "notify_ok"}
            BY <3>2
        <3>3. Carries(e, r)
            BY <1>1, <1>4 DEF Carries
        <3>4. ASSUME worker'[w].step = "amount", worker'[w].exp \in Expenses,
                     Carries(worker'[w].exp, r)
              PROVE  worker'[w].exp = e
            <4>1. r \in carried[worker'[w].exp]
                BY <3>4 DEF Carries, TotalInv, IInv, ExpensesOK
            <4>2. QED
                BY <1>1, <3>4, <4>1 DEF TotalInv, LinkedOnce
        <3>5. ASSUME Busy(w, r), worker[w].step = "amount", UpdateAmount(w)
              PROVE  FALSE
            <4>1. worker[w].exp = e /\ worker[w].r = r
                BY <1>4, <3>5 DEF Busy
            <4>2. expenses[e] \in Expense /\ expenses \in [Expenses -> Expense \cup {None}]
                BY <1>1 DEF TotalInv, IInv, TypeOK
            <4>3. expenses'[e].amount = Reading[r]
                BY <3>5, <4>1, <4>2 DEF UpdateAmount, Expense
            <4>4. QED
                BY <2>1, <4>3, NoneAssumption
        <3>6. ~(faults' = faults + 1)
            BY <1>4, <2>1
        <3>7. IInv
            BY DEF TotalInv
        <3>8. \/ worker'[w] = worker[w]
              \/ worker'[w].step \notin {"amount", "notify_ok"}
              \/ worker'[w].step = "amount" /\ worker'[w].exp \in Expenses
                 /\ Carries(worker'[w].exp, r)
              \/ Busy(w, r) /\ worker[w].step = "amount" /\ UpdateAmount(w)
            BY <2>3, <3>3, <3>6, <3>7, BusyStep
        <3>9. QED
            BY <3>1, <3>2, <3>4, <3>5, <3>8
    <2>4. QED
        BY <2>2, <2>3
<1>5. QED
    BY <1>3, <1>4 DEF OnItsWay

LEMMA TotalInvariance == Spec => []TotalInv
<1>1. Init => LinkedOnce /\ PendingUntouched
    BY DEF Init, LinkedOnce, PendingUntouched
<1>2. TotalInv /\ [Next]_vars => TotalInv'
    BY InvStep, LinkedOnceStep, PendingUntouchedStep DEF TotalInv
<1>3. Init => TotalInv
    BY <1>1, InvInit DEF TotalInv
<1>4. QED
    BY <1>2, <1>3, PTL DEF Spec

LEMMA TotalOfReceiptArrives ==
    ASSUME NEW e \in Expenses, NEW r \in Receipts
    PROVE  Spec => [](Awaited(e, r) => []ReportedIsStored(e, r))
<1>1. CASE Reading[r] \in Amounts
    <2>1. TotalInv /\ Awaited(e, r) => OnItsWay(e, r)
        BY DEF TotalInv, IInv, ExpensesOK, Awaited, Carries, PendingUntouched, OnItsWay
    <2>2. TotalInv /\ OnItsWay(e, r) /\ [Next]_vars => (OnItsWay(e, r))'
        BY <1>1, OnItsWayStep
    <2>3. TotalInv /\ OnItsWay(e, r) => ReportedIsStored(e, r)
        BY DEF OnItsWay, ReportedIsStored, Carries
    <2>4. QED
        BY <2>1, <2>2, <2>3, TotalInvariance, PTL DEF Spec
<1>2. CASE Reading[r] \notin Amounts
    <2>1. ~Awaited(e, r)
        BY <1>2 DEF Awaited
    <2>2. QED
        BY <2>1, PTL
<1>3. QED
    BY <1>1, <1>2

\* A total is in the expense by the time its driver is asked to confirm it, if
\* the expense carried the receipt before a worker took it, with any number of
\* workers, crashes and newer photos (internal/receipt/processor.go Process,
\* internal/telegram/handlers.go handlePhoto).
THEOREM AwaitedTotalsArrive == Spec => AwaitedTotalArrives
BY TotalOfReceiptArrives DEF AwaitedTotalArrives

=============================================================================
