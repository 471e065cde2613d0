------------------------- MODULE ConversationProofs -------------------------
(***************************************************************************)
(* Proofs about Conversation, for any number of goroutines, conversation   *)
(* objects, receipts and expenses; the last theorem is about one goroutine *)
(* at a time.                                                              *)
(***************************************************************************)
EXTENDS Conversation, TLAPS

-----------------------------------------------------------------------------
(* The inductive invariant: what a goroutine checked before the call it is *)
(* in still holds of its object and of the rows, although any other        *)
(* goroutine may have written both since.                                  *)

\* Row e is there and is this driver's.
Own(e) == expenses[e] # None /\ expenses[e].mine

\* The fields an object has, for its state and for one another.
FieldsOK(cs) ==
    /\ cs.state \in {"AwaitingManualAmount", "AwaitingOCRConfirmation",
                     "AwaitingEvidencePhoto"} => cs.expense # None
    /\ cs.state # "Idle" => cs.taxi
    /\ cs.state = "AwaitingReceiptPhoto" => cs.category \/ cs.expense # None
    /\ cs.receipt # None => cs.expense # None
    /\ cs.expense # None => cs.taxi /\ Own(cs.expense)

HeapOK == \A o \in Objects : FieldsOK(heap[o])

\* The states that a handler saves after its calls.
Saves == {"AwaitingCategorySelection", "AwaitingEvidencePhoto",
          "AwaitingOCRConfirmation", "AwaitingOptionalEvidence"}

\* A goroutine in call s, whose object is cs.
CallOK(s, cs) ==
    /\ s.cs = None <=> s.at \in {"idle", "auth"}
    /\ s.expense # None => Own(s.expense)
    /\ s.at \notin {"idle", "auth", "assignment", "list", "save"} => cs.taxi
    /\ s.at \in {"photo_upload", "photo_create", "manual_create"} => cs.category
    /\ s.at = "manual_receipt" => cs.category \/ cs.expense # None
    /\ s.at \in {"retry_upload", "retry_link", "evidence_upload", "evidence_submit",
                 "evidence_attach", "manual_update"} => cs.expense # None
    /\ s.at \in {"retry_link", "evidence_submit", "evidence_attach",
                 "manual_amount", "manual_update", "confirm"} => s.expense # None
    /\ s.at = "save" =>
          /\ s.next \in Saves
          /\ s.next \in {"AwaitingOCRConfirmation", "AwaitingOptionalEvidence"} => cs.taxi
          /\ s.next = "AwaitingEvidencePhoto" => s.expense # None
          /\ s.next = "AwaitingOCRConfirmation" => s.expense # None \/ cs.expense # None
          /\ s.next = "AwaitingCategorySelection" => s.expense = None
          /\ s.receipt # None => s.expense # None \/ cs.expense # None

TasksOK == \A t \in Tasks : CallOK(task[t], heap[task[t].cs])

\* The calls that write a fresh receipt in a row.
Linking == {"photo_create", "retry_link", "evidence_submit", "manual_create"}

Links(t, r) == task[t].at \in Linking /\ task[t].receipt = r

Uncarried(r) == \A e \in Expenses : expenses[e] # None => expenses[e].receipt # r

\* Until one goroutine links it, a receipt is in no row and is that one's.
ReceiptsOK ==
    /\ \A r \in Receipts : ocr[r] = "absent" => Uncarried(r)
    /\ \A t \in Tasks : task[t].at \in Linking => task[t].receipt \in Receipts
    /\ \A t \in Tasks, r \in Receipts : Links(t, r) => ocr[r] # "absent" /\ Uncarried(r)
    /\ \A t, u \in Tasks, r \in Receipts : Links(t, r) /\ Links(u, r) => t = u

IInv == /\ TypeOK
        /\ HeapOK
        /\ TasksOK
        /\ ReceiptsOK
        /\ ReceiptCarriedOnce
-----------------------------------------------------------------------------
(* What every step keeps.                                                  *)

\* A row of the driver stays one.
RowsKept == \A e \in Expenses : Own(e) => Own(e)'

\* An object that is in use only gains fields (the receipt aside).
Grown(before, after) ==
    /\ before.taxi => after.taxi
    /\ before.category => after.category
    /\ before.expense # None => after.expense # None

\* Goroutine t alone moves.
Moves(t) == /\ task' \in [Tasks -> Task]
            /\ \A u \in Tasks \ {t} : task'[u] = task[u]

LEMMA FieldsStay ==
    ASSUME NEW cs \in ConversationState, FieldsOK(cs), RowsKept
    PROVE  FieldsOK(cs)'
BY DEF FieldsOK, RowsKept, ConversationState

LEMMA NewFieldsOK == NewState \in ConversationState /\ FieldsOK(NewState)
BY DEF NewState, ConversationState, State, FieldsOK

LEMMA NewFieldsOKNext == FieldsOK(NewState)'
BY DEF NewState, FieldsOK

LEMMA NoTaskIsTask == NoTask \in Task
BY DEF NoTask, Task, Call

\* A goroutine that holds s keeps what it relied on.
LEMMA CallStays ==
    ASSUME NEW s \in Task, NEW before, NEW after, CallOK(s, before), RowsKept,
           s.cs \in Objects => Grown(before, after)
    PROVE  CallOK(s, after)'
<1>1. s.expense \in Expenses \cup {None} /\ s.cs \in Objects \cup {None}
    BY DEF Task
<1>2. s.expense # None => Own(s.expense)'
    BY <1>1 DEF CallOK, RowsKept
<1>3. CASE s.cs = None
    BY <1>2, <1>3 DEF CallOK
<1>4. CASE s.cs \in Objects
    BY <1>2, <1>4, NoneAssumption DEF CallOK, Grown
<1>5. QED
    BY <1>1, <1>3, <1>4

\* The other goroutines.
LEMMA Bystanders ==
    ASSUME TypeOK, TasksOK, NEW T \in SUBSET Tasks, \A u \in T : task'[u] = task[u], RowsKept,
           \A u \in T : task[u].cs \in Objects => Grown(heap[task[u].cs], heap'[task[u].cs])
    PROVE  \A u \in T : CallOK(task[u], heap[task[u].cs])'
<1>1. TAKE u \in T
<1>2. PICK s \in Task : s = task[u]
    BY DEF TypeOK
<1>3. s = task'[u]
    BY <1>2
<1>4. CallOK(s, heap[s.cs])
    BY <1>2 DEF TasksOK
<1>5. s.cs \in Objects => Grown(heap[s.cs], heap'[s.cs])
    BY <1>2
<1>6. PICK before, after : before = heap[s.cs] /\ after = heap'[s.cs]
    OBVIOUS
<1>7. CallOK(s, after)'
    BY <1>4, <1>5, <1>6, CallStays
<1>8. QED
    BY <1>3, <1>6, <1>7 DEF CallOK

LEMMA GrownSame == ASSUME NEW cs PROVE Grown(cs, cs)
BY DEF Grown

LEMMA ActorMoves ==
    ASSUME TypeOK, TasksOK, RowsKept, NEW t \in Tasks, Moves(t),
           \A u \in Tasks \ {t} : task[u].cs \in Objects =>
                Grown(heap[task[u].cs], heap'[task[u].cs]),
           CallOK(task[t], heap[task[t].cs])'
    PROVE  TasksOK'
<1>1. \A u \in Tasks \ {t} : CallOK(task[u], heap[task[u].cs])'
    BY Bystanders DEF Moves
<1>2. QED
    BY <1>1 DEF TasksOK

LEMMA CollectIs ==
    ASSUME NEW objects \in [Objects -> ConversationState], NEW used
    PROVE  /\ Collect(objects, used) \in [Objects -> ConversationState]
           /\ \A o \in Objects \cap used : Collect(objects, used)[o] = objects[o]
           /\ \A o \in Objects \ used : Collect(objects, used)[o] = NewState
BY NewFieldsOK DEF Collect

\* The objects are those that were there, or new ones.
LEMMA HeapCollected ==
    ASSUME TypeOK, HeapOK, RowsKept, NEW used, heap' = Collect(heap, used)
    PROVE  HeapOK' /\ heap' \in [Objects -> ConversationState]
<1>1. heap' \in [Objects -> ConversationState]
    BY CollectIs DEF TypeOK
<1>2. ASSUME NEW o \in Objects PROVE FieldsOK(heap[o])'
    <2>1. CASE o \in used
        <3>1. PICK cs \in ConversationState : cs = heap[o]
            BY DEF TypeOK
        <3>2. FieldsOK(cs)'
            BY <3>1, FieldsStay DEF HeapOK
        <3>3. heap'[o] = cs
            BY <2>1, <3>1, CollectIs DEF TypeOK
        <3>4. QED
            BY <3>2, <3>3 DEF FieldsOK
    <2>2. CASE o \notin used
        <3>1. heap'[o] = NewState
            BY <2>2, CollectIs DEF TypeOK
        <3>2. QED
            BY <3>1, NewFieldsOKNext DEF FieldsOK
    <2>3. QED
        BY <2>1, <2>2
<1>3. QED
    BY <1>1, <1>2 DEF HeapOK

LEMMA HeapSame ==
    ASSUME TypeOK, HeapOK, RowsKept, heap' = heap
    PROVE  HeapOK' /\ \A o : Grown(heap[o], heap'[o])
<1>1. ASSUME NEW o \in Objects PROVE FieldsOK(heap[o])'
    <2>1. PICK cs \in ConversationState : cs = heap[o]
        BY DEF TypeOK
    <2>2. FieldsOK(cs)'
        BY <2>1, FieldsStay DEF HeapOK
    <2>3. QED
        BY <2>1, <2>2 DEF FieldsOK
<1>2. QED
    BY <1>1, GrownSame DEF HeapOK

LEMMA RowsSame == ASSUME UNCHANGED expenses PROVE RowsKept
BY DEF RowsKept, Own

-----------------------------------------------------------------------------
(* Receipts.                                                               *)

\* No row takes another receipt, and no goroutine takes one to link.
LEMMA ReceiptsQuiet ==
    ASSUME TypeOK, ReceiptsOK, ReceiptCarriedOnce,
           \A r \in Receipts : ocr'[r] = "absent" <=> ocr[r] = "absent",
           \A e \in Expenses : expenses'[e] # None /\ expenses'[e].receipt \in Receipts =>
                expenses[e] # None /\ expenses[e].receipt = expenses'[e].receipt,
           \A t \in Tasks : task'[t].at \in Linking =>
                task[t].at \in Linking /\ task[t].receipt = task'[t].receipt,
           expenses' \in [Expenses -> ExpenseRow \cup {None}]
    PROVE  ReceiptsOK' /\ ReceiptCarriedOnce'
<1>1. \A r \in Receipts : Uncarried(r) => Uncarried(r)'
    BY DEF Uncarried
<1>2. \A t \in Tasks, r \in Receipts : Links(t, r)' => Links(t, r)
    BY DEF Links
<1>3. \A r \in Receipts : (ocr[r] = "absent")' => Uncarried(r)'
    BY <1>1 DEF ReceiptsOK
<1>4. \A t \in Tasks : (task[t].at \in Linking => task[t].receipt \in Receipts)'
    BY DEF ReceiptsOK, Linking
<1>5. \A t \in Tasks, r \in Receipts : Links(t, r)' => (ocr[r] # "absent" /\ Uncarried(r))'
    BY <1>1, <1>2 DEF ReceiptsOK
<1>6. \A t, u \in Tasks, r \in Receipts : (Links(t, r) /\ Links(u, r))' => t = u
    BY <1>2 DEF ReceiptsOK
<1>7. ReceiptCarriedOnce'
    <2>1. SUFFICES ASSUME NEW e \in Expenses, NEW f \in Expenses, e # f,
                          expenses'[e] # None, expenses'[f] # None,
                          expenses'[e].receipt # None,
                          expenses'[e].receipt = expenses'[f].receipt
                   PROVE  FALSE
        BY DEF ReceiptCarriedOnce
    <2>2. expenses'[e].receipt \in Receipts
        BY <2>1 DEF ExpenseRow
    <2>3. /\ expenses[e] # None /\ expenses[f] # None
          /\ expenses[e].receipt = expenses[f].receipt
          /\ expenses[e].receipt \in Receipts
        BY <2>1, <2>2
    <2>4. QED
        BY <2>1, <2>3, NoneAssumption DEF ReceiptCarriedOnce
<1>8. QED
    BY <1>3, <1>4, <1>5, <1>6, <1>7 DEF ReceiptsOK

\* Goroutine t has inserted receipt r.
LEMMA ReceiptInserted ==
    ASSUME TypeOK, ReceiptsOK, ReceiptCarriedOnce, NEW t \in Tasks, Moves(t),
           NEW r \in Receipts, NEW s \in {"pending", "skipped"}, InsertReceipt(r, s),
           task'[t].receipt = r, UNCHANGED expenses
    PROVE  ReceiptsOK' /\ ReceiptCarriedOnce' /\ ocr' \in [Receipts -> OcrState]
<1>1. /\ ocr[r] = "absent" /\ ocr'[r] # "absent"
      /\ \A q \in Receipts \ {r} : ocr'[q] = ocr[q]
      /\ ocr' \in [Receipts -> OcrState]
    BY DEF InsertReceipt, NextReceipt, TypeOK, OcrState
<1>2. \A q \in Receipts : Uncarried(q)' <=> Uncarried(q)
    BY DEF Uncarried
<1>3. \A u \in Tasks \ {t}, q \in Receipts : Links(u, q)' <=> Links(u, q)
    BY DEF Links, Moves
<1>4. \A q \in Receipts : Links(t, q)' => q = r
    BY DEF Links
<1>5. \A u \in Tasks : ~ Links(u, r)
    BY <1>1 DEF ReceiptsOK
<1>6. \A q \in Receipts : (ocr[q] = "absent")' => Uncarried(q)'
    BY <1>1, <1>2 DEF ReceiptsOK
<1>7. \A u \in Tasks : (task[u].at \in Linking => task[u].receipt \in Receipts)'
    BY DEF ReceiptsOK, Linking, Moves
<1>8. \A u \in Tasks, q \in Receipts : Links(u, q)' => (ocr[q] # "absent" /\ Uncarried(q))'
    BY <1>1, <1>2, <1>3, <1>4 DEF ReceiptsOK
<1>9. \A u, v \in Tasks, q \in Receipts : (Links(u, q) /\ Links(v, q))' => u = v
    BY <1>3, <1>4, <1>5 DEF ReceiptsOK
<1>10. ReceiptCarriedOnce'
    BY DEF ReceiptCarriedOnce
<1>11. QED
    BY <1>1, <1>6, <1>7, <1>8, <1>9, <1>10 DEF ReceiptsOK

\* Goroutine t has written the receipt it holds in row e.
LEMMA ReceiptLinked ==
    ASSUME TypeOK, ReceiptsOK, ReceiptCarriedOnce, NEW t \in Tasks, Moves(t),
           task[t].at \in Linking, task'[t].at \notin Linking, UNCHANGED ocr,
           NEW e \in Expenses, expenses'[e] # None, expenses'[e].receipt = task[t].receipt,
           \A f \in Expenses \ {e} : expenses'[f] = expenses[f]
    PROVE  ReceiptsOK' /\ ReceiptCarriedOnce'
<1>1. PICK r \in Receipts : Links(t, r) /\ r = task[t].receipt
    BY DEF ReceiptsOK, Links
<1>2. ocr[r] # "absent" /\ Uncarried(r)
    BY <1>1 DEF ReceiptsOK
<1>3. \A q \in Receipts \ {r} : Uncarried(q) => Uncarried(q)'
    BY <1>1 DEF Uncarried
<1>4. \A u \in Tasks \ {t}, q \in Receipts : Links(u, q)' <=> Links(u, q)
    BY DEF Links, Moves
<1>5. \A q \in Receipts : ~ Links(t, q)'
    BY DEF Links
<1>6. \A u \in Tasks \ {t} : ~ Links(u, r)
    BY <1>1 DEF ReceiptsOK
<1>7. \A q \in Receipts : (ocr[q] = "absent")' => Uncarried(q)'
    BY <1>2, <1>3 DEF ReceiptsOK
<1>8. \A u \in Tasks : (task[u].at \in Linking => task[u].receipt \in Receipts)'
    BY DEF ReceiptsOK, Moves
<1>9. \A u \in Tasks, q \in Receipts : Links(u, q)' => (ocr[q] # "absent" /\ Uncarried(q))'
    BY <1>3, <1>4, <1>5, <1>6 DEF ReceiptsOK
<1>10. \A u, v \in Tasks, q \in Receipts : (Links(u, q) /\ Links(v, q))' => u = v
    BY <1>4, <1>5 DEF ReceiptsOK
<1>11. ReceiptCarriedOnce'
    BY <1>1, <1>2 DEF ReceiptCarriedOnce, Uncarried
<1>12. QED
    BY <1>7, <1>8, <1>9, <1>10, <1>11 DEF ReceiptsOK

-----------------------------------------------------------------------------
(* How a goroutine moves from call to call.                                *)

LEMMA CallsMoves ==
    ASSUME TypeOK, NEW t \in Tasks, NEW call \in Call, NEW r \in Receipts \cup {None},
           NEW e \in Expenses \cup {None}, Calls(t, call, r, e)
    PROVE  /\ Moves(t)
           /\ task'[t].at = call /\ task'[t].cs = task[t].cs
           /\ task'[t].next = task[t].next
           /\ task'[t].receipt = r /\ task'[t].expense = e
<1>1. PICK s \in Task : s = task[t]
    BY DEF TypeOK
<1>2. task' = [task EXCEPT ![t] = [s EXCEPT !.at = call, !.receipt = r, !.expense = e]]
    BY <1>1 DEF Calls, TypeOK
<1>3. [s EXCEPT !.at = call, !.receipt = r, !.expense = e] \in Task
    BY DEF Task
<1>4. QED
    BY <1>1, <1>2, <1>3 DEF Moves, TypeOK, Task

LEMMA SaveNextMoves ==
    ASSUME TypeOK, NEW t \in Tasks, NEW state \in Saves, NEW r \in Receipts \cup {None},
           NEW e \in Expenses \cup {None}, SaveNext(t, state, r, e)
    PROVE  /\ Moves(t)
           /\ task'[t].at = "save" /\ task'[t].cs = task[t].cs
           /\ task'[t].next = state
           /\ task'[t].receipt = r /\ task'[t].expense = e
<1>1. PICK s \in Task : s = task[t]
    BY DEF TypeOK
<1>2. task' = [task EXCEPT ![t] =
                  [s EXCEPT !.at = "save", !.next = state, !.receipt = r, !.expense = e]]
    BY <1>1 DEF SaveNext, TypeOK
<1>3. [s EXCEPT !.at = "save", !.next = state, !.receipt = r, !.expense = e] \in Task
    BY DEF Task, Call, State, Saves
<1>4. QED
    BY <1>1, <1>2, <1>3 DEF Moves, TypeOK, Task

LEMMA BeginsMoves ==
    ASSUME TypeOK, NEW t \in Tasks, NEW call \in Call, Begins(t, call)
    PROVE  /\ Moves(t)
           /\ task'[t].at = call /\ task'[t].cs = store /\ store \in Objects
           /\ task'[t].receipt = None /\ task'[t].expense = None
<1>1. store \in Objects
    BY DEF Begins, TypeOK
<1>2. [NoTask EXCEPT !.at = call, !.cs = store] \in Task
    BY <1>1 DEF NoTask, Task
<1>3. task'[t] = [NoTask EXCEPT !.at = call, !.cs = store]
    BY DEF Begins, TypeOK
<1>4. Moves(t)
    BY <1>2 DEF Begins, TypeOK, Moves
<1>5. QED
    BY <1>1, <1>3, <1>4 DEF NoTask

LEMMA BeginsWithMoves ==
    ASSUME TypeOK, NEW t \in Tasks, NEW call \in Call, NEW r \in Receipts \cup {None},
           NEW e \in Expenses \cup {None}, BeginsWith(t, call, r, e)
    PROVE  /\ Moves(t)
           /\ task'[t].at = call /\ task'[t].cs = store /\ store \in Objects
           /\ task'[t].receipt = r /\ task'[t].expense = e
<1>1. store \in Objects
    BY DEF BeginsWith, TypeOK
<1>2. [NoTask EXCEPT !.at = call, !.cs = store, !.receipt = r, !.expense = e] \in Task
    BY <1>1 DEF NoTask, Task
<1>3. task'[t] = [NoTask EXCEPT !.at = call, !.cs = store, !.receipt = r, !.expense = e]
    BY DEF BeginsWith, TypeOK
<1>4. Moves(t)
    BY <1>2 DEF BeginsWith, TypeOK, Moves
<1>5. QED
    BY <1>1, <1>3, <1>4 DEF NoTask

LEMMA ReturnMoves ==
    ASSUME TypeOK, NEW t \in Tasks, Return(t)
    PROVE  Moves(t) /\ task'[t] = NoTask
BY NoTaskIsTask DEF Return, TypeOK, Moves

LEMMA NoTaskOK == ASSUME NEW cs PROVE CallOK(NoTask, cs) /\ CallOK(NoTask, cs)'
BY DEF CallOK, NoTask

\* A goroutine that has a call in flight has an object, and what CallOK says.
LEMMA InCall ==
    ASSUME TypeOK, TasksOK, NEW t \in Tasks, task[t].at \notin {"idle", "auth"}
    PROVE  /\ task[t].cs \in Objects
           /\ task[t].expense \in Expenses \cup {None}
           /\ Conv(t) \in ConversationState
           /\ Conv(t) = heap[task[t].cs]
           /\ CallOK(task[t], Conv(t))
<1>1. CallOK(task[t], heap[task[t].cs])
    BY DEF TasksOK
<1>2. task[t].cs \in Objects \cup {None} /\ task[t].expense \in Expenses \cup {None}
    BY DEF TypeOK, Task
<1>3. QED
    BY <1>1, <1>2 DEF CallOK, TypeOK, Conv

\* The stored object.
LEMMA Stored ==
    ASSUME TypeOK, HeapOK, store # None
    PROVE  /\ store \in Objects /\ heap[store] \in ConversationState
           /\ heap[store].expense \in Expenses \cup {None}
           /\ heap[store].receipt \in Receipts \cup {None}
           /\ FieldsOK(heap[store])
BY DEF TypeOK, HeapOK, ConversationState

\* A goroutine reads and goes to a call that links no receipt.
LEMMA ReadingStep ==
    ASSUME IInv, NEW t \in Tasks, Moves(t), Reading, task'[t].at \notin Linking,
           CallOK(task[t], heap[task[t].cs])'
    PROVE  IInv'
<1>1. RowsKept
    BY RowsSame DEF Reading
<1>2. HeapOK' /\ \A o : Grown(heap[o], heap'[o])
    BY <1>1, HeapSame DEF IInv, Reading
<1>3. TasksOK'
    BY <1>1, <1>2, ActorMoves DEF IInv
<1>4. ReceiptsOK' /\ ReceiptCarriedOnce'
    <2>1. expenses' \in [Expenses -> ExpenseRow \cup {None}]
        BY DEF IInv, TypeOK, Reading
    <2>2. \A u \in Tasks : task'[u].at \in Linking =>
              task[u].at \in Linking /\ task[u].receipt = task'[u].receipt
        BY DEF Moves
    <2>3. QED
        BY <2>1, <2>2, ReceiptsQuiet DEF IInv, Reading
<1>5. TypeOK'
    BY DEF IInv, TypeOK, Reading, Moves
<1>6. QED
    BY <1>2, <1>3, <1>4, <1>5 DEF IInv

-----------------------------------------------------------------------------
(* Handlers that only read before their first call.                        *)

LEMMA NeedsAuthStep == ASSUME IInv, NEW t \in Tasks, NeedsAuth(t) PROVE IInv'
<1>1. PICK handler \in {"gasto", "soporte", None} :
          task' = [task EXCEPT ![t] = [NoTask EXCEPT !.at = "auth", !.next = handler]]
    BY DEF NeedsAuth
<1>2. [NoTask EXCEPT !.at = "auth", !.next = handler] \in Task
    BY DEF NoTask, Task, Call
<1>3. Moves(t) /\ task'[t] = [NoTask EXCEPT !.at = "auth", !.next = handler]
    BY <1>1, <1>2 DEF IInv, TypeOK, Moves
<1>4. task'[t].at = "auth" /\ task'[t].cs = None /\ task'[t].expense = None
    BY <1>3 DEF NoTask
<1>5. CallOK(task[t], heap[task[t].cs])'
    BY <1>4 DEF CallOK
<1>6. QED
    BY <1>3, <1>4, <1>5, ReadingStep DEF NeedsAuth, Linking

LEMMA HandleGastoStep == ASSUME IInv, NEW t \in Tasks, HandleGasto(t) PROVE IInv'
<1>1. Begins(t, "assignment") /\ Reading /\ "assignment" \in Call
    BY DEF HandleGasto, Call
<1>2. /\ Moves(t) /\ task'[t].at = "assignment" /\ task'[t].cs = store /\ store \in Objects
      /\ task'[t].expense = None
    BY <1>1, BeginsMoves DEF IInv
<1>3. CallOK(task[t], heap[task[t].cs])'
    BY <1>2, NoneAssumption DEF CallOK
<1>4. QED
    BY <1>1, <1>2, <1>3, ReadingStep DEF Linking

LEMMA HandleSoporteStep == ASSUME IInv, NEW t \in Tasks, HandleSoporte(t) PROVE IInv'
<1>1. Begins(t, "list") /\ Reading /\ "list" \in Call
    BY DEF HandleSoporte, Call
<1>2. /\ Moves(t) /\ task'[t].at = "list" /\ task'[t].cs = store /\ store \in Objects
      /\ task'[t].expense = None
    BY <1>1, BeginsMoves DEF IInv
<1>3. CallOK(task[t], heap[task[t].cs])'
    BY <1>2, NoneAssumption DEF CallOK
<1>4. QED
    BY <1>1, <1>2, <1>3, ReadingStep DEF Linking

LEMMA HandlePhotoStep == ASSUME IInv, NEW t \in Tasks, HandlePhoto(t) PROVE IInv'
<1>1. PICK cs, call : cs = heap[store] /\ call = PhotoUpload(cs)
    OBVIOUS
<1>2. store # None /\ call # "idle" /\ Begins(t, call) /\ Reading
    BY <1>1 DEF HandlePhoto
<1>3. cs \in ConversationState /\ FieldsOK(cs)
    BY <1>1, <1>2, Stored DEF IInv
<1>4. /\ call \in {"evidence_upload", "optional_upload", "photo_upload", "retry_upload"}
      /\ call = "evidence_upload" => cs.state = "AwaitingEvidencePhoto"
      /\ call = "optional_upload" => cs.state = "AwaitingOptionalEvidence"
      /\ call = "photo_upload" => cs.state = "AwaitingReceiptPhoto" /\ cs.expense = None
      /\ call = "retry_upload" => cs.state = "AwaitingReceiptPhoto" /\ cs.expense # None
    BY <1>1, <1>2 DEF PhotoUpload
<1>5. call \in Call
    BY <1>4 DEF Call
<1>6. /\ Moves(t) /\ task'[t].at = call /\ task'[t].cs = store /\ store \in Objects
      /\ task'[t].expense = None
    BY <1>2, <1>5, BeginsMoves DEF IInv
<1>7. heap'[task'[t].cs] = cs
    BY <1>1, <1>2, <1>6 DEF Reading
<1>8. CallOK(task[t], heap[task[t].cs])'
    BY <1>3, <1>4, <1>6, <1>7, NoneAssumption DEF CallOK, FieldsOK
<1>9. QED
    BY <1>2, <1>4, <1>6, <1>8, ReadingStep DEF Linking

LEMMA HandleManualAmountStep == ASSUME IInv, NEW t \in Tasks, HandleManualAmount(t) PROVE IInv'
<1>1. PICK cs : cs = heap[store]
    OBVIOUS
<1>2. store # None /\ Reading /\ cs.state \in {"AwaitingReceiptPhoto", "AwaitingManualAmount"}
    BY <1>1 DEF HandleManualAmount
<1>3. /\ cs \in ConversationState /\ FieldsOK(cs)
      /\ cs.expense \in Expenses \cup {None} /\ cs.receipt \in Receipts \cup {None}
    BY <1>1, <1>2, Stored DEF IInv
<1>4. CASE cs.receipt # None
    <2>1. cs.expense # None /\ Own(cs.expense) /\ cs.taxi
        BY <1>3, <1>4 DEF FieldsOK
    <2>2. BeginsWith(t, "manual_update", cs.receipt, cs.expense) /\ "manual_update" \in Call
        BY <1>1, <1>4, <2>1 DEF HandleManualAmount, AmountCall, Call
    <2>3. /\ Moves(t) /\ task'[t].at = "manual_update" /\ task'[t].cs = store
          /\ store \in Objects /\ task'[t].expense = cs.expense
        BY <1>3, <2>2, BeginsWithMoves DEF IInv
    <2>4. heap'[task'[t].cs] = cs
        BY <1>1, <1>2, <2>3 DEF Reading
    <2>5. Own(cs.expense)'
        BY <1>2, <2>1 DEF Own, Reading
    <2>6. CallOK(task[t], heap[task[t].cs])'
        BY <2>1, <2>3, <2>4, <2>5, NoneAssumption DEF CallOK, Own
    <2>7. QED
        BY <1>2, <2>3, <2>6, ReadingStep DEF Linking
<1>5. CASE cs.receipt = None
    <2>1. Begins(t, "manual_receipt") /\ "manual_receipt" \in Call
        BY <1>1, <1>5 DEF HandleManualAmount, Call
    <2>2. /\ Moves(t) /\ task'[t].at = "manual_receipt" /\ task'[t].cs = store
          /\ store \in Objects /\ task'[t].expense = None
        BY <2>1, BeginsMoves DEF IInv
    <2>3. heap'[task'[t].cs] = cs
        BY <1>1, <1>2, <2>2 DEF Reading
    <2>4. CallOK(task[t], heap[task[t].cs])'
        BY <1>2, <1>3, <2>2, <2>3, NoneAssumption DEF CallOK, FieldsOK
    <2>5. QED
        BY <1>2, <2>2, <2>4, ReadingStep DEF Linking
<1>6. QED
    BY <1>4, <1>5

LEMMA HandleConfirmOCRStep == ASSUME IInv, NEW t \in Tasks, HandleConfirmOCR(t) PROVE IInv'
<1>1. PICK cs : cs = heap[store]
    OBVIOUS
<1>2. /\ store # None /\ Reading /\ cs.expense # None /\ "confirm" \in Call
      /\ BeginsWith(t, "confirm", None, cs.expense)
    BY <1>1 DEF HandleConfirmOCR, Call
<1>3. FieldsOK(cs) /\ cs.expense \in Expenses \cup {None}
    BY <1>1, <1>2, Stored DEF IInv
<1>4. /\ Moves(t) /\ task'[t].at = "confirm" /\ task'[t].cs = store /\ store \in Objects
      /\ task'[t].expense = cs.expense
    BY <1>2, <1>3, BeginsWithMoves DEF IInv
<1>5. heap'[task'[t].cs] = cs /\ Own(cs.expense)'
    BY <1>1, <1>2, <1>3, <1>4 DEF Reading, FieldsOK, Own
<1>6. CallOK(task[t], heap[task[t].cs])'
    BY <1>2, <1>3, <1>4, <1>5, NoneAssumption DEF CallOK, FieldsOK, Own
<1>7. QED
    BY <1>2, <1>4, <1>6, ReadingStep DEF Linking

-----------------------------------------------------------------------------
(* Calls that return what they read.                                       *)

\* What a step that only reads leaves to a goroutine that keeps its object.
LEMMA KeepsConv ==
    ASSUME TypeOK, TasksOK, NEW t \in Tasks, task[t].at \notin {"idle", "auth"}, Reading,
           task'[t].cs = task[t].cs
    PROVE  /\ heap'[task'[t].cs] = Conv(t)
           /\ task'[t].cs # None
           /\ \A e : Own(e)' <=> Own(e)
BY InCall, NoneAssumption DEF Reading, Own

LEMMA GotAssignmentStep == ASSUME IInv, NEW t \in Tasks, GotAssignment(t) PROVE IInv'
<1>1. /\ task[t].at = "assignment" /\ Reading
      /\ SaveNext(t, "AwaitingCategorySelection", None, None)
    BY DEF GotAssignment, At
<1>2. /\ Moves(t) /\ task'[t].at = "save" /\ task'[t].cs = task[t].cs
      /\ task'[t].next = "AwaitingCategorySelection"
      /\ task'[t].receipt = None /\ task'[t].expense = None
    BY <1>1, SaveNextMoves DEF IInv, Saves
<1>3. task'[t].cs # None
    BY <1>1, <1>2, KeepsConv DEF IInv
<1>4. CallOK(task[t], heap[task[t].cs])'
    BY <1>2, <1>3 DEF CallOK, Saves
<1>5. QED
    BY <1>1, <1>2, <1>4, ReadingStep DEF Linking

LEMMA ListedStep == ASSUME IInv, NEW t \in Tasks, Listed(t) PROVE IInv'
<1>1. PICK e \in ListNeedsEvidence : SaveNext(t, "AwaitingEvidencePhoto", None, e)
    BY DEF Listed
<1>2. task[t].at = "list" /\ Reading
    BY DEF Listed, At
<1>3. e \in Expenses /\ Own(e)
    BY <1>1 DEF ListNeedsEvidence, Own
<1>4. /\ Moves(t) /\ task'[t].at = "save" /\ task'[t].cs = task[t].cs
      /\ task'[t].next = "AwaitingEvidencePhoto"
      /\ task'[t].receipt = None /\ task'[t].expense = e
    BY <1>1, <1>3, SaveNextMoves DEF IInv, Saves
<1>5. task'[t].cs # None /\ Own(e)'
    BY <1>2, <1>3, <1>4, KeepsConv DEF IInv
<1>6. e # None
    BY <1>3, NoneAssumption
<1>7. CallOK(task[t], heap[task[t].cs])'
    BY <1>4, <1>5, <1>6 DEF CallOK, Saves, Own
<1>8. QED
    BY <1>2, <1>4, <1>7, ReadingStep DEF Linking

LEMMA EvidenceAttachStep == ASSUME IInv, NEW t \in Tasks, EvidenceAttach(t) PROVE IInv'
<1>1. /\ task[t].at = "evidence_attach" /\ Reading
      /\ SaveNext(t, "AwaitingOptionalEvidence", None, None)
    BY DEF EvidenceAttach, At
<1>2. /\ Moves(t) /\ task'[t].at = "save" /\ task'[t].cs = task[t].cs
      /\ task'[t].next = "AwaitingOptionalEvidence"
      /\ task'[t].receipt = None /\ task'[t].expense = None
    BY <1>1, SaveNextMoves DEF IInv, Saves
<1>3. heap'[task'[t].cs] = Conv(t) /\ task'[t].cs # None
    BY <1>1, <1>2, KeepsConv DEF IInv
<1>4. Conv(t).taxi
    BY <1>1, InCall DEF IInv, CallOK
<1>5. CallOK(task[t], heap[task[t].cs])'
    BY <1>2, <1>3, <1>4 DEF CallOK, Saves
<1>6. QED
    BY <1>1, <1>2, <1>5, ReadingStep DEF Linking

LEMMA ManualUpdateStep == ASSUME IInv, NEW t \in Tasks, ManualUpdate(t) PROVE IInv'
<1>1. PICK e : e = Conv(t).expense
    OBVIOUS
<1>2. task[t].at = "manual_update" /\ Reading /\ Calls(t, "confirm", None, e)
    BY <1>1 DEF ManualUpdate, At
<1>3. /\ Conv(t).expense # None /\ Conv(t).taxi /\ e \in Expenses \cup {None}
      /\ FieldsOK(Conv(t))
    BY <1>1, <1>2, InCall DEF IInv, CallOK, HeapOK, ConversationState
<1>4. /\ Moves(t) /\ task'[t].at = "confirm" /\ task'[t].cs = task[t].cs
      /\ task'[t].receipt = None /\ task'[t].expense = e
    BY <1>2, <1>3, CallsMoves DEF IInv, Call
<1>5. heap'[task'[t].cs] = Conv(t) /\ task'[t].cs # None /\ Own(e)'
    BY <1>1, <1>2, <1>3, <1>4, KeepsConv DEF IInv, FieldsOK
<1>6. CallOK(task[t], heap[task[t].cs])'
    BY <1>1, <1>3, <1>4, <1>5 DEF CallOK, Own
<1>7. QED
    BY <1>2, <1>4, <1>6, ReadingStep DEF Linking

LEMMA ManualAmountStep == ASSUME IInv, NEW t \in Tasks, ManualAmount(t) PROVE IInv'
<1>1. PICK e : e = task[t].expense
    OBVIOUS
<1>2. task[t].at = "manual_amount" /\ Reading /\ Calls(t, "confirm", None, e)
    BY <1>1 DEF ManualAmount, At
<1>3. e # None /\ Own(e) /\ Conv(t).taxi /\ e \in Expenses \cup {None}
    BY <1>1, <1>2, InCall DEF IInv, CallOK
<1>4. /\ Moves(t) /\ task'[t].at = "confirm" /\ task'[t].cs = task[t].cs
      /\ task'[t].receipt = None /\ task'[t].expense = e
    BY <1>2, <1>3, CallsMoves DEF IInv, Call
<1>5. heap'[task'[t].cs] = Conv(t) /\ task'[t].cs # None /\ Own(e)'
    BY <1>2, <1>3, <1>4, KeepsConv DEF IInv
<1>6. CallOK(task[t], heap[task[t].cs])'
    BY <1>3, <1>4, <1>5 DEF CallOK, Own
<1>7. QED
    BY <1>2, <1>4, <1>6, ReadingStep DEF Linking

-----------------------------------------------------------------------------
(* Uploads.                                                                *)

\* A photo is stored, its receipt inserted, and the goroutine goes on with it.
LEMMA UploadedStep ==
    ASSUME IInv, NEW t \in Tasks, NEW call \in Call \ {"idle", "auth"},
           NEW s \in {"pending", "skipped"}, NEW then \in Call, NEW e \in Expenses \cup {None},
           Uploaded(t, call, s, then, e),
           \A v \in Task : (/\ v.cs = task[t].cs /\ v.cs # None /\ v.at = then
                            /\ v.expense = e) => CallOK(v, Conv(t))
    PROVE  IInv'
<1>1. PICK r \in Receipts : InsertReceipt(r, s) /\ Calls(t, then, r, e)
    BY DEF Uploaded
<1>2. task[t].at = call /\ UNCHANGED <<heap, store, shown, expenses, reviews, restarts>>
    BY DEF Uploaded, At
<1>3. /\ Moves(t) /\ task'[t].at = then /\ task'[t].cs = task[t].cs
      /\ task'[t].receipt = r /\ task'[t].expense = e
    BY <1>1, CallsMoves DEF IInv
<1>4. RowsKept
    BY <1>2, RowsSame
<1>5. HeapOK' /\ \A o : Grown(heap[o], heap'[o])
    BY <1>2, <1>4, HeapSame DEF IInv
<1>6. ReceiptsOK' /\ ReceiptCarriedOnce' /\ ocr' \in [Receipts -> OcrState]
    BY <1>1, <1>2, <1>3, ReceiptInserted DEF IInv
<1>7. CallOK(task[t], heap[task[t].cs])'
    <2>1. task[t].cs \in Objects /\ Conv(t) = heap[task[t].cs]
        BY <1>2, InCall DEF IInv
    <2>2. PICK v \in Task : v = task'[t]
        BY <1>3 DEF Moves
    <2>3. PICK cs : cs = Conv(t)
        OBVIOUS
    <2>4. CallOK(v, cs)
        BY <1>3, <2>1, <2>2, <2>3, NoneAssumption
    <2>5. heap'[task'[t].cs] = cs
        BY <1>2, <1>3, <2>1, <2>3
    <2>6. QED
        BY <1>2, <2>2, <2>4, <2>5 DEF CallOK, Own
<1>8. TasksOK'
    BY <1>3, <1>4, <1>5, <1>7, ActorMoves DEF IInv
<1>9. TypeOK'
    BY <1>2, <1>3, <1>6 DEF IInv, TypeOK, Moves
<1>10. QED
    BY <1>5, <1>6, <1>8, <1>9 DEF IInv

LEMMA PhotoUploadedStep == ASSUME IInv, NEW t \in Tasks, PhotoUploaded(t) PROVE IInv'
<1>1. task[t].at = "photo_upload"
      /\ Uploaded(t, "photo_upload", "pending", "photo_create", None)
    BY DEF PhotoUploaded, Uploaded, At
<1>2. Conv(t).taxi /\ Conv(t).category
    BY <1>1, InCall DEF IInv, CallOK
<1>3. \A v \in Task : (/\ v.cs = task[t].cs /\ v.cs # None /\ v.at = "photo_create"
                       /\ v.expense = None) => CallOK(v, Conv(t))
    BY <1>2 DEF CallOK
<1>4. "photo_upload" \in Call \ {"idle", "auth"} /\ "photo_create" \in Call
    BY DEF Call
<1>5. QED
    BY <1>1, <1>3, <1>4, UploadedStep

LEMMA RetryUploadedStep == ASSUME IInv, NEW t \in Tasks, RetryUploaded(t) PROVE IInv'
<1>1. PICK e : e = Conv(t).expense
    OBVIOUS
<1>2. task[t].at = "retry_upload" /\ Uploaded(t, "retry_upload", "pending", "retry_link", e)
    BY <1>1 DEF RetryUploaded, Uploaded, At
<1>3. /\ Conv(t).taxi /\ Conv(t).expense # None /\ e \in Expenses \cup {None} /\ Own(e)
    BY <1>1, <1>2, InCall DEF IInv, CallOK, HeapOK, ConversationState, FieldsOK
<1>4. \A v \in Task : (/\ v.cs = task[t].cs /\ v.cs # None /\ v.at = "retry_link"
                       /\ v.expense = e) => CallOK(v, Conv(t))
    BY <1>1, <1>3 DEF CallOK
<1>5. "retry_upload" \in Call \ {"idle", "auth"} /\ "retry_link" \in Call
    BY DEF Call
<1>6. QED
    BY <1>2, <1>3, <1>4, <1>5, UploadedStep

LEMMA EvidenceUploadedStep == ASSUME IInv, NEW t \in Tasks, EvidenceUploaded(t) PROVE IInv'
<1>1. PICK e : e = Conv(t).expense
    OBVIOUS
<1>2. /\ task[t].at = "evidence_upload"
      /\ Uploaded(t, "evidence_upload", "skipped", "evidence_submit", e)
    BY <1>1 DEF EvidenceUploaded, Uploaded, At
<1>3. /\ Conv(t).taxi /\ Conv(t).expense # None /\ e \in Expenses \cup {None} /\ Own(e)
    BY <1>1, <1>2, InCall DEF IInv, CallOK, HeapOK, ConversationState, FieldsOK
<1>4. \A v \in Task : (/\ v.cs = task[t].cs /\ v.cs # None /\ v.at = "evidence_submit"
                       /\ v.expense = e) => CallOK(v, Conv(t))
    BY <1>1, <1>3 DEF CallOK
<1>5. "evidence_upload" \in Call \ {"idle", "auth"} /\ "evidence_submit" \in Call
    BY DEF Call
<1>6. QED
    BY <1>2, <1>3, <1>4, <1>5, UploadedStep

LEMMA OptionalUploadedStep == ASSUME IInv, NEW t \in Tasks, OptionalUploaded(t) PROVE IInv'
<1>1. PICK e : e = Conv(t).expense
    OBVIOUS
<1>2. /\ task[t].at = "optional_upload"
      /\ Uploaded(t, "optional_upload", "skipped", "optional_attach", e)
    BY <1>1 DEF OptionalUploaded, Uploaded, At
<1>3. Conv(t).taxi /\ e \in Expenses \cup {None} /\ (e # None => Own(e))
    BY <1>1, <1>2, InCall DEF IInv, CallOK, HeapOK, ConversationState, FieldsOK
<1>4. \A v \in Task : (/\ v.cs = task[t].cs /\ v.cs # None /\ v.at = "optional_attach"
                       /\ v.expense = e) => CallOK(v, Conv(t))
    BY <1>3 DEF CallOK
<1>5. "optional_upload" \in Call \ {"idle", "auth"} /\ "optional_attach" \in Call
    BY DEF Call
<1>6. QED
    BY <1>2, <1>3, <1>4, <1>5, UploadedStep

LEMMA ManualReceiptStep == ASSUME IInv, NEW t \in Tasks, ManualReceipt(t) PROVE IInv'
<1>1. PICK e, then : e = Conv(t).expense /\ then = AmountCall(Conv(t))
    OBVIOUS
<1>2. task[t].at = "manual_receipt" /\ Uploaded(t, "manual_receipt", "skipped", then, e)
    BY <1>1 DEF ManualReceipt, Uploaded, At
<1>3. /\ Conv(t).taxi /\ e \in Expenses \cup {None} /\ (e # None => Own(e))
      /\ Conv(t).category \/ e # None
    BY <1>1, <1>2, InCall DEF IInv, CallOK, HeapOK, ConversationState, FieldsOK
<1>4. then = (IF e # None THEN "manual_update" ELSE "manual_create")
    BY <1>1 DEF AmountCall
<1>5. \A v \in Task : (/\ v.cs = task[t].cs /\ v.cs # None /\ v.at = then
                       /\ v.expense = e) => CallOK(v, Conv(t))
    BY <1>1, <1>3, <1>4 DEF CallOK
<1>6. "manual_receipt" \in Call \ {"idle", "auth"} /\ then \in Call
    BY <1>4 DEF Call
<1>7. QED
    BY <1>2, <1>3, <1>5, <1>6, UploadedStep

-----------------------------------------------------------------------------
(* Calls that write rows.                                                  *)

\* Row e gets the value v.
LEMMA RowWritten ==
    ASSUME TypeOK, NEW e \in Expenses, NEW v \in ExpenseRow, Own(e) => v.mine,
           expenses' = [expenses EXCEPT ![e] = v]
    PROVE  /\ expenses' \in [Expenses -> ExpenseRow \cup {None}]
           /\ expenses'[e] = v /\ v # None
           /\ \A f \in Expenses \ {e} : expenses'[f] = expenses[f]
           /\ RowsKept
           /\ v.mine => Own(e)'
<1>1. /\ expenses' \in [Expenses -> ExpenseRow \cup {None}]
      /\ expenses'[e] = v /\ v # None
      /\ \A f \in Expenses \ {e} : expenses'[f] = expenses[f]
    BY NoRowAssumption DEF TypeOK
<1>2. QED
    BY <1>1 DEF RowsKept, Own

\* A row of the driver that only changes its status and its receipt.
LEMMA OwnRowChanges ==
    ASSUME TypeOK, NEW e \in Expenses, Own(e), NEW s \in Status, NEW r \in Receipts \cup {None}
    PROVE  /\ [expenses[e] EXCEPT !.receipt = r, !.status = s] \in ExpenseRow
           /\ [expenses[e] EXCEPT !.receipt = r, !.status = s].mine
           /\ [expenses[e] EXCEPT !.receipt = r, !.status = s].receipt = r
           /\ expenses[e] \in ExpenseRow
BY DEF TypeOK, Own, ExpenseRow

\* Goroutine t writes row e and its receipt, and goes on.
LEMMA LinkStep ==
    ASSUME IInv, NEW t \in Tasks, Moves(t), task[t].at \in Linking, task'[t].at \notin Linking,
           NEW e \in Expenses, NEW v \in ExpenseRow, Own(e) => v.mine,
           expenses' = [expenses EXCEPT ![e] = v], v.receipt = task[t].receipt,
           UNCHANGED <<heap, store, shown, ocr, reviews, restarts>>,
           CallOK(task[t], heap[task[t].cs])'
    PROVE  IInv'
<1>1. /\ expenses' \in [Expenses -> ExpenseRow \cup {None}]
      /\ expenses'[e] = v /\ v # None
      /\ \A f \in Expenses \ {e} : expenses'[f] = expenses[f]
      /\ RowsKept
    BY RowWritten DEF IInv
<1>2. HeapOK' /\ \A o : Grown(heap[o], heap'[o])
    BY <1>1, HeapSame DEF IInv
<1>3. TasksOK'
    BY <1>1, <1>2, ActorMoves DEF IInv
<1>4. ReceiptsOK' /\ ReceiptCarriedOnce'
    BY <1>1, ReceiptLinked DEF IInv
<1>5. TypeOK'
    BY <1>1 DEF IInv, TypeOK, Moves
<1>6. QED
    BY <1>2, <1>3, <1>4, <1>5 DEF IInv

\* The receipt that a goroutine is about to link.
LEMMA HeldReceipt ==
    ASSUME IInv, NEW t \in Tasks, task[t].at \in Linking
    PROVE  task[t].receipt \in Receipts /\ task[t].at \notin {"idle", "auth"}
BY DEF IInv, ReceiptsOK, Linking

\* The row of a new expense.
LEMMA NewRow ==
    ASSUME NEW r \in Receipts
    PROVE  [mine |-> TRUE, status |-> StatusPending, receipt |-> r] \in ExpenseRow
BY DEF ExpenseRow, Status

LEMMA PhotoCreateStep == ASSUME IInv, NEW t \in Tasks, PhotoCreate(t) PROVE IInv'
<1>0. PICK r : r = task[t].receipt
    OBVIOUS
<1>1. PICK e \in Expenses : /\ InsertExpense(e, r)
                           /\ SaveNext(t, "AwaitingOCRConfirmation", r, e)
    BY <1>0 DEF PhotoCreate
<1>2. /\ task[t].at = "photo_create"
      /\ UNCHANGED <<heap, store, shown, ocr, reviews, restarts>>
    BY DEF PhotoCreate, At
<1>3. r \in Receipts
    BY <1>0, <1>2, HeldReceipt DEF Linking
<1>4. PICK v \in ExpenseRow : v = [mine |-> TRUE, status |-> StatusPending, receipt |-> r]
    BY <1>3, NewRow
<1>5. expenses' = [expenses EXCEPT ![e] = v] /\ v.mine /\ v.receipt = r
    BY <1>1, <1>4 DEF InsertExpense
<1>6. Own(e)'
    BY <1>5, RowWritten DEF IInv
<1>7. /\ Moves(t) /\ task'[t].at = "save" /\ task'[t].cs = task[t].cs
      /\ task'[t].next = "AwaitingOCRConfirmation"
      /\ task'[t].receipt = r /\ task'[t].expense = e
    BY <1>1, <1>3, SaveNextMoves DEF IInv, Saves
<1>8. /\ Conv(t).taxi /\ task[t].cs \in Objects /\ Conv(t) = heap[task[t].cs]
    BY <1>2, InCall DEF IInv, CallOK
<1>9. CallOK(task[t], heap[task[t].cs])'
    BY <1>2, <1>6, <1>7, <1>8, NoneAssumption DEF CallOK, Own, Saves
<1>10. QED
    BY <1>0, <1>2, <1>5, <1>7, <1>9, LinkStep DEF Linking

LEMMA ManualCreateStep == ASSUME IInv, NEW t \in Tasks, ManualCreate(t) PROVE IInv'
<1>0. PICK r : r = task[t].receipt
    OBVIOUS
<1>1. PICK e \in Expenses : InsertExpense(e, r) /\ Calls(t, "manual_amount", None, e)
    BY <1>0 DEF ManualCreate
<1>2. /\ task[t].at = "manual_create"
      /\ UNCHANGED <<heap, store, shown, ocr, reviews, restarts>>
    BY DEF ManualCreate, At
<1>3. r \in Receipts
    BY <1>0, <1>2, HeldReceipt DEF Linking
<1>4. PICK v \in ExpenseRow : v = [mine |-> TRUE, status |-> StatusPending, receipt |-> r]
    BY <1>3, NewRow
<1>5. expenses' = [expenses EXCEPT ![e] = v] /\ v.mine /\ v.receipt = r
    BY <1>1, <1>4 DEF InsertExpense
<1>6. Own(e)'
    BY <1>5, RowWritten DEF IInv
<1>7. /\ Moves(t) /\ task'[t].at = "manual_amount" /\ task'[t].cs = task[t].cs
      /\ task'[t].receipt = None /\ task'[t].expense = e
    BY <1>1, CallsMoves DEF IInv, Call
<1>8. /\ Conv(t).taxi /\ task[t].cs \in Objects /\ Conv(t) = heap[task[t].cs]
    BY <1>2, InCall DEF IInv, CallOK
<1>9. CallOK(task[t], heap[task[t].cs])'
    BY <1>2, <1>6, <1>7, <1>8, NoneAssumption DEF CallOK, Own
<1>10. QED
    BY <1>0, <1>2, <1>5, <1>7, <1>9, LinkStep DEF Linking

LEMMA RetryLinkStep == ASSUME IInv, NEW t \in Tasks, RetryLink(t) PROVE IInv'
<1>1. PICK e, r : e = task[t].expense /\ r = task[t].receipt
    OBVIOUS
<1>2. /\ task[t].at = "retry_link" /\ expenses' = [expenses EXCEPT ![e].receipt = r]
      /\ SaveNext(t, "AwaitingOCRConfirmation", r, None)
      /\ UNCHANGED <<heap, store, shown, ocr, reviews, restarts>>
    BY <1>1 DEF RetryLink, At
<1>3. r \in Receipts
    BY <1>1, <1>2, HeldReceipt DEF Linking
<1>4. /\ e \in Expenses /\ Own(e) /\ Conv(t).taxi /\ Conv(t).expense # None
      /\ task[t].cs \in Objects /\ Conv(t) = heap[task[t].cs]
    BY <1>1, <1>2, InCall DEF IInv, CallOK
<1>5. PICK v : v = [expenses[e] EXCEPT !.receipt = r]
    OBVIOUS
<1>6. v \in ExpenseRow /\ v.mine /\ v.receipt = r
    BY <1>3, <1>4, <1>5 DEF IInv, TypeOK, Own, ExpenseRow
<1>7. expenses' = [expenses EXCEPT ![e] = v]
    BY <1>2, <1>5
<1>8. /\ Moves(t) /\ task'[t].at = "save" /\ task'[t].cs = task[t].cs
      /\ task'[t].next = "AwaitingOCRConfirmation"
      /\ task'[t].receipt = r /\ task'[t].expense = None
    BY <1>2, <1>3, SaveNextMoves DEF IInv, Saves
<1>9. CallOK(task[t], heap[task[t].cs])'
    BY <1>2, <1>4, <1>8, NoneAssumption DEF CallOK, Saves
<1>10. /\ task[t].at \in Linking /\ task'[t].at \notin Linking
       /\ v \in ExpenseRow /\ (Own(e) => v.mine) /\ v.receipt = task[t].receipt
    BY <1>1, <1>2, <1>6, <1>8 DEF Linking
<1>11. QED
    BY <1>2, <1>4, <1>7, <1>8, <1>9, <1>10, LinkStep

LEMMA EvidenceSubmitStep == ASSUME IInv, NEW t \in Tasks, EvidenceSubmit(t) PROVE IInv'
<1>1. PICK e, r, f : e = task[t].expense /\ r = task[t].receipt /\ f = Conv(t).expense
    OBVIOUS
<1>2. /\ task[t].at = "evidence_submit"
      /\ expenses' = [expenses EXCEPT ![e].receipt = r, ![e].status = StatusConfirmed]
      /\ Calls(t, "evidence_attach", r, f)
      /\ UNCHANGED <<heap, store, shown, ocr, reviews, restarts>>
    BY <1>1 DEF EvidenceSubmit, At
<1>3. r \in Receipts
    BY <1>1, <1>2, HeldReceipt DEF Linking
<1>4. /\ e \in Expenses /\ Own(e) /\ Conv(t).taxi /\ f # None
      /\ task[t].cs \in Objects /\ Conv(t) = heap[task[t].cs]
    BY <1>1, <1>2, InCall DEF IInv, CallOK
<1>5. f \in Expenses /\ Own(f)
    BY <1>1, <1>4 DEF IInv, TypeOK, HeapOK, FieldsOK, ConversationState
<1>6. PICK v : v = [expenses[e] EXCEPT !.receipt = r, !.status = StatusConfirmed]
    OBVIOUS
<1>7. v \in ExpenseRow /\ v.mine /\ v.receipt = r
    BY <1>3, <1>4, <1>6, OwnRowChanges DEF IInv, Status
<1>8. expenses' = [expenses EXCEPT ![e] = v]
    BY <1>2, <1>4, <1>6 DEF IInv, TypeOK
<1>9. Own(f)'
    BY <1>4, <1>5, <1>7, <1>8, RowWritten DEF IInv, RowsKept
<1>10. /\ Moves(t) /\ task'[t].at = "evidence_attach" /\ task'[t].cs = task[t].cs
       /\ task'[t].receipt = r /\ task'[t].expense = f
    BY <1>2, <1>3, <1>5, CallsMoves DEF IInv, Call
<1>11. CallOK(task[t], heap[task[t].cs])'
    BY <1>1, <1>2, <1>4, <1>9, <1>10, NoneAssumption DEF CallOK, Own
<1>12. /\ task[t].at \in Linking /\ task'[t].at \notin Linking
       /\ v \in ExpenseRow /\ (Own(e) => v.mine) /\ v.receipt = task[t].receipt
    BY <1>1, <1>2, <1>7, <1>10 DEF Linking
<1>13. e \in Expenses /\ UNCHANGED <<heap, store, shown, ocr, reviews, restarts>>
    BY <1>2, <1>4
<1>14. QED
    BY <1>8, <1>10, <1>11, <1>12, <1>13, LinkStep

\* A row changes and no receipt moves.
LEMMA RowStep ==
    ASSUME IInv, NEW e \in Expenses, NEW v \in ExpenseRow, Own(e) => v.mine,
           expenses' = [expenses EXCEPT ![e] = v],
           v.receipt # None => expenses[e] # None /\ expenses[e].receipt = v.receipt,
           UNCHANGED <<heap, ocr>>,
           \A t \in Tasks : task'[t].at \in Linking =>
                task[t].at \in Linking /\ task[t].receipt = task'[t].receipt
    PROVE  /\ RowsKept /\ HeapOK' /\ (\A o : Grown(heap[o], heap'[o]))
           /\ ReceiptsOK' /\ ReceiptCarriedOnce'
           /\ expenses' \in [Expenses -> ExpenseRow \cup {None}]
           /\ v.mine => Own(e)'
<1>1. /\ expenses' \in [Expenses -> ExpenseRow \cup {None}]
      /\ expenses'[e] = v
      /\ \A f \in Expenses \ {e} : expenses'[f] = expenses[f]
      /\ RowsKept
      /\ v.mine => Own(e)'
    BY RowWritten DEF IInv
<1>2. HeapOK' /\ \A o : Grown(heap[o], heap'[o])
    BY <1>1, HeapSame DEF IInv
<1>3. \A f \in Expenses : expenses'[f] # None /\ expenses'[f].receipt \in Receipts =>
          expenses[f] # None /\ expenses[f].receipt = expenses'[f].receipt
    BY <1>1, NoneAssumption
<1>4. ReceiptsOK' /\ ReceiptCarriedOnce'
    BY <1>1, <1>3, ReceiptsQuiet DEF IInv
<1>5. QED
    BY <1>1, <1>2, <1>4

LEMMA ConfirmStep == ASSUME IInv, NEW t \in Tasks, Confirm(t) PROVE IInv'
<1>1. PICK e : e = task[t].expense
    OBVIOUS
<1>2. /\ task[t].at = "confirm" /\ expenses' = [expenses EXCEPT ![e].status = StatusConfirmed]
      /\ SaveNext(t, "AwaitingOptionalEvidence", None, None)
      /\ UNCHANGED <<heap, store, shown, ocr, reviews, restarts>>
    BY <1>1 DEF Confirm, At
<1>3. /\ e \in Expenses /\ Own(e) /\ Conv(t).taxi
      /\ task[t].cs \in Objects /\ Conv(t) = heap[task[t].cs]
    BY <1>1, <1>2, InCall DEF IInv, CallOK
<1>4. PICK v : v = [expenses[e] EXCEPT !.status = StatusConfirmed]
    OBVIOUS
<1>5. v \in ExpenseRow /\ v.mine /\ v.receipt = expenses[e].receipt /\ expenses[e] # None
    BY <1>3, <1>4 DEF IInv, TypeOK, Own, ExpenseRow, Status
<1>6. expenses' = [expenses EXCEPT ![e] = v]
    BY <1>2, <1>4
<1>7. /\ Moves(t) /\ task'[t].at = "save" /\ task'[t].cs = task[t].cs
      /\ task'[t].next = "AwaitingOptionalEvidence"
      /\ task'[t].receipt = None /\ task'[t].expense = None
    BY <1>2, SaveNextMoves DEF IInv, Saves
<1>8. CallOK(task[t], heap[task[t].cs])'
    BY <1>2, <1>3, <1>7, NoneAssumption DEF CallOK, Saves
<1>9. \A u \in Tasks : task'[u].at \in Linking =>
          task[u].at \in Linking /\ task[u].receipt = task'[u].receipt
    BY <1>7 DEF Moves, Linking
<1>10. /\ RowsKept /\ HeapOK' /\ (\A o : Grown(heap[o], heap'[o]))
       /\ ReceiptsOK' /\ ReceiptCarriedOnce'
       /\ expenses' \in [Expenses -> ExpenseRow \cup {None}]
    BY <1>2, <1>3, <1>5, <1>6, <1>9, RowStep
<1>11. TasksOK'
    BY <1>7, <1>8, <1>10, ActorMoves DEF IInv
<1>12. TypeOK'
    BY <1>2, <1>7, <1>10 DEF IInv, TypeOK, Moves
<1>13. QED
    BY <1>10, <1>11, <1>12 DEF IInv

\* No goroutine moves.
LEMMA NobodyMoves ==
    ASSUME TypeOK, TasksOK, RowsKept, UNCHANGED task,
           \A u \in Tasks : task[u].cs \in Objects =>
                Grown(heap[task[u].cs], heap'[task[u].cs])
    PROVE  TasksOK'
BY Bystanders DEF TasksOK

LEMMA OwnerReviewsStep == ASSUME IInv, NEW e \in Expenses, OwnerReviews(e) PROVE IInv'
<1>1. PICK status \in Reviewed \cup {StatusNeedsEvidence} :
          expenses' = [expenses EXCEPT ![e].status = status]
    BY DEF OwnerReviews
<1>2. /\ expenses[e] # None /\ reviews < MaxReviews /\ reviews' = reviews + 1
      /\ UNCHANGED <<heap, store, task, shown, ocr, restarts>>
    BY DEF OwnerReviews
<1>3. PICK v : v = [expenses[e] EXCEPT !.status = status]
    OBVIOUS
<1>4. v \in ExpenseRow /\ (Own(e) => v.mine) /\ v.receipt = expenses[e].receipt
    BY <1>2, <1>3 DEF IInv, TypeOK, Own, ExpenseRow, Status, Reviewed
<1>5. expenses' = [expenses EXCEPT ![e] = v]
    BY <1>1, <1>3
<1>6. /\ RowsKept /\ HeapOK' /\ (\A o : Grown(heap[o], heap'[o]))
      /\ ReceiptsOK' /\ ReceiptCarriedOnce'
      /\ expenses' \in [Expenses -> ExpenseRow \cup {None}]
    BY <1>2, <1>4, <1>5, RowStep
<1>7. TasksOK'
    BY <1>2, <1>6, NobodyMoves DEF IInv
<1>8. reviews' \in 0..MaxReviews
    BY <1>2, CountsAssumption DEF IInv, TypeOK
<1>9. TypeOK'
    BY <1>2, <1>6, <1>8 DEF IInv, TypeOK
<1>10. QED
    BY <1>6, <1>7, <1>9 DEF IInv

LEMMA OtherDriverCreatesStep ==
    ASSUME IInv, NEW e \in Expenses, OtherDriverCreates(e) PROVE IInv'
<1>1. PICK v : v = [mine |-> FALSE, status |-> StatusPending, receipt |-> None]
    OBVIOUS
<1>2. /\ expenses[e] = None /\ expenses' = [expenses EXCEPT ![e] = v]
      /\ UNCHANGED <<heap, store, task, shown, ocr, reviews, restarts>>
    BY <1>1 DEF OtherDriverCreates, NextExpense
<1>3. v \in ExpenseRow /\ (Own(e) => v.mine) /\ v.receipt = None
    BY <1>1, <1>2 DEF Own, ExpenseRow, Status
<1>4. /\ RowsKept /\ HeapOK' /\ (\A o : Grown(heap[o], heap'[o]))
      /\ ReceiptsOK' /\ ReceiptCarriedOnce'
      /\ expenses' \in [Expenses -> ExpenseRow \cup {None}]
    BY <1>2, <1>3, RowStep
<1>5. TasksOK'
    BY <1>2, <1>4, NobodyMoves DEF IInv
<1>6. TypeOK'
    BY <1>2, <1>4 DEF IInv, TypeOK
<1>7. QED
    BY <1>4, <1>5, <1>6 DEF IInv

-----------------------------------------------------------------------------
(* Steps that change objects.                                              *)

\* No row and no receipt changes, and no goroutine takes a receipt to link.
LEMMA ReceiptsAside ==
    ASSUME IInv, UNCHANGED <<ocr, expenses>>,
           \A t \in Tasks : task'[t] = task[t] \/ task'[t].at \notin Linking
    PROVE  RowsKept /\ ReceiptsOK' /\ ReceiptCarriedOnce'
<1>1. \A t \in Tasks : task'[t].at \in Linking =>
          task[t].at \in Linking /\ task[t].receipt = task'[t].receipt
    OBVIOUS
<1>2. expenses' \in [Expenses -> ExpenseRow \cup {None}]
    BY DEF IInv, TypeOK
<1>3. ReceiptsOK' /\ ReceiptCarriedOnce'
    BY <1>1, <1>2, ReceiptsQuiet DEF IInv
<1>4. QED
    BY <1>3, RowsSame

\* An object that a goroutine in T holds is not collected, and stays as it is.
LEMMA NotCollected ==
    ASSUME TypeOK, NEW T \in SUBSET Tasks, NEW used, HeldBy(T) \subseteq used,
           heap' = Collect(heap, used)
    PROVE  \A u \in T : task[u].cs \in Objects => Grown(heap[task[u].cs], heap'[task[u].cs])
<1>1. TAKE u \in T
<1>2. HAVE task[u].cs \in Objects
<1>3. task[u].cs \in used
    BY DEF HeldBy
<1>4. heap'[task[u].cs] = heap[task[u].cs]
    BY <1>2, <1>3, CollectIs DEF TypeOK
<1>5. QED
    BY <1>4, GrownSame

\* Goroutine t returns or takes an object to read from the database with.
LEMMA CollectStep ==
    ASSUME IInv, NEW t \in Tasks, Moves(t), task'[t].at \notin Linking,
           NEW used, HeldBy(Tasks \ {t}) \subseteq used, heap' = Collect(heap, used),
           UNCHANGED <<shown, ocr, expenses, reviews, restarts>>,
           store' \in Objects \cup {None},
           CallOK(task[t], heap[task[t].cs])'
    PROVE  IInv'
<1>1. RowsKept /\ ReceiptsOK' /\ ReceiptCarriedOnce'
    BY ReceiptsAside DEF Moves
<1>2. HeapOK' /\ heap' \in [Objects -> ConversationState]
    BY <1>1, HeapCollected DEF IInv
<1>3. \A u \in Tasks \ {t} : task[u].cs \in Objects =>
          Grown(heap[task[u].cs], heap'[task[u].cs])
    BY NotCollected DEF IInv
<1>4. TasksOK'
    BY <1>1, <1>3, ActorMoves DEF IInv
<1>5. TypeOK'
    BY <1>2 DEF IInv, TypeOK, Moves
<1>6. QED
    BY <1>1, <1>2, <1>4, <1>5 DEF IInv

LEMMA ReturnStep ==
    ASSUME IInv, NEW t \in Tasks, Return(t),
           heap' = Collect(heap, {store} \cup HeldBy(Tasks \ {t})),
           UNCHANGED <<store, shown, ocr, expenses, reviews, restarts>>
    PROVE  IInv'
<1>1. Moves(t) /\ task'[t] = NoTask
    BY ReturnMoves DEF IInv
<1>2. CallOK(task[t], heap[task[t].cs])'
    BY <1>1 DEF CallOK, NoTask
<1>3. PICK used : used = {store} \cup HeldBy(Tasks \ {t})
    OBVIOUS
<1>4. store' \in Objects \cup {None}
    BY DEF IInv, TypeOK
<1>5. task'[t].at \notin Linking
    BY <1>1 DEF NoTask, Linking
<1>6. QED
    BY <1>1, <1>2, <1>3, <1>4, <1>5, CollectStep

LEMMA FailsStep == ASSUME IInv, NEW t \in Tasks, Fails(t) PROVE IInv'
BY ReturnStep DEF Fails

LEMMA OptionalAttachStep == ASSUME IInv, NEW t \in Tasks, OptionalAttach(t) PROVE IInv'
BY ReturnStep DEF OptionalAttach

LEMMA AuthenticateStep == ASSUME IInv, NEW t \in Tasks, Authenticate(t) PROVE IInv'
<1>0. PICK call : call = CASE task[t].next = "gasto"   -> "assignment"
                           [] task[t].next = "soporte" -> "list"
                           [] OTHER                    -> "idle"
    OBVIOUS
<1>1. PICK o \in Objects :
          /\ StoreNew(o)
          /\ task' = [task EXCEPT ![t] =
                         IF call = "idle" THEN NoTask
                         ELSE [NoTask EXCEPT !.at = call, !.cs = o]]
    BY <1>0 DEF Authenticate
<1>2. call \in {"idle", "assignment", "list"}
    BY <1>0
<1>3. PICK s : s = IF call = "idle" THEN NoTask ELSE [NoTask EXCEPT !.at = call, !.cs = o]
    OBVIOUS
<1>4. /\ s \in Task /\ s.at = call /\ s.expense = None
      /\ s.cs = (IF call = "idle" THEN None ELSE o)
    BY <1>2, <1>3 DEF NoTask, Task, Call
<1>5. task' = [task EXCEPT ![t] = s]
    BY <1>1, <1>3
<1>6. Moves(t) /\ task'[t] = s
    BY <1>4, <1>5 DEF Moves, IInv, TypeOK
<1>7. CallOK(task[t], heap[task[t].cs])'
    BY <1>2, <1>4, <1>6, NoneAssumption DEF CallOK
<1>8. PICK used : used = HeldBy(Tasks)
    OBVIOUS
<1>9. heap' = Collect(heap, used) /\ store' \in Objects \cup {None}
    BY <1>1, <1>8 DEF StoreNew
<1>10. HeldBy(Tasks \ {t}) \subseteq used
    BY <1>8 DEF HeldBy
<1>11. task'[t].at \notin Linking /\ UNCHANGED <<shown, ocr, expenses, reviews, restarts>>
    BY <1>2, <1>4, <1>6 DEF Authenticate, Linking
<1>12. QED
    BY <1>6, <1>7, <1>9, <1>10, <1>11, CollectStep

\* What a goroutine in "save" leaves in its object.
LEMMA SavedOK ==
    ASSUME NEW cs \in ConversationState, FieldsOK(cs), NEW s \in Task, CallOK(s, cs),
           s.at = "save"
    PROVE  /\ Saved(cs, s) \in ConversationState
           /\ FieldsOK(Saved(cs, s))
           /\ Grown(cs, Saved(cs, s))
<1>1. PICK v : v = Saved(cs, s)
    OBVIOUS
<1>2. /\ v.state = s.next
      /\ v.taxi = (cs.taxi \/ s.next \in {"AwaitingCategorySelection", "AwaitingEvidencePhoto"})
      /\ v.category = cs.category
      /\ v.receipt = (IF s.receipt = None THEN cs.receipt ELSE s.receipt)
      /\ v.expense = (IF s.expense = None THEN cs.expense ELSE s.expense)
    BY <1>1 DEF Saved, ConversationState
<1>3. v = [state |-> v.state, taxi |-> v.taxi, category |-> v.category,
           receipt |-> v.receipt, expense |-> v.expense]
    BY <1>1 DEF Saved, ConversationState
<1>4. s.next \in Saves /\ s.next \in State
    BY DEF CallOK, Saves, State
<1>5. /\ s.receipt \in Receipts \cup {None} /\ s.expense \in Expenses \cup {None}
      /\ cs.receipt \in Receipts \cup {None} /\ cs.expense \in Expenses \cup {None}
      /\ cs.taxi \in BOOLEAN /\ cs.category \in BOOLEAN
    BY DEF Task, ConversationState
<1>6. /\ v.state \in State /\ v.taxi \in BOOLEAN /\ v.category \in BOOLEAN
      /\ v.receipt \in Receipts \cup {None} /\ v.expense \in Expenses \cup {None}
    BY <1>2, <1>4, <1>5
<1>7. v \in ConversationState
    BY <1>3, <1>6 DEF ConversationState
<1>8. v.state \in {"AwaitingManualAmount", "AwaitingOCRConfirmation",
                   "AwaitingEvidencePhoto"} => v.expense # None
    BY <1>2, <1>4 DEF CallOK, Saves
<1>9. v.taxi
    BY <1>2, <1>4 DEF CallOK, Saves
<1>10. v.receipt # None => v.expense # None
    BY <1>2 DEF CallOK, FieldsOK
<1>11. v.expense # None => Own(v.expense)
    BY <1>2 DEF CallOK, FieldsOK
<1>12. v.state # "AwaitingReceiptPhoto"
    BY <1>2, <1>4 DEF Saves
<1>13. FieldsOK(v)
    BY <1>8, <1>9, <1>10, <1>11, <1>12 DEF FieldsOK
<1>14. Grown(cs, v)
    BY <1>2 DEF Grown
<1>15. QED
    BY <1>1, <1>7, <1>13, <1>14

\* Object o becomes v, and objects outside used become new ones.
LEMMA ObjectWritten ==
    ASSUME IInv, UNCHANGED expenses, NEW o \in Objects, NEW v \in ConversationState, FieldsOK(v),
           Grown(heap[o], v), NEW used, heap' = Collect([heap EXCEPT ![o] = v], used)
    PROVE  /\ HeapOK' /\ heap' \in [Objects -> ConversationState]
           /\ \A p \in Objects \cap used : Grown(heap[p], heap'[p])
<1>1. PICK objects \in [Objects -> ConversationState] : objects = [heap EXCEPT ![o] = v]
    BY DEF IInv, TypeOK
<1>2. objects[o] = v /\ \A p \in Objects \ {o} : objects[p] = heap[p]
    BY <1>1 DEF IInv, TypeOK
<1>3. /\ heap' \in [Objects -> ConversationState]
      /\ \A p \in Objects \cap used : heap'[p] = objects[p]
      /\ \A p \in Objects \ used : heap'[p] = NewState
    <2>1. PICK h : h = Collect(objects, used)
        OBVIOUS
    <2>2. heap' = h
        BY <1>1, <2>1
    <2>3. /\ h \in [Objects -> ConversationState]
          /\ \A p \in Objects \cap used : h[p] = objects[p]
          /\ \A p \in Objects \ used : h[p] = NewState
        BY <2>1, CollectIs
    <2>4. QED
        BY <2>2, <2>3
<1>4. \A p \in Objects : FieldsOK(objects[p])
    BY <1>2 DEF IInv, HeapOK
<1>5. \A p \in Objects : FieldsOK(heap'[p])
    BY <1>3, <1>4, NewFieldsOK
<1>6. ASSUME NEW p \in Objects PROVE FieldsOK(heap[p])'
    BY <1>5 DEF FieldsOK, Own
<1>7. \A p \in Objects \cap used : Grown(heap[p], heap'[p])
    BY <1>2, <1>3, GrownSame
<1>8. QED
    BY <1>3, <1>6, <1>7 DEF HeapOK

LEMMA SaveStep == ASSUME IInv, NEW t \in Tasks, Save(t) PROVE IInv'
<1>1. PICK s, cs : s = task[t] /\ cs = heap[s.cs]
    OBVIOUS
<1>2. /\ s.at = "save" /\ s \in Task /\ cs \in ConversationState /\ s.cs \in Objects
      /\ CallOK(s, cs) /\ FieldsOK(cs)
    BY <1>1, InCall DEF Save, At, IInv, TypeOK, HeapOK
<1>3. PICK v \in ConversationState : v = Saved(cs, s) /\ FieldsOK(v) /\ Grown(cs, v)
    BY <1>2, SavedOK
<1>4. PICK used : used = {s.cs} \cup HeldBy(Tasks)
    OBVIOUS
<1>5. heap' = Collect([heap EXCEPT ![s.cs] = v], used)
    BY <1>1, <1>3, <1>4 DEF Save
<1>6. /\ store' = s.cs /\ Return(t) /\ UNCHANGED <<ocr, expenses, reviews, restarts>>
      /\ shown' \subseteq shown \cup {"cancel"}
    BY <1>1 DEF Save
<1>7. /\ HeapOK' /\ heap' \in [Objects -> ConversationState]
      /\ \A p \in Objects \cap used : Grown(heap[p], heap'[p])
    <2>1. UNCHANGED expenses
        BY <1>6
    <2>2. Grown(heap[s.cs], v)
        BY <1>1, <1>3
    <2>3. QED
        BY <1>2, <1>3, <1>5, <2>1, <2>2, ObjectWritten
<1>8. Moves(t) /\ task'[t] = NoTask
    BY <1>6, ReturnMoves DEF IInv
<1>9. RowsKept /\ ReceiptsOK' /\ ReceiptCarriedOnce'
    BY <1>6, <1>8, ReceiptsAside DEF Moves, NoTask, Linking
<1>10. \A u \in Tasks \ {t} : task[u].cs \in Objects =>
           Grown(heap[task[u].cs], heap'[task[u].cs])
    BY <1>4, <1>7 DEF HeldBy
<1>11. CallOK(task[t], heap[task[t].cs])'
    BY <1>8 DEF CallOK, NoTask
<1>12. TasksOK'
    BY <1>8, <1>9, <1>10, <1>11, ActorMoves DEF IInv
<1>13. TypeOK'
    BY <1>2, <1>6, <1>7, <1>8 DEF IInv, TypeOK, Moves
<1>14. QED
    BY <1>7, <1>9, <1>12, <1>13 DEF IInv

-----------------------------------------------------------------------------
(* Answers, buttons and reset: no goroutine moves.                         *)

LEMMA AnswersStep ==
    ASSUME IInv, NEW v \in ConversationState, Answers(v), FieldsOK(v), Grown(heap[store], v)
    PROVE  IInv'
<1>1. /\ store \in Objects /\ heap' = [heap EXCEPT ![store] = v]
      /\ UNCHANGED <<store, task, shown, ocr, expenses, reviews, restarts>>
    BY DEF Answers, IInv, TypeOK
<1>2. RowsKept /\ ReceiptsOK' /\ ReceiptCarriedOnce'
    BY <1>1, ReceiptsAside
<1>3. heap' \in [Objects -> ConversationState] /\ \A o : Grown(heap[o], heap'[o])
    BY <1>1, GrownSame DEF IInv, TypeOK
<1>4. \A o \in Objects : FieldsOK(heap'[o])
    BY <1>1 DEF IInv, TypeOK, HeapOK
<1>5. HeapOK'
    <2>1. ASSUME NEW o \in Objects PROVE FieldsOK(heap[o])'
        BY <1>1, <1>4 DEF FieldsOK, Own
    <2>2. QED
        BY <2>1 DEF HeapOK
<1>6. TasksOK'
    BY <1>1, <1>2, <1>3, NobodyMoves DEF IInv
<1>7. TypeOK'
    BY <1>1, <1>3 DEF IInv, TypeOK
<1>8. QED
    BY <1>2, <1>5, <1>6, <1>7 DEF IInv

LEMMA ResetStep == ASSUME IInv, Reset PROVE IInv'
<1>1. PICK o \in Objects : StoreNew(o)
    BY DEF Reset
<1>2. heap' = Collect(heap, HeldBy(Tasks)) /\ store' = o
      /\ UNCHANGED <<task, shown, ocr, expenses, reviews, restarts>>
    BY <1>1 DEF StoreNew, Reset
<1>3. RowsKept /\ ReceiptsOK' /\ ReceiptCarriedOnce'
    BY <1>2, ReceiptsAside
<1>4. HeapOK' /\ heap' \in [Objects -> ConversationState]
    BY <1>2, <1>3, HeapCollected DEF IInv
<1>5. \A u \in Tasks : task[u].cs \in Objects => Grown(heap[task[u].cs], heap'[task[u].cs])
    <2>1. HeldBy(Tasks) \subseteq HeldBy(Tasks)
        OBVIOUS
    <2>2. QED
        BY <1>2, <2>1, NotCollected DEF IInv
<1>6. TasksOK'
    BY <1>2, <1>3, <1>5, NobodyMoves DEF IInv
<1>7. TypeOK'
    BY <1>2, <1>4 DEF IInv, TypeOK
<1>8. QED
    BY <1>3, <1>4, <1>6, <1>7 DEF IInv

LEMMA ChatStep == ASSUME IInv, Chat PROVE IInv'
<1>1. ASSUME HandleCategorySelection PROVE IInv'
    <2>1. PICK v : v = [heap[store] EXCEPT !.state = "AwaitingReceiptPhoto",
                                           !.category = TRUE]
        OBVIOUS
    <2>2. /\ store # None /\ heap[store].state = "AwaitingCategorySelection" /\ Answers(v)
        BY <1>1, <2>1 DEF HandleCategorySelection
    <2>3. FieldsOK(heap[store]) /\ heap[store] \in ConversationState
        BY <2>2, Stored DEF IInv
    <2>4. v \in ConversationState /\ FieldsOK(v) /\ Grown(heap[store], v)
        BY <2>1, <2>2, <2>3 DEF ConversationState, State, FieldsOK, Grown
    <2>5. QED
        BY <2>2, <2>4, AnswersStep
<1>2. ASSUME HandleEditAmount PROVE IInv'
    <2>1. PICK v : v = [heap[store] EXCEPT !.state = "AwaitingManualAmount"]
        OBVIOUS
    <2>2. store # None /\ heap[store].expense # None /\ Answers(v)
        BY <1>2, <2>1 DEF HandleEditAmount
    <2>3. FieldsOK(heap[store]) /\ heap[store] \in ConversationState
        BY <2>2, Stored DEF IInv
    <2>4. v \in ConversationState /\ FieldsOK(v) /\ Grown(heap[store], v)
        BY <2>1, <2>2, <2>3 DEF ConversationState, State, FieldsOK, Grown
    <2>5. QED
        BY <2>2, <2>4, AnswersStep
<1>3. ASSUME HandleCallbackRetryPhoto PROVE IInv'
    <2>1. PICK v : v = [heap[store] EXCEPT !.state = "AwaitingReceiptPhoto", !.receipt = None]
        OBVIOUS
    <2>2. store # None /\ heap[store].expense # None /\ Answers(v)
        BY <1>3, <2>1 DEF HandleCallbackRetryPhoto
    <2>3. FieldsOK(heap[store]) /\ heap[store] \in ConversationState
        BY <2>2, Stored DEF IInv
    <2>4. v \in ConversationState /\ FieldsOK(v) /\ Grown(heap[store], v)
        BY <2>1, <2>2, <2>3 DEF ConversationState, State, FieldsOK, Grown
    <2>5. QED
        BY <2>2, <2>4, AnswersStep
<1>4. ASSUME HandleCallbackCancelEvidence \/ HandleOmitir PROVE IInv'
    BY <1>4, ResetStep DEF HandleCallbackCancelEvidence, HandleOmitir
<1>5. QED
    BY <1>1, <1>2, <1>3, <1>4 DEF Chat

-----------------------------------------------------------------------------
(* The OCR pool and the process.                                           *)

LEMMA NotifyOCRResultStep ==
    ASSUME IInv, NEW r \in Receipts, NotifyOCRResult(r)
    PROVE  IInv'
<1>1. /\ ocr[r] = "pending" /\ UNCHANGED <<store, task, expenses, reviews, restarts>>
      /\ ocr' = [ocr EXCEPT ![r] = "failed"] \/ ocr' = [ocr EXCEPT ![r] = "skipped"]
      /\ shown' \subseteq shown \cup {"confirm", "retry"}
    BY DEF NotifyOCRResult
<1>2. /\ ocr' \in [Receipts -> OcrState]
      /\ \A q \in Receipts : ocr'[q] = "absent" <=> ocr[q] = "absent"
    BY <1>1 DEF IInv, TypeOK, OcrState
<1>3. RowsKept
    BY <1>1, RowsSame
<1>4. ReceiptsOK' /\ ReceiptCarriedOnce'
    <2>1. expenses' \in [Expenses -> ExpenseRow \cup {None}]
        BY <1>1 DEF IInv, TypeOK
    <2>2. QED
        BY <1>1, <1>2, <2>1, ReceiptsQuiet DEF IInv
<1>5. /\ heap' \in [Objects -> ConversationState]
      /\ \A o \in Objects : FieldsOK(heap'[o])
      /\ \A o : Grown(heap[o], heap'[o])
    <2>1. CASE heap' = heap
        BY <2>1, GrownSame DEF IInv, TypeOK, HeapOK
    <2>2. CASE /\ store # None /\ heap[store].expense # None
               /\ heap' = [heap EXCEPT ![store].state = "AwaitingManualAmount"]
        <3>1. PICK v : v = [heap[store] EXCEPT !.state = "AwaitingManualAmount"]
            OBVIOUS
        <3>2. store \in Objects /\ FieldsOK(heap[store]) /\ heap[store] \in ConversationState
            BY <2>2, Stored DEF IInv
        <3>3. v \in ConversationState /\ FieldsOK(v) /\ Grown(heap[store], v)
            BY <2>2, <3>1, <3>2 DEF ConversationState, State, FieldsOK, Grown
        <3>4. heap' = [heap EXCEPT ![store] = v]
            BY <2>2, <3>1, <3>2 DEF IInv, TypeOK
        <3>5. QED
            BY <3>2, <3>3, <3>4, GrownSame DEF IInv, TypeOK, HeapOK
    <2>3. QED
        BY <2>1, <2>2 DEF NotifyOCRResult
<1>6. HeapOK'
    <2>1. ASSUME NEW o \in Objects PROVE FieldsOK(heap[o])'
        BY <1>1, <1>5 DEF FieldsOK, Own
    <2>2. QED
        BY <2>1 DEF HeapOK
<1>7. TasksOK'
    BY <1>1, <1>3, <1>5, NobodyMoves DEF IInv
<1>8. TypeOK'
    BY <1>1, <1>2, <1>5 DEF IInv, TypeOK
<1>9. QED
    BY <1>4, <1>6, <1>7, <1>8 DEF IInv

LEMMA ForgetStep ==
    ASSUME IInv, Forget, UNCHANGED <<shown, ocr, expenses, reviews>>,
           restarts' \in 0..MaxRestarts
    PROVE  IInv'
<1>1. /\ store' = None /\ heap' = Collect(heap, {})
      /\ \A t \in Tasks : task'[t] = NoTask
      /\ task' \in [Tasks -> Task]
    BY NoTaskIsTask DEF Forget
<1>2. RowsKept /\ ReceiptsOK' /\ ReceiptCarriedOnce'
    BY <1>1, ReceiptsAside DEF NoTask, Linking
<1>3. HeapOK' /\ heap' \in [Objects -> ConversationState]
    BY <1>1, <1>2, HeapCollected DEF IInv
<1>4. TasksOK'
    BY <1>1 DEF TasksOK, CallOK, NoTask
<1>5. TypeOK'
    BY <1>1, <1>3 DEF IInv, TypeOK
<1>6. QED
    BY <1>2, <1>3, <1>4, <1>5 DEF IInv

LEMMA OptionalAttachPanicsStep ==
    ASSUME IInv, NEW t \in Tasks, OptionalAttachPanics(t)
    PROVE  IInv'
BY ForgetStep DEF OptionalAttachPanics, IInv, TypeOK

LEMMA RestartStep == ASSUME IInv, Restart PROVE IInv'
<1>1. restarts' \in 0..MaxRestarts
    BY CountsAssumption DEF IInv, TypeOK, Restart
<1>2. QED
    BY <1>1, ForgetStep DEF Restart

-----------------------------------------------------------------------------
(* Invariance.                                                             *)

LEMMA InvInit == Init => IInv
<1>1. SUFFICES ASSUME Init PROVE IInv
    OBVIOUS
<1>2. TypeOK
    BY <1>1, NewFieldsOK, NoTaskIsTask, CountsAssumption DEF Init, TypeOK, OcrState
<1>3. HeapOK
    BY <1>1, NewFieldsOK DEF Init, HeapOK
<1>4. TasksOK
    BY <1>1 DEF Init, TasksOK, CallOK, NoTask
<1>5. ReceiptsOK /\ ReceiptCarriedOnce
    BY <1>1 DEF Init, ReceiptsOK, ReceiptCarriedOnce, Links, Uncarried, NoTask, Linking
<1>6. QED
    BY <1>2, <1>3, <1>4, <1>5 DEF IInv

LEMMA MessageStep == ASSUME IInv, NEW t \in Tasks, Message(t) PROVE IInv'
BY NeedsAuthStep, HandleGastoStep, HandleSoporteStep, HandlePhotoStep,
   HandleManualAmountStep, HandleConfirmOCRStep DEF Message

LEMMA ContinueStep == ASSUME IInv, NEW t \in Tasks, Continue(t) PROVE IInv'
<1>1. CASE Authenticate(t) \/ GotAssignment(t) \/ Listed(t) \/ Save(t)
    BY <1>1, AuthenticateStep, GotAssignmentStep, ListedStep, SaveStep
<1>2. CASE PhotoUploaded(t) \/ RetryUploaded(t) \/ EvidenceUploaded(t)
           \/ OptionalUploaded(t) \/ ManualReceipt(t)
    BY <1>2, PhotoUploadedStep, RetryUploadedStep, EvidenceUploadedStep,
       OptionalUploadedStep, ManualReceiptStep
<1>3. CASE PhotoCreate(t) \/ RetryLink(t) \/ EvidenceSubmit(t) \/ ManualCreate(t)
           \/ Confirm(t)
    BY <1>3, PhotoCreateStep, RetryLinkStep, EvidenceSubmitStep, ManualCreateStep,
       ConfirmStep
<1>4. CASE EvidenceAttach(t) \/ OptionalAttach(t) \/ OptionalAttachPanics(t)
           \/ ManualUpdate(t) \/ ManualAmount(t)
    BY <1>4, EvidenceAttachStep, OptionalAttachStep, OptionalAttachPanicsStep,
       ManualUpdateStep, ManualAmountStep
<1>5. QED
    BY <1>1, <1>2, <1>3, <1>4 DEF Continue

LEMMA InvStep == IInv /\ [Next]_vars => IInv'
<1>1. SUFFICES ASSUME IInv, [Next]_vars PROVE IInv'
    OBVIOUS
<1>2. ASSUME NEW t \in Tasks, Message(t) \/ Continue(t) \/ Fails(t) PROVE IInv'
    BY <1>1, <1>2, MessageStep, ContinueStep, FailsStep
<1>3. CASE Chat
    BY <1>1, <1>3, ChatStep
<1>4. CASE Environment
    BY <1>1, <1>4, NotifyOCRResultStep, OwnerReviewsStep, OtherDriverCreatesStep,
       RestartStep DEF Environment
<1>5. CASE UNCHANGED vars
    <2>1. UNCHANGED <<heap, store, task, shown, ocr, expenses, reviews, restarts>>
        BY <1>5 DEF vars
    <2>2. TypeOK' /\ HeapOK'
        BY <1>1, <2>1 DEF IInv, TypeOK, HeapOK, FieldsOK, Own
    <2>3. TasksOK'
        BY <1>1, <2>1 DEF IInv, TasksOK, CallOK, Own
    <2>4. ReceiptsOK' /\ ReceiptCarriedOnce'
        BY <1>1, <2>1 DEF IInv, ReceiptsOK, ReceiptCarriedOnce, Links, Uncarried
    <2>5. QED
        BY <2>2, <2>3, <2>4 DEF IInv
<1>6. QED
    BY <1>1, <1>2, <1>3, <1>4, <1>5 DEF Next

\* Whatever goroutines run at the same time, what each checked before the call
\* it is in still holds.
THEOREM Invariance == Spec => []IInv
BY InvInit, InvStep, PTL DEF Spec

\* Every object, goroutine and row is always of its type.
THEOREM TypeCorrect == Spec => []TypeOK
<1>1. IInv => TypeOK
    BY DEF IInv
<1>2. QED
    BY <1>1, Invariance, PTL

\* However many messages are handled at once, and whichever of them writes the
\* object of another, a state is only entered with the ids its handlers
\* dereference.
THEOREM StatesHaveTheirFields == Spec => []StateHasItsFields
<1>1. IInv => StateHasItsFields
    BY DEF IInv, HeapOK, FieldsOK, StateHasItsFields
<1>2. QED
    BY <1>1, Invariance, PTL

\* No conversation and no handler ever names the expense of another driver, so
\* UpdateAmount, which checks no driver, is only called for one's own.
THEOREM OnlyOwnExpenses == Spec => []OwnExpensesOnly
<1>1. IInv => OwnExpensesOnly
    BY DEF IInv, HeapOK, FieldsOK, TasksOK, CallOK, Own, OwnExpensesOnly
<1>2. QED
    BY <1>1, Invariance, PTL

\* The ids that a handler checked before an upload or a query are still set
\* when it dereferences them after it.
THEOREM NeverDereferencesNil == Spec => []NoNilDereference
<1>1. IInv => NoNilDereference
    BY DEF IInv, TasksOK, CallOK, Conv, NoNilDereference
<1>2. QED
    BY <1>1, Invariance, PTL

\* Photos, retries, evidence and typed amounts handled at the same time never
\* give the same receipt to two expenses.
THEOREM ReceiptsCarriedOnce == Spec => []ReceiptCarriedOnce
<1>1. IInv => ReceiptCarriedOnce
    BY DEF IInv
<1>2. QED
    BY <1>1, Invariance, PTL

-----------------------------------------------------------------------------
(* One expense per conversation.  While a photo is being registered, only  *)
(* a handler that stores an expense in the same conversation, such as that *)
(* of a second photo, can make its guard stale.                            *)

Registering == {"photo_upload", "photo_create"}

SavesExpense(t) == At(t, "save") /\ task[t].expense # None

\* No message stores an expense in a conversation that registers a photo.
PhotosApart ==
    \A t, u \in Tasks : (t # u /\ task[t].at \in Registering /\ SavesExpense(u)) =>
        task[u].cs # task[t].cs

\* The photo that a goroutine registers is of a conversation without an expense.
Registers(t) == task[t].at \in Registering => Conv(t).expense = None

\* The goroutine goes on, or into another call, with its object as it was.
LEMMA RegistersStay ==
    ASSUME NEW t \in Tasks, Registers(t), task[t].at \in Registering,
           task'[t].cs = task[t].cs, heap'[task[t].cs].expense = heap[task[t].cs].expense
    PROVE  Registers(t)'
BY DEF Registers, Conv

LEMMA MessageRegisters ==
    ASSUME IInv, NEW t \in Tasks, Message(t)
    PROVE  Registers(t)'
<1>1. CASE HandlePhoto(t)
    <2>1. PICK cs, call : cs = heap[store] /\ call = PhotoUpload(cs)
        OBVIOUS
    <2>2. store # None /\ call # "idle" /\ Begins(t, call) /\ Reading
        BY <1>1, <2>1 DEF HandlePhoto
    <2>3. /\ call \in {"evidence_upload", "optional_upload", "photo_upload", "retry_upload"}
          /\ call = "photo_upload" => cs.expense = None
        BY <2>1, <2>2 DEF PhotoUpload
    <2>4. call \in Call
        BY <2>3 DEF Call
    <2>5. task'[t].at = call /\ task'[t].cs = store
        BY <2>2, <2>4, BeginsMoves DEF IInv
    <2>6. heap'[task'[t].cs] = cs
        BY <2>1, <2>2, <2>5 DEF Reading
    <2>7. QED
        BY <2>3, <2>5, <2>6 DEF Registers, Registering, Conv
<1>2. CASE ~ HandlePhoto(t)
    <2>1. ASSUME NEW call, Begins(t, call), call \notin Registering
          PROVE  task'[t].at \notin Registering
        BY <2>1 DEF Begins, NoTask, IInv, TypeOK
    <2>2. ASSUME NEW call, NEW r, NEW e, BeginsWith(t, call, r, e), call \notin Registering
          PROVE  task'[t].at \notin Registering
        BY <2>2 DEF BeginsWith, NoTask, IInv, TypeOK
    <2>3. ASSUME NeedsAuth(t) PROVE task'[t].at \notin Registering
        <3>1. PICK handler : task' = [task EXCEPT ![t] =
                                 [NoTask EXCEPT !.at = "auth", !.next = handler]]
            BY <2>3 DEF NeedsAuth
        <3>2. task'[t] = [NoTask EXCEPT !.at = "auth", !.next = handler]
            BY <3>1 DEF IInv, TypeOK
        <3>3. QED
            BY <3>2 DEF NoTask, Registering
    <2>4. CASE HandleGasto(t) \/ HandleSoporte(t)
        <3>1. \E call : Begins(t, call) /\ call \notin Registering
            BY <2>4 DEF HandleGasto, HandleSoporte, Registering
        <3>2. QED
            BY <2>1, <3>1 DEF Registers
    <2>5. CASE HandleManualAmount(t)
        <3>1. \/ \E call : Begins(t, call) /\ call \notin Registering
              \/ \E call, r, e : BeginsWith(t, call, r, e) /\ call \notin Registering
            BY <2>5 DEF HandleManualAmount, AmountCall, Registering
        <3>2. QED
            BY <2>1, <2>2, <3>1 DEF Registers
    <2>6. CASE HandleConfirmOCR(t)
        <3>1. \E call, r, e : BeginsWith(t, call, r, e) /\ call \notin Registering
            BY <2>6 DEF HandleConfirmOCR, Registering
        <3>2. QED
            BY <2>2, <3>1 DEF Registers
    <2>7. CASE NeedsAuth(t)
        BY <2>3, <2>7 DEF Registers
    <2>8. QED
        BY <1>2, <2>4, <2>5, <2>6, <2>7 DEF Message
<1>3. QED
    BY <1>1, <1>2

\* Every step of a goroutine but that one leaves the registration.
LEMMA ContinueRegisters ==
    ASSUME IInv, NEW t \in Tasks, Registers(t), Continue(t) \/ Fails(t)
    PROVE  Registers(t)'
<1>1. CASE PhotoUploaded(t)
    <2>1. PICK r \in Receipts : Calls(t, "photo_create", r, None)
        BY <1>1 DEF PhotoUploaded, Uploaded
    <2>2. task[t].at = "photo_upload" /\ UNCHANGED heap
        BY <1>1 DEF PhotoUploaded, Uploaded, At
    <2>3. task'[t].cs = task[t].cs
        BY <2>1, CallsMoves DEF IInv, Call
    <2>4. QED
        BY <2>2, <2>3, RegistersStay DEF Registering
<1>2. CASE ~ PhotoUploaded(t)
    <2>1. task'[t].at \notin Registering
        <3>1. CASE Fails(t) \/ Save(t) \/ OptionalAttach(t) \/ OptionalAttachPanics(t)
            <4>1. Return(t) \/ task' = [u \in Tasks |-> NoTask]
                BY <3>1 DEF Fails, Save, OptionalAttach, OptionalAttachPanics, Forget
            <4>2. task'[t] = NoTask
                BY <4>1, ReturnMoves DEF IInv
            <4>3. QED
                BY <4>2 DEF NoTask, Registering
        <3>2. CASE Authenticate(t)
            <4>1. PICK call \in {"idle", "assignment", "list"}, o \in Objects :
                      task' = [task EXCEPT ![t] = IF call = "idle" THEN NoTask
                                                  ELSE [NoTask EXCEPT !.at = call, !.cs = o]]
                BY <3>2 DEF Authenticate
            <4>2. task'[t] = IF call = "idle" THEN NoTask
                             ELSE [NoTask EXCEPT !.at = call, !.cs = o]
                BY <4>1 DEF IInv, TypeOK
            <4>3. QED
                BY <4>2 DEF NoTask, Registering
        <3>3. ASSUME NEW state, NEW r, NEW e, SaveNext(t, state, r, e)
              PROVE  task'[t].at \notin Registering
            BY <3>3 DEF SaveNext, IInv, TypeOK, Task, Registering
        <3>4. ASSUME NEW call, NEW r, NEW e, Calls(t, call, r, e), call \notin Registering
              PROVE  task'[t].at \notin Registering
            BY <3>4 DEF Calls, IInv, TypeOK, Task
        <3>5. CASE GotAssignment(t) \/ Listed(t) \/ PhotoCreate(t) \/ RetryLink(t)
                   \/ EvidenceAttach(t) \/ Confirm(t)
            <4>1. \E state, r, e : SaveNext(t, state, r, e)
                BY <3>5 DEF GotAssignment, Listed, PhotoCreate, RetryLink, EvidenceAttach, Confirm
            <4>2. QED
                BY <3>3, <4>1
        <3>6. CASE RetryUploaded(t) \/ EvidenceUploaded(t) \/ OptionalUploaded(t)
                   \/ ManualReceipt(t) \/ EvidenceSubmit(t) \/ ManualUpdate(t)
                   \/ ManualCreate(t) \/ ManualAmount(t)
            <4>1. \E call, r, e : Calls(t, call, r, e) /\ call \notin Registering
                BY <3>6 DEF RetryUploaded, EvidenceUploaded, OptionalUploaded, ManualReceipt,
                   Uploaded, AmountCall, EvidenceSubmit, ManualUpdate, ManualCreate,
                   ManualAmount, Registering
            <4>2. QED
                BY <3>4, <4>1
        <3>7. QED
            BY <1>2, <3>1, <3>2, <3>5, <3>6 DEF Continue
    <2>2. QED
        BY <2>1 DEF Registers
<1>3. QED
    BY <1>1, <1>2

\* Chat and environment: the goroutine's object keeps its expense.
LEMMA OthersRegister ==
    ASSUME IInv, NEW t \in Tasks, Registers(t), Chat \/ Environment
    PROVE  Registers(t)'
<1>1. CASE task[t].at \notin Registering
    <2>1. task'[t] = task[t] \/ task'[t] = NoTask
        BY DEF Chat, HandleCategorySelection, HandleEditAmount, HandleCallbackRetryPhoto,
           HandleCallbackCancelEvidence, HandleOmitir, Reset, Answers, Environment,
           NotifyOCRResult, OwnerReviews, OtherDriverCreates, Restart, Forget
    <2>2. QED
        BY <1>1, <2>1 DEF Registers, Registering, NoTask
<1>2. CASE task[t].at \in Registering
    <2>1. task[t].cs \in Objects /\ task[t].cs \in HeldBy(Tasks)
        BY <1>2, InCall DEF IInv, Registering, HeldBy
    <2>2. CASE HandleCategorySelection \/ HandleEditAmount \/ HandleCallbackRetryPhoto
        <3>1. PICK v : Answers(v) /\ v.expense = heap[store].expense /\ store \in Objects
            <4>1. store \in Objects /\ heap[store] \in ConversationState
                BY <2>2, Stored DEF HandleCategorySelection, HandleEditAmount,
                   HandleCallbackRetryPhoto, IInv
            <4>2. QED
                BY <2>2, <4>1 DEF HandleCategorySelection, HandleEditAmount,
                   HandleCallbackRetryPhoto, ConversationState
        <3>2. task'[t] = task[t] /\ heap'[task[t].cs].expense = heap[task[t].cs].expense
            BY <2>1, <3>1 DEF Answers, IInv, TypeOK
        <3>3. QED
            BY <1>2, <3>2, RegistersStay
    <2>3. CASE HandleCallbackCancelEvidence \/ HandleOmitir
        <3>1. UNCHANGED task /\ heap' = Collect(heap, HeldBy(Tasks))
            BY <2>3 DEF HandleCallbackCancelEvidence, HandleOmitir, Reset, StoreNew
        <3>2. heap'[task[t].cs] = heap[task[t].cs]
            BY <2>1, <3>1, CollectIs DEF IInv, TypeOK
        <3>3. QED
            BY <1>2, <3>1, <3>2, RegistersStay
    <2>4. ASSUME NEW r \in Receipts, NotifyOCRResult(r) PROVE Registers(t)'
        <3>1. UNCHANGED task
            BY <2>4 DEF NotifyOCRResult
        <3>2. heap'[task[t].cs].expense = heap[task[t].cs].expense
            BY <2>1, <2>4 DEF NotifyOCRResult, IInv, TypeOK, ConversationState
        <3>3. QED
            BY <1>2, <3>1, <3>2, RegistersStay
    <2>5. ASSUME NEW e \in Expenses, OwnerReviews(e) \/ OtherDriverCreates(e)
          PROVE  Registers(t)'
        BY <1>2, <2>5, RegistersStay DEF OwnerReviews, OtherDriverCreates
    <2>6. CASE Restart
        BY <2>6 DEF Restart, Forget, NoTask, Registers, Registering
    <2>7. QED
        BY <2>2, <2>3, <2>4, <2>5, <2>6 DEF Chat, Environment
<1>3. QED
    BY <1>1, <1>2

\* Another goroutine that stores no expense there leaves the registration.
LEMMA NeighbourRegisters ==
    ASSUME IInv, PhotosApart, NEW t \in Tasks, NEW u \in Tasks \ {t}, Registers(t),
           Message(u) \/ Continue(u) \/ Fails(u)
    PROVE  Registers(t)'
<1>1. CASE OptionalAttachPanics(u)
    BY <1>1 DEF OptionalAttachPanics, Forget, NoTask, Registers, Registering
<1>2. CASE ~ OptionalAttachPanics(u)
    <2>1. task'[t] = task[t]
        <3>1. task \in [Tasks -> Task]
            BY DEF IInv, TypeOK
        <3>2. CASE Message(u)
            BY <3>1, <3>2 DEF Message, NeedsAuth, HandleGasto, HandleSoporte, HandlePhoto,
               HandleManualAmount, HandleConfirmOCR, Begins, BeginsWith
        <3>3. CASE Continue(u)
            BY <1>2, <3>1, <3>3 DEF Continue, Authenticate, GotAssignment, Listed, PhotoUploaded,
               PhotoCreate, RetryUploaded, RetryLink, EvidenceUploaded, EvidenceSubmit,
               EvidenceAttach, OptionalUploaded, OptionalAttach, ManualReceipt, ManualUpdate,
               ManualCreate, ManualAmount, Confirm, Save, Uploaded, Calls, SaveNext, Return
        <3>4. CASE Fails(u)
            BY <3>1, <3>4 DEF Fails, Return
        <3>5. QED
            BY <3>2, <3>3, <3>4
    <2>2. CASE task[t].at \notin Registering
        BY <2>1, <2>2 DEF Registers
    <2>3. CASE task[t].at \in Registering
        <3>1. /\ task[t].cs \in Objects
              /\ task[t].cs \in HeldBy(Tasks) /\ task[t].cs \in HeldBy(Tasks \ {u})
            BY <2>3, InCall DEF IInv, Registering, HeldBy
        <3>2. heap'[task[t].cs].expense = heap[task[t].cs].expense
            <4>1. CASE UNCHANGED heap
                BY <4>1
            <4>2. ASSUME NEW used, task[t].cs \in used, heap' = Collect(heap, used)
                  PROVE  heap'[task[t].cs] = heap[task[t].cs]
                BY <3>1, <4>2, CollectIs DEF IInv, TypeOK
            <4>3. CASE Fails(u) \/ OptionalAttach(u)
                <5>1. heap' = Collect(heap, {store} \cup HeldBy(Tasks \ {u}))
                    BY <4>3 DEF Fails, OptionalAttach
                <5>2. QED
                    BY <3>1, <4>2, <5>1
            <4>4. CASE Authenticate(u)
                <5>1. heap' = Collect(heap, HeldBy(Tasks))
                    BY <4>4 DEF Authenticate, StoreNew
                <5>2. QED
                    BY <3>1, <4>2, <5>1
            <4>5. CASE Save(u)
                <5>1. PICK s : s = task[u]
                    OBVIOUS
                <5>2. PICK objects : objects = [heap EXCEPT ![s.cs] = Saved(heap[s.cs], s)]
                    OBVIOUS
                <5>3. heap' = Collect(objects, {s.cs} \cup HeldBy(Tasks)) /\ s.at = "save"
                    BY <4>5, <5>1, <5>2 DEF Save, At
                <5>4. heap'[task[t].cs] = objects[task[t].cs]
                    BY <3>1, <5>3 DEF Collect
                <5>5. CASE s.cs # task[t].cs
                    BY <3>1, <5>2, <5>4, <5>5 DEF IInv, TypeOK
                <5>6. CASE s.cs = task[t].cs
                    <6>1. s.expense = None
                        BY <2>3, <5>1, <5>3, <5>6 DEF PhotosApart, SavesExpense, At
                    <6>2. PICK cs \in ConversationState : cs = heap[s.cs]
                        BY <3>1, <5>6 DEF IInv, TypeOK
                    <6>3. Saved(cs, s).expense = cs.expense
                        BY <6>1 DEF Saved, ConversationState
                    <6>4. objects[s.cs] = Saved(cs, s)
                        BY <3>1, <5>2, <5>6, <6>2 DEF IInv, TypeOK
                    <6>5. QED
                        BY <5>4, <5>6, <6>2, <6>3, <6>4
                <5>7. QED
                    BY <5>5, <5>6
            <4>6. CASE Message(u)
                BY <4>1, <4>6 DEF Message, NeedsAuth, HandleGasto, HandleSoporte, HandlePhoto,
                   HandleManualAmount, HandleConfirmOCR, Reading
            <4>7. CASE Continue(u) /\ ~ (Save(u) \/ Authenticate(u) \/ OptionalAttach(u))
                BY <1>2, <4>1, <4>7 DEF Continue, GotAssignment, Listed, PhotoUploaded,
                   PhotoCreate, RetryUploaded, RetryLink, EvidenceUploaded, EvidenceSubmit,
                   EvidenceAttach, OptionalUploaded, ManualReceipt, ManualUpdate,
                   ManualCreate, ManualAmount, Confirm, Uploaded, Reading
            <4>8. QED
                BY <4>3, <4>4, <4>5, <4>6, <4>7
        <3>3. QED
            BY <2>1, <2>3, <3>2, RegistersStay
    <2>4. QED
        BY <2>2, <2>3
<1>3. QED
    BY <1>1, <1>2

AllRegister == \A t \in Tasks : Registers(t)

LEMMA RegistersStep ==
    ASSUME IInv, AllRegister, PhotosApart, [Next]_vars
    PROVE  AllRegister'
<1>1. SUFFICES ASSUME NEW t \in Tasks PROVE Registers(t)'
    BY DEF AllRegister
<1>2. Registers(t)
    BY DEF AllRegister
<1>3. CASE UNCHANGED vars
    BY <1>2, <1>3 DEF vars, Registers, Conv
<1>4. CASE Chat \/ Environment
    BY <1>2, <1>4, OthersRegister
<1>5. ASSUME NEW u \in Tasks, Message(u) \/ Continue(u) \/ Fails(u)
      PROVE  Registers(t)'
    <2>1. CASE u = t
        BY <1>2, <1>5, <2>1, MessageRegisters, ContinueRegisters
    <2>2. CASE u # t
        BY <1>2, <1>5, <2>2, NeighbourRegisters
    <2>3. QED
        BY <2>1, <2>2
<1>6. QED
    BY <1>3, <1>4, <1>5 DEF Next

\* handlePhoto's guard holds until the expense is created, with any number of
\* messages at a time, as long as none of them stores an expense in the
\* conversation meanwhile: a photo never creates one in a conversation that has
\* one (the guard of src/internal/telegram/handlers.go:450).
THEOREM ApartOneExpense == Spec /\ []PhotosApart => OneExpensePerConversation
<1>1. Init => AllRegister
    BY DEF Init, NoTask, AllRegister, Registers, Registering
<1>2. IInv /\ AllRegister /\ PhotosApart /\ [Next]_vars => AllRegister'
    BY RegistersStep
<1>3. IInv /\ AllRegister /\ [Next]_vars =>
          [\A t \in Tasks : PhotoCreate(t) => Conv(t).expense = None]_vars
    BY DEF PhotoCreate, At, AllRegister, Registers, Registering
<1>4. QED
    BY <1>1, <1>2, <1>3, Invariance, PTL DEF Spec, OneExpensePerConversation

\* With one goroutine nothing has to be assumed.
THEOREM SerialOneExpense ==
    ASSUME NEW w \in Tasks, Tasks = {w}
    PROVE  Spec => OneExpensePerConversation
<1>1. PhotosApart
    BY DEF PhotosApart
<1>2. QED
    BY <1>1, ApartOneExpense, PTL

=============================================================================
