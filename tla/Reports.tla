------------------------------ MODULE Reports -------------------------------
(***************************************************************************)
(* What an owner reads: the pages of GET /expenses and the totals per      *)
(* taxi, driver and category, over the tables that drivers and owners      *)
(* change meanwhile (registration, review, amounts, deactivated taxis and  *)
(* drivers, deleted categories).                                           *)
(*                                                                         *)
(* expenses is in the order of created_at, the time of the INSERT, and no  *)
(* two rows share one to the microsecond.  The model keeps half days of    *)
(* it: 2k is the midnight that begins day k, 2k + 1 is later that day.     *)
(*                                                                         *)
(* A row's owner_id is its driver's owner (the claims).  Nothing ties its  *)
(* taxi and category to that owner: POST /expenses takes any id that       *)
(* exists, and a driver may be assigned another tenant's taxi.             *)
(*                                                                         *)
(* A review reads the row, checks the status and then writes whatever it   *)
(* finds: the statements of ExpenseService, of which only the status       *)
(* matters here.                                                           *)
(***************************************************************************)
EXTENDS ExpenseStatus, Naturals, Integers, Sequences, FiniteSets, SequencesExt, FiniteSetsExt

CONSTANTS
    Owners, Taxis, Drivers, Categories,
    OwnerOf,       \* the tenant of every taxi, driver and category
    Amounts,       \* positive amounts
    NExpenses,     \* bound: rows inserted
    Instants,      \* times of an INSERT
    Dates,         \* date parameters
    DefaultLimit,  \* defaultLimit
    MaxLimit,      \* maxLimit
    Limits,        \* values of the limit parameter
    Filters,       \* filters of the owners who read the list
    Callers,       \* goroutines that run calls of the expense service
    None

ASSUME TenantsAssumption ==
    /\ OwnerOf \in [Taxis \cup Drivers \cup Categories -> Owners]
    /\ IsFiniteSet(Owners)
    /\ IsFiniteSet(Taxis) /\ IsFiniteSet(Drivers) /\ IsFiniteSet(Categories)

ASSUME AmountsAssumption == Amounts \subseteq Nat \ {0} /\ NExpenses \in Nat

ASSUME LimitsAssumption ==
    MaxLimit \in Nat /\ DefaultLimit \in 1..MaxLimit /\ Limits \subseteq Int

\* time.Parse gives the midnight that begins the day, for date_to as well.
ASSUME DatesAssumption ==
    Instants \subseteq Nat /\ Dates \subseteq {t \in Nat : t % 2 = 0}

VARIABLES
    expenses,  \* the rows of expenses
    active,    \* taxis and drivers that are not deactivated
    deleted,   \* categories deleted
    walk,      \* an owner who reads the list page by page
    call       \* call[c]: the UpdateStatus that caller c has decided on, or None

vars == <<expenses, active, deleted, walk, call>>

Row == [taxi: Taxis, driver: Drivers, category: Categories, status: Status,
        amount: Amounts \cup {None}, created_at: Instants]

\* read: the status the caller found; status: the one it is going to write.
StatusCall == [row: 1..NExpenses, read: Status, status: Status]

\* A column the filter leaves free is None.
ListFilter == [owner: Owners, driver: Drivers \cup {None}, taxi: Taxis \cup {None},
               category: Categories \cup {None}, statuses: SUBSET Status,
               from: Dates \cup {None}, to: Dates \cup {None}]

ASSUME FiltersAssumption == Filters \subseteq ListFilter

\* base: the rows that matched when the walk began; seen: those it has shown.
Walk == [filter: ListFilter, limit: Limits, offset: 0..NExpenses,
         base: SUBSET (1..NExpenses), seen: SUBSET (1..NExpenses), ended: BOOLEAN]

Init ==
    /\ expenses = <<>>
    /\ active = Taxis \cup Drivers
    /\ deleted = {}
    /\ walk = None
    /\ call = [c \in Callers |-> None]

-----------------------------------------------------------------------------
(* The tables.                                                             *)

\* By the bot or by POST /expenses.  The active flags are not looked at, nor
\* whose taxi and category it is; a deleted category violates the foreign key.
Register(x, d, g, t) ==
    /\ Len(expenses) < NExpenses
    /\ expenses # <<>> => Last(expenses).created_at <= t
    /\ g \notin deleted
    /\ expenses' = Append(expenses,
            [taxi |-> x, driver |-> d, category |-> g, status |-> StatusPending,
             amount |-> None, created_at |-> t])
    /\ UNCHANGED <<active, deleted, walk, call>>

\* UpdateAmount looks at no status: an OCR may end after the review.
UpdateAmount(i, a) ==
    /\ expenses' = [expenses EXCEPT ![i].amount = a]
    /\ UNCHANGED <<active, deleted, walk, call>>

Return(c) == call' = [call EXCEPT ![c] = None]

\* GetByID and the status check of Confirm, Approve, Reject, RequestEvidence
\* (which may be repeated) and SubmitEvidence.
ReadStatus(c, i, status) ==
    /\ call[c] = None
    /\ \/ canTransition(expenses[i].status, status)
       \/ expenses[i].status = StatusNeedsEvidence /\ status = StatusNeedsEvidence
    /\ call' = [call EXCEPT ![c] =
                   [row |-> i, read |-> expenses[i].status, status |-> status]]
    /\ UNCHANGED <<expenses, active, deleted, walk>>

\* The UPDATE, whatever the status is by now.
UpdateStatus(c) ==
    /\ call[c] # None
    /\ expenses' = [expenses EXCEPT ![call[c].row].status = call[c].status]
    /\ Return(c)
    /\ UNCHANGED <<active, deleted, walk>>

\* The UPDATE fails, or the call is cancelled before it.
Fail(c) ==
    /\ call[c] # None
    /\ Return(c)
    /\ UNCHANGED <<expenses, active, deleted, walk>>

\* SetActive(false) on a taxi or a driver; rows stay.
Deactivate(x) ==
    /\ active' = active \ {x}
    /\ UNCHANGED <<expenses, deleted, walk, call>>

\* Mutation: the foreign key of expenses cascades.
DeleteCategory_Cascade(g) ==
    /\ g \notin deleted
    /\ deleted' = deleted \cup {g}
    /\ expenses' = SelectSeq(expenses, LAMBDA e : e.category # g)
    /\ UNCHANGED <<active, walk, call>>

\* expenses.category_id REFERENCES expense_categories: a used one stays.
DeleteCategory(g) ==
    /\ g \notin deleted
    /\ \A i \in DOMAIN expenses : expenses[i].category # g
    /\ deleted' = deleted \cup {g}
    /\ UNCHANGED <<expenses, active, walk, call>>

-----------------------------------------------------------------------------
(* The list.                                                               *)

\* owner_id comes from the driver's claims, never from the request.
OwnerOfRow(e) == OwnerOf[e.driver]

Matches(e, f) ==
    /\ OwnerOfRow(e) = f.owner
    /\ f.driver \in {None, e.driver}
    /\ f.taxi \in {None, e.taxi}
    /\ f.category \in {None, e.category}
    /\ f.statuses = {} \/ e.status \in f.statuses
    /\ f.from = None \/ f.from <= e.created_at
    /\ f.to = None \/ e.created_at <= f.to

Matching(f) == {i \in DOMAIN expenses : Matches(expenses[i], f)}

\* parseListFilter: zero and negative values count as absent.
parseLimit(n) ==
    IF n > MaxLimit THEN MaxLimit ELSE IF n > 0 THEN n ELSE DefaultLimit

\* The same clamp in Service.List and, once more, in the repository.
clampLimit(n) ==
    IF n <= 0 THEN DefaultLimit ELSE IF n > MaxLimit THEN MaxLimit ELSE n

\* Mutation: the rows that wait for the owner come first.
Before_OpenFirst(i, j) ==
    LET Open(k) == expenses[k].status \notin Reviewed
    IN  IF Open(i) <=> Open(j) THEN i > j ELSE Open(i)

\* ORDER BY created_at DESC: row i comes before row j.
Before(i, j) == i > j

\* How many rows of the list come before row i.
Position(f, i) == Cardinality({j \in Matching(f) : Before(j, i)})

\* The rows that OFFSET and LIMIT leave.
List(f, limit, offset) ==
    LET n == clampLimit(clampLimit(parseLimit(limit)))
    IN  {i \in Matching(f) : offset <= Position(f, i) /\ Position(f, i) < offset + n}

\* An owner starts to read the list.
StartWalk(f, limit) ==
    /\ walk = None
    /\ walk' = [filter |-> f, limit |-> limit, offset |-> 0, base |-> Matching(f),
                seen |-> {}, ended |-> FALSE]
    /\ UNCHANGED <<expenses, active, deleted, call>>

\* The next page begins after as many rows as were received; an empty page
\* is the last.
NextPage ==
    /\ walk # None
    /\ ~walk.ended
    /\ LET page == List(walk.filter, walk.limit, walk.offset) IN
       walk' = [walk EXCEPT !.offset = @ + Cardinality(page),
                            !.seen   = @ \cup page,
                            !.ended  = (page = {})]
    /\ UNCHANGED <<expenses, active, deleted, call>>

-----------------------------------------------------------------------------
(* The totals.                                                             *)

\* parseDateRange asks for both dates, in any order.
DateRange == [from: Dates, to: Dates]

\* The join condition of the three queries.
Counted(p) ==
    {i \in DOMAIN expenses :
        /\ expenses[i].status = StatusApproved
        /\ p.from <= expenses[i].created_at /\ expenses[i].created_at <= p.to}

SumOver(f, S) == MapThenSumSet(LAMBDA x : f[x], S)

AmountOf == [i \in DOMAIN expenses |->
                IF expenses[i].amount = None THEN 0 ELSE expenses[i].amount]

\* SUM skips NULL amounts, COUNT(e.id) counts their rows.
Sum(rows) == [total |-> SumOver(AmountOf, rows), count |-> Cardinality(rows)]

\* One line for every taxi of the owner, active or not.
SumByTaxi(o, p) ==
    [x \in {t \in Taxis : OwnerOf[t] = o} |->
        Sum({i \in Counted(p) : expenses[i].taxi = x})]

\* Mutation: only active drivers have a line.
SumByDriver_ActiveOnly(o, p) ==
    [x \in {d \in Drivers : OwnerOf[d] = o /\ d \in active} |->
        Sum({i \in Counted(p) : expenses[i].driver = x})]

SumByDriver(o, p) ==
    [x \in {d \in Drivers : OwnerOf[d] = o} |->
        Sum({i \in Counted(p) : expenses[i].driver = x})]

\* Mutation: the join also asks for the expense's own owner_id.
SumByCategory_OwnRows(o, p) ==
    [x \in {g \in Categories \ deleted : OwnerOf[g] = o} |->
        Sum({i \in Counted(p) : expenses[i].category = x /\ OwnerOfRow(expenses[i]) = o})]

SumByCategory(o, p) ==
    [x \in {g \in Categories \ deleted : OwnerOf[g] = o} |->
        Sum({i \in Counted(p) : expenses[i].category = x})]

\* The lines of a report added up.
LinesCount(report) == SumOver([x \in DOMAIN report |-> report[x].count], DOMAIN report)

LinesTotal(report) == SumOver([x \in DOMAIN report |-> report[x].total], DOMAIN report)

Overall(report) == [total |-> LinesTotal(report), count |-> LinesCount(report)]

\* What the three reports of owner o add up to.
Summaries(o, p) ==
    {Overall(SumByTaxi(o, p)), Overall(SumByDriver(o, p)), Overall(SumByCategory(o, p))}

-----------------------------------------------------------------------------

Rows == DOMAIN expenses

Next ==
    \/ \E x \in Taxis, d \in Drivers, g \in Categories, t \in Instants : Register(x, d, g, t)
    \/ \E i \in Rows, a \in Amounts : UpdateAmount(i, a)
    \/ \E c \in Callers :
          \/ \E i \in Rows, status \in Status : ReadStatus(c, i, status)
          \/ UpdateStatus(c)
          \/ Fail(c)
    \/ \E x \in active : Deactivate(x)
    \/ \E g \in Categories : DeleteCategory(g)
    \/ \E f \in Filters, limit \in Limits : StartWalk(f, limit)
    \/ NextPage

Spec == Init /\ [][Next]_vars

-----------------------------------------------------------------------------
(* Properties.                                                             *)

TypeOK ==
    /\ expenses \in Seq(Row) /\ Len(expenses) <= NExpenses
    /\ active \subseteq Taxis \cup Drivers
    /\ deleted \subseteq Categories
    /\ walk \in Walk \cup {None}
    /\ call \in [Callers -> StatusCall \cup {None}]

\* Row e is of owner o in one of the tables that the reports go through.
Touches(e, o) == o \in {OwnerOf[e.taxi], OwnerOf[e.driver], OwnerOf[e.category]}

\* Row e is of the same owner in all of them.
Whole(e) == OwnerOf[e.taxi] = OwnerOf[e.driver] /\ OwnerOf[e.category] = OwnerOf[e.driver]

\* The three reports of an owner tell the same story for every period, also
\* when taxis and drivers were deactivated since, categories deleted, amounts
\* never read or reviews overwritten: the totals and counts per taxi, per
\* driver and per category add up to the same, unless the owner shares one of
\* the rows with another tenant.  Each query scopes by another table's owner_id.
ReportsAgree ==
    \A o \in Owners, p \in DateRange :
        (\A i \in Counted(p) : Touches(expenses[i], o) => Whole(expenses[i]))
            => Cardinality(Summaries(o, p)) = 1

\* Whomever the rows belong to, no money is lost and none is counted twice:
\* over all owners each of the three reports adds up to the approved rows of
\* the period, also for rows that mix the tables of two tenants.
EveryRowIsReported ==
    \A p \in DateRange :
        /\ \A byOwner \in {[o \in Owners |-> LinesCount(SumByTaxi(o, p))],
                            [o \in Owners |-> LinesCount(SumByDriver(o, p))],
                            [o \in Owners |-> LinesCount(SumByCategory(o, p))]} :
               SumOver(byOwner, Owners) = Cardinality(Counted(p))
        /\ \A byOwner \in {[o \in Owners |-> LinesTotal(SumByTaxi(o, p))],
                            [o \in Owners |-> LinesTotal(SumByDriver(o, p))],
                            [o \in Owners |-> LinesTotal(SumByCategory(o, p))]} :
               SumOver(byOwner, Owners) = SumOver(AmountOf, Counted(p))

\* Caller c writes over a review it has not seen: it read another status, and
\* the row has been approved since.
OverwritesApproval(c) ==
    /\ UpdateStatus(c)
    /\ call[c].read # StatusApproved
    /\ expenses[call[c].row].status = StatusApproved

\* What a report counts of the past stays counted, whatever is registered,
\* deactivated, deleted or reviewed: a line loses a row only when a call that
\* overlapped the approval overwrites it, and then one row.
CountsShrinkByOverlapOnly ==
    [][\A o \in Owners, p \in DateRange :
          LinesCount(SumByCategory(o, p))' < LinesCount(SumByCategory(o, p)) =>
              /\ LinesCount(SumByCategory(o, p))' = LinesCount(SumByCategory(o, p)) - 1
              /\ \E c \in Callers : OverwritesApproval(c)
      ]_<<expenses, deleted>>

\* An owner who reads on until an empty page has seen every expense that was
\* there when the reading began, for any limit asked for (0, negative and too
\* large ones included) and whatever is registered, reviewed or deactivated
\* between two pages - unless the filter is on the status, which a review
\* changes: then the later pages close up and rows are skipped.
WalkMissesNothing ==
    (walk # None /\ walk.ended /\ walk.filter.statuses = {}) => walk.base \subseteq walk.seen

=============================================================================
