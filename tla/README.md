# Gentax in TLA+

A verification project for Gentax, the expense tracker of a taxi fleet: drivers
register expenses by sending photos of receipts to a Telegram bot, an OCR pool
reads them, owners review them over an HTTP API. All state that lasts is in one
Postgres database; no operation of the program opens a transaction, so every
operation is a sequence of single SQL statements that interleaves with others.
That is what most of these models are about.

## The system

Three processes share the database: `cmd/api` (HTTP), `cmd/bot` (Telegram bot
and OCR pool in one process) and `cmd/web` (static files).

| Component | State | Operations | What is hard |
|---|---|---|---|
| Expense service (`internal/expense`) | tables `expenses`, `expense_attachments` | Create, Confirm, Approve, Reject, RequestEvidence, SubmitEvidence, AttachOptionalEvidence, AddAttachment, UpdateAmount, UpdateAmountByReceiptID, lists, sums | read, check in Go, then an unconditional UPDATE; called from both processes |
| OCR pool (`internal/worker`, `internal/receipt`) | table `receipts`; the goroutines' batches; the notify callback | poll, Process, failReceipt, sendNotify, SetNotify | row locks that end with the poll; crashes in the middle; results before their expense exists |
| Conversation (`internal/telegram`) | one `ConversationState` object per driver, in memory; inline buttons in the chat | /start, /gasto, /soporte, /omitir, photos, texts, buttons, NotifyOCRResult | a goroutine per message on a shared object; replaced objects; restarts; old buttons |
| Driver accounts (`internal/driver`) | `drivers`, `driver_taxi_assignments` | Create, GenerateLinkToken, LinkTelegramID, Deactivate, AssignTaxi, UnassignTaxi, lists | check and write in separate statements; cached claims |
| Owners (`internal/owner`, `owner_auth.go`) | `owners` | Bootstrap, Register, Login | count-then-create; seeding after the INSERT |
| Categories (`internal/expense`) | `expense_categories` | Create, Delete, List, SeedDefaultCategories | deletion while an expense is being registered; ids in old buttons |
| Taxis (`internal/taxi`) | `taxis` | Create, Deactivate, List | rows that other tables go on naming |
| HTTP API (`internal/httpapi`) | none of its own; goroutines with notices to send | decoding, scoping by owner, status codes, notices after the answer | lost answers, retries, what an answer tells of other tenants |
| Reports (`expense/repository.go`) | none | filtered pages, sums per taxi, driver and category | tables that change between pages; three queries that should agree |
| Receipt text (`internal/receipt`) | none | Colombian amounts, the check digit of a NIT | separators, remainders |
| Auth, storage, web panel, wiring | none | tokens, files, user interface | pure or pure I/O |

They meet in these places: the bot's handlers insert receipts (the pool polls
them) and call the expense service; the pool calls the expense service
(`UpdateAmountByReceiptID`) and, through the callback `main` sets, the bot
(`NotifyOCRResult`), which changes the driver's conversation; the API calls the
expense service for the owner, and a goroutine it starts tells the driver of a
rejection or a request for evidence.

What would make each part correct: a row's status, reviewer and text agree and
only its own driver or owner changes it; statuses follow `validTransitions`; a
receipt is read once, settles and is reported, and its total reaches the
expense that carries it; a conversation always has what its state needs and
names an expense of its driver; what a client was answered and a driver was
told is so; a token links one account, a deactivated driver stays out, a driver
has one taxi; the bot files an expense under a category of its owner; the sums
lose nothing and agree where no row mixes two tenants, and a reader of the list
misses nothing. The hazards behind these are in
`PROJECT.json`, each at its line.

## Modules

| Module | Models |
|---|---|
| `ExpenseStatus` | `Status`, `validTransitions`, `canTransition` |
| `ExpenseLifecycle` | abstract: the status of each expense moves atomically along `validTransitions` |
| `ExpenseService`, `MCExpenseService` | the service, one action per read-with-checks and one per write statement |
| `ExpenseServiceProofs` | the inductive invariant of `ExpenseService` and its theorems |
| `OcrLifecycle` | abstract: pending, taken once, done or failed; skipped from the start |
| `OcrPipeline`, `MCOcrPipeline` | the pool, the receipts, and the amounts it writes |
| `OcrPipelineProofs` | its inductive invariants and theorems; the refinement while no receipt is shared |
| `Conversation`, `MCConversation` | one driver's conversation with the bot |
| `ConversationProofs` | its inductive invariant and theorems |
| `ExpenseApi`, `MCExpenseApi` | the endpoints under `/expenses`, composed with `ExpenseService`, and the notices |
| `ExpenseApiProofs` | the API implements the service; its invariants |
| `DriverAccounts`, `MCDriverAccounts` | drivers, link tokens, assignments, the bot's claims |
| `DriverAccountsProofs` | the inductive invariants of `DriverAccounts` and its theorems |
| `Catalog`, `MCCatalog` | owners, categories, and the expenses that name them |
| `CatalogProofs` | its inductive invariant and theorems |
| `Reports`, `MCReports` | the list page by page and the three sums, over changing tables |
| `ReportsProofs` | sums over finite sets, positions in the list, and the theorems of `Reports` |
| `ReceiptText` | totals and NITs, character by character |
| `ReceiptTextProofs` | NITs and totals of any length |

`ExpenseApi` extends `ExpenseService`; `ExpenseService` and `OcrPipeline`
instantiate their abstract specifications. The other modules meet in the
tables: each has of a foreign table what it reads, with an action for whatever
another component may do to it.

**ExpenseService.** `expenses` and `attachments` are the tables; `call[c]` is
the write client `c` has decided on. A call such as `Approve` is an action that
reads the row, checks what the Go code checks and leaves its statement in
`call[c]`; `UpdateStatus`, `UpdateReceiptID`, `SubmitReceiptID`,
`UpdateAmountStmt` and `InsertAttachment` execute it; `Fail` ends a call at any
statement. The principal (`by`) and the status read (`seen`) are kept with the
statement for the properties; the SQL does not use them. The times are
abstracted: `reviewedAt` says whether the column is set. `Create` and
`UpdateAmount` are single statements.

**OcrPipeline.** Receipts are numbered in `created_at` order. `worker[w]` is
where a goroutine is: polling, holding the locks of its SELECT (`locked`),
between two receipts (`next`), or at one of the statements of `Process`.
`Reading[r]` is what the OCR reads: an amount, nothing, or a text that is no
number. `CreateReceipt`, `CreateExpense`, `RelinkExpense` and
`DriverSetsAmount` are what the bot's handlers do to these tables; `handling`
holds the receipts of handlers between their two inserts.
`notifySet` is the callback. `TakeFails`, `ExtractFails`, `SettleFails` and
`AmountFails` are failing statements (at most `MaxFaults`), `Panic` and
`Restart` crashes (at most `MaxCrashes`).

**Conversation.** `heap` holds the `ConversationState` objects, `store` says
which one the driver's id maps to, `task[t]` which call (database, storage,
Telegram) goroutine `t` is in, on which object. What a handler does between two
calls is one action; `Save` is its last part, the assignment to the object and
`states.set`, which also stores again an object that was replaced meanwhile.
`Collect` is garbage collection: it makes unreferenced objects reusable and so
keeps the model finite. `shown` are the buttons in the chat, which never go
away. `OptionalAttachPanics` is the nil dereference at `handlers.go:758`: no
handler recovers, so the process ends and `docker-compose.yml` restarts it.
The receipts' amounts and readings are left to `OcrPipeline`, reviews by the
owner are single steps.

**ExpenseApi.** A client of the service is now an HTTP request or a call of the
bot process. `request[c]` is the request, with its route, expense, text,
receipt and the claims of its token (none for a token that is missing, expired
or forged); `reply[c]` its status code. `Unauthorized`, `BadRequest`,
`NotFound`, `InvalidTransition`, `Read` and `ReadFails` are the early returns;
`Serve` and `CreateExpense` go on into the service's own actions; `Written`,
`WrittenUnanswered` (committed, but the connection was lost) and `Failed` end
the request. `notices` are the goroutines started after a review, `Deliver` and
`Lose` what becomes of them, in any order and at any time. A retry is another
request.

**DriverAccounts.** `call[c]` is the statement caller `c` executes next; a
caller is a request of the API or an update of the bot. Linking is
`StartWithToken` (GetByLinkToken and its checks), `SetTelegramID`,
`MarkLinkTokenUsed`, `LookupLinked`, `IssueJWT`; deactivation and assignment
are two statements each. `session` are the claims kept in conversations.
`links`, `raced` and `late` are history: what was linked with which token, which
tokens met a second call or a failure, who was given a taxi in or after a
deactivation.

**Catalog.** An owner is identified with the unique email; `owners[o]` says how
the row came to be and how its seeding went. `Bootstrap` counts and
`BootstrapCreate` inserts; `Register` inserts and `Seed` executes one INSERT ...
ON CONFLICT DO NOTHING after the other. `chat` is the conversation of an
account with the category buttons it was ever shown: `Authenticate` may find
the account linked to another owner's driver. `handlePhoto` and `CreateExpense`
are the time between the choice and the INSERT that the foreign key may refuse;
`Create` is POST /expenses, which takes any category that exists.

**Reports.** `expenses` is in the order of `created_at`, in half days: a date
parameter is the midnight that begins its day. `Register` is any INSERT, by the
bot or by POST /expenses: nothing ties the taxi and the category to the driver's
owner. A review is `ReadStatus`, which checks the status it finds, and
`UpdateStatus`, which writes whatever the row is by then. `Position` is the number of
matching rows that ORDER BY puts before a row; `List` has the rows at the
positions that OFFSET and LIMIT leave, the limit clamped in the three places
where the code does it; `walk` is an owner who reads on until an empty page.
`SumByTaxi`, `SumByDriver` and `SumByCategory` are the queries.

**ReceiptText.** A text is written character by character, so every text up to
a bound is read. `normalizeColombianNumber` and `NewFromString` are the two
steps from the captured total to the amount, `expected` and `ValidateNIT` the
check digit; `remainder` is the loop over the weights written out. `IsColombian`
and `Meaning` are the reference.

Definitions named `X_Something` under a comment "Mutation" are wrong versions
of `X`: no specification uses them. Each shows, for one property of a passing
run, a plausible bug the property finds.

## What TLC checks

Passing runs:

| Run | Instance | Shows |
|---|---|---|
| `service_concurrent` | 2 owners with a driver each, 1 expense, 2 receipts, 2 calls at a time | reviewer, text and ownership agree with the status under every interleaving; an illegal status move is always a stale write; rows keep their identity |
| `api_serial` | 2 tenants, 1 expense, 2 receipts, every token, 1 call at a time | with calls that do not overlap: the service under the API implements `ExpenseLifecycle`, which is `validTransitions` and no more; evidence is linked before the status moves; answers depend on a row for its own people only; a review answered with 200 stands; who is told of a rejection finds it so - through failed statements, lost answers, retries and late notices |
| `ocr_concurrent` | 2 workers with batches of 1, 2 receipts, 1 fault, 1 crash | a done receipt has its fields; skipped receipts are left alone; an amount set by the OCR was extracted from a receipt the expense carried; a total has reached its expense when the driver is asked to confirm it; pending receipts are taken, reported and settled |
| `ocr_serial` | 1 worker with batches of 2, 2 receipts, 1 fault, 1 crash | `ocr_status` implements `OcrLifecycle`; a stored OCR result stays |
| `bot_serial` | 1 goroutine, 2 receipts, 2 expenses, 1 review, 1 restart, 3 objects | the conversation has the fields of its state, names only the driver's own expenses, and creates one expense per registration |
| `bot_concurrent` | 2 goroutines, 2 receipts, 2 expenses, 2 objects | no nil dereference, and no receipt on two expenses, with two messages at a time |
| `accounts` | 1 owner, 2 drivers, 2 taxis, 2 tokens, 2 accounts, 2 calls at a time | what survives the interleavings of link, deactivation and assignment, failures and restarts: see the properties of `DriverAccounts` |
| `catalog` | 2 owners, 2 names, 3 category ids, 1 account, 2 calls at a time | an expense has a category that exists, and one the bot filed has its owner's unless the account served drivers of two owners; a registration that ended has seeded everything |
| `reports` | 2 tenants, 3 rows, 2 instants, limits 0 and 3, 2 reviews at a time | the sums of an owner agree unless a row is shared with another tenant; over all owners no row is lost or counted twice; a line loses a row only to a review that overlapped the approval; a reader misses nothing |
| `receipt_text` | totals of 9 characters over {1 . ,}, NITs of 11 digits over {0, 5} | a total becomes what it means; which totals are lost; each NIT has one check digit that notices misreadings |

The bounds: two calls, workers or goroutines are the least that interleave, and
every property speaks of one row, one receipt, one token or one pair at a time.
Two tenants are needed for ownership; a second receipt for evidence, retried
photos and batches; batches of one in `ocr_concurrent` make receipts wait for
each other. Three objects are the stored one, one a handler still holds, and one
to replace it with. In `accounts` one owner is enough, since no property is
about ownership; the second token replaces the first, the second account takes
the first one's place. In `catalog` the third id lets a deleted default be
created again. In `reports` a default limit of 1 and a maximum of 2 stand for 20
and 100: with three rows there are full pages, a short one and an empty one, and
the limits 0 and 3 are clamped on either side. In `receipt_text` nine characters
are two groups with their dots and decimals; zero and five give all eleven
remainders, and eleven digits are more than there are weights.

Three constraints bound combinations that no property relates. `Apart`
(`accounts`): a behaviour deactivates drivers with tokens or with assignments,
not with both; the two meet in Deactivate only, and the theorems need no such
bound. `FewExpenses` (`catalog`): behaviours end after the second expense, an
expense that came by POST /expenses meets deletions and idle chats, and a
bootstrap under way meets no category. `OneAtATime` (`reports`): tables change in
all ways while nobody reads the list, with two rows, one of which may mix two
tenants, and two reviews that overlap while there is one row; while somebody
reads, there are registrations and approvals, since pages depend on nothing else.
Symmetry is used where no formula names an element of the set;
`api_serial` exchanges the two tenants as a whole. `bot_concurrent` treats the
goroutines as interchangeable: all its properties are invariants that name none
of them.

Each module with tables has a type invariant, which is proved (see below).

Deadlock is checked in every run but two: `receipt_text` stops at the longest
text, `reports` when everything is deactivated, deleted and read.

### Where the code disagrees with its documents

Two runs check one property each that a comment or a document states; TLC
finds it violated. The sentences are quoted under "findings".

| Run | Instance | The property that fails, and how |
|---|---|---|
| `review_unconfirmed` | 1 call at a time | `OnlyConfirmedIsReviewed`: `Approve` and `Reject` accept a pending expense (`expense.go:27`), against `service.go:88`, `:104` and `spec.md:293`, `:304` |
| `bot_optional` | 1 goroutine | `OptionalEvidenceHasExpense`: after a manual entry the bot waits for evidence of an expense the conversation does not hold |

Their instances are the smallest in which the steps can happen; a violation needs
no more. Other divergences met while modelling: the models have the behaviours, no
run states them. Where a property of a passing run makes an exception for one, it is
named here with that property.

Expenses and receipts (`spec.md` is `openspec/specs/gentax/spec.md`):

- Of two overlapping calls on one expense the second moves it although the first
  has approved or rejected it, since the UPDATE does not look at the status
  (`expense/repository.go:264`); `expense.go:25` says of these that they "have no
  outgoing transitions". Every such write is stale (`IllegalMoveIsStale`).
- `Confirm`, through an old button, takes an expense out of needs_evidence with no
  new receipt; `service.go:52` speaks of "a pending expense" and `:137` of "a new
  receipt".
- The locks of `receipt/repository.go:107` end with the SELECT, which runs in no
  transaction, so two workers do take the same receipt; `:96` says that they
  "don't pick the same rows".
- A panic or a restart leaves a receipt in processing for good, since the poll
  asks for pending ones (`processor.go:75`).
- The OCR writes over an amount the driver typed (`service.go:185`); `spec.md:233`
  says "if `expenses.amount` is currently null".
- An OCR that ends before `handlePhoto` has inserted the expense
  (`handlers.go:488`) drops its total, and the driver is asked to confirm it.
  `AwaitedTotalArrives` says that otherwise it arrives, before the driver is asked.
- Two photos handled at the same time pass the guard at `handlers.go:450`, which
  `:449` calls an idempotency guard, and create two expenses. `OneExpensePerConversation`
  holds as long as no other handler stores an expense in the conversation meanwhile.
- A manual amount is written on the expense of an earlier registration if the
  conversation still has one; `handlers.go:539` says it "creates a
  receipt+expense."
- The amount of an approved expense changes when its OCR ends late: no statement
  that writes amounts looks at the status.
- With two workers on a receipt, the failure of one replaces the stored result
  (`receipt/repository.go:185`), against `spec.md:268`. `OcrDataIsImmutable`
  therefore holds only while no two workers hold the same receipt.
- A result that comes before `main` calls `SetNotify` is never reported
  (`cmd/bot/main.go:48` and `:66`).
- The failure prompt of `NotifyOCRResult` can be overwritten by the photo's own
  handler (`handlers.go:504`); the amount then typed is refused.
- The comment at `receipt/repository.go:127` says `UpdateOCRFields` marks the
  receipt done; it leaves the status alone.
- "50.000" typed as a manual amount is 50, and 50000 when it is read from a
  receipt (`handlers.go`, `ocr_tesseract.go:79`).
- A total with two commas is dropped and the driver is still asked to confirm
  it (`processor.go:100`); `LostOnlyWithTwoCommas` says there are no others.
- Digits of a NIT before the tenth weigh nothing, and no production code calls
  `ValidateNIT`. `nit.go:57` speaks of ASCII digits, `unicode.IsDigit` accepts
  others.

Drivers and accounts:

- Two link calls that overlap use one token for two accounts; `spec.md:94` wants
  it "single-use". `TokenLinksOnce` says that nothing but overlaps and failures does.
- The mark of `MarkLinkTokenUsed` names the driver (`driver/service.go:72`): a token
  generated between the check of the last one and its mark is marked instead, and
  nobody can use it, although `driver/repository.go:159` says it "can be used once".
- A deactivated driver who is logged in goes on registering until the bot restarts
  (`handlers.go:117`), against `spec.md:119`. `POST /auth/telegram` gives such a
  driver a new token. `LoggedOutForGood` holds of the bot.
- A second link replaces the driver's earlier account without a word. The
  earlier account keeps its claims (`SessionIsLinkedOrReplaced`).
- `AssignTaxi` verifies the driver's owner and not the taxi's; `spec.md:44` asks
  for both, with a 404. Neither active flag is looked at, and an expense of a
  driver with an inactive taxi is accepted (`spec.md:68`).
- `ErrAlreadyAssigned` has no case in `DomainError`: a second assignment is
  answered with a 500; when two race, the unique violation is reported as a
  duplicate Telegram id (`driver/repository.go:315`).

Owners, categories, reports, API:

- A bootstrap that overlaps another one, or a registration, creates its owner all
  the same (`owner_auth.go:99`), where `:92` says "409 if owner already exists".
- A bootstrapped owner gets no categories, although `expense/repository.go:386`
  calls them "created for every new owner". A seeding that fails is logged and
  never done again.
- `Register` trims the email and the password, `Login` and `Bootstrap` do not:
  who registers with a blank at the end cannot log in with it.
- A category deleted between choice and photo leaves a receipt without expense.
- An old button after the account was linked to another owner's driver files an
  expense under the other owner's category.
- `POST /expenses` takes the taxi and category of the body unchecked, and a driver
  may be assigned another tenant's taxi. Such a row is counted for one owner in one
  report and for another in the next, so that the sums of the two need not agree
  (`ReportsAgree` says that nothing else does this, `EveryRowIsReported` that the
  row is still counted once in each).
- An approved row that an overlapping review moves leaves the sums of its period
  (`CountsShrinkByOverlapOnly`: nothing else takes one away).
- `date_to` is the midnight that begins the day, which loses the last day;
  `spec.md:331` says "inclusive date range".
- Pages filtered by status skip rows that move up when others are reviewed;
  rows with the same `created_at` have no order at all.
- A review whose answer was lost is retried into a 409, and its notice is never
  sent. A notice may come after a later one.

**Fairness** is assumed only in `OcrPipeline!FairSpec`: weak fairness of
`SetNotify` and of each worker's step. The Go scheduler runs every goroutine,
`time.After` fires, `main` goes straight on to `SetNotify`, and the database
and the OCR are assumed to answer, with success or an error. Drivers, failures
and crashes are under no fairness. Liveness is stated with its limits: a
pending receipt is always taken; it is reported unless there is a crash; it
settles as done if nothing fails.

## What is proved

`ExpenseServiceProofs`, for any finite or infinite sets of owners, drivers,
expenses, receipts and clients. Assumed of the constants: every driver has an
owner (`OwnersAssumption`, the claims of a verified token), and `None` is
neither an owner, nor a message, nor a row.

The inductive invariant is `IInv == TypeOK /\ RowsOK /\ StatementsFit`.
`RowsOK` says of each row what `ReviewMatchesStatus` and `ReasonMatchesStatus`
say. It is not inductive alone, because an `UPDATE` executes what was decided
earlier: `StatementsFit` says that every statement in flight would write a
status with the reviewer and text that fit it, and that its row still has the
owner and driver it was checked against; it is kept because no statement
changes a row's owner or driver. The proof runs through `Decision` (what the
calls leave in flight fits), `RowStep`, `CallStep` and `AttachmentStep` (what
each action does to each variable), `Inductive` and `Invariance`.

| Theorem | Property |
|---|---|
| `TypeCorrect` | `TypeOK` |
| `ReviewCorrect` | `ReviewMatchesStatus` |
| `ReasonCorrect` | `ReasonMatchesStatus` |
| `Authorized` | `StatementsAuthorized` |
| `IllegalMovesAreStale` | `IllegalMoveIsStale` |
| `RowIdentity` | `RowIdentityKept` |
| `OneMoverImplementsLifecycle` | `ImplementsLifecycle`, while `OneMoverPerRow` |
| `OneLinkerKeepsEvidence` | `EvidenceLinkedFirst`, while `OneLinkerPerRow` |
| `SerialImplementsLifecycle` | `ImplementsLifecycle`, for a single client |
| `SerialEvidenceLinkedFirst` | `EvidenceLinkedFirst`, for a single client |

Overlapping calls on one expense do violate these (a stale write, see the
divergences), so that the
theorems say which overlaps are harmless: any number of calls on different
expenses, and on the same one as long as no two at a time have decided to write
its status (`OneMoverPerRow`) or to link a receipt to it (`OneLinkerPerRow`).
Those are hypotheses about the behaviour, `[]OneMoverPerRow`, not about the
constants. Under the first, `SeenIsCurrent` is an invariant: the status a call
has read is still the status of the row, so every write is a legal move. Under the
second `EvidenceLinkedFirst` is inductive, whoever reviews meanwhile, since a
review writes the status and never the receipt. A single client satisfies both.

`ExpenseApiProofs`, for any number of tenants, drivers and overlapping requests.
`ApiStep` maps every step of the API to a step of the service or a stutter, so
`ApiSpec` implements `Spec` and everything above holds of it too.
`AnswersOwnRowsOnly` is about answers given some statements after the row was
read. Its invariant `ApiInv` therefore says of a request that is being
served that the row is its caller's (`Fits`, `OwnsRow`); that is kept because no
statement changes a row's tenant or driver.

| Theorem | Property |
|---|---|
| `ApiImplementsService` | every behaviour of the API is one of the service |
| `ApiReviewCorrect` | `ReviewMatchesStatus` |
| `ApiAnswersOwnRowsOnly` | `AnswersOwnRowsOnly` |
| `ApiOneMoverImplementsLifecycle` | `ImplementsLifecycle`, while `OneMoverPerRow` |
| `AcknowledgedReviewsStand` | `AcknowledgedReviewStands`, while `OneMoverPerRow` |
| `ToldRejectionsAreTrue` | `ToldRejectedIsRejected`, while `OneMoverPerRow` |
| `ApiSerialImplementsLifecycle` | `ImplementsLifecycle`, for a single client |
| `SerialAnswersStand` | both of the reviews' properties, for a single client |

The two about reviews rest on `StandingInv`, of all requests being served: the
statement of a review is the one its request asked for; a row that was rejected
or approved can only be left by a stale write, of which there is none while no
two calls are going to write the status of one row; so whatever an answer or a
notice said of the row stays true, however late the notice is.

`DriverAccountsProofs`, for any owners, drivers, taxis, tokens, accounts and
callers. Assumed: `None` is no value of a column (`NoneAssumption`). `Typed` adds
to `TypeOK` that a call that names a driver has found its row, which no
statement removes. On it rest four arguments, each with an invariant of its own:

- `OneTaxi` is what the partial unique index keeps; the LEFT JOIN then has one
  line per driver.
- `TaxisLate`: a taxi that an inactive driver has, or one whose deactivation is
  between its statements, was assigned late. Deactivation closes the assignment
  first, so only an INSERT in that window or after it can break the pairing, and
  that INSERT is recorded.
- `TokenInv`. A call may mark another token than the one it checked, so the
  flag alone says nothing: `ReplacedIsRaced` says that a token stored while
  another one of the driver is being used has raced, `TokensApart` that a token
  has one driver, `CarriedOnce` that a token that has not raced is carried by
  one call, which links before it marks. With `FlagsTrue` a new call cannot start
  with a token that has linked. Four actions disturb these facts and have a
  lemma each; all others are `Quiet` (`QuietStep`, `QuietKeepsTokens`).
- `RowsLinked` and `ClaimsLinked`: accounts in rows, and claims and claims about
  to be issued, come from links.

| Theorem | Property |
|---|---|
| `TypeCorrect` | `TypeOK` |
| `TokensLinkOnce` | `TokenLinksOnce` |
| `ClaimsAreFromLinks` | `SessionIsLinkedOrReplaced` |
| `InactiveUnassigned` | `InactiveIsUnassigned` |
| `ListedOnce` | `EachDriverListedOnce` |
| `LoggedOutStays` | `LoggedOutForGood` |

`OcrPipelineProofs`, for any numbers of receipts, expenses, workers, faults and
crashes and any batch limit. Assumed: what `Reading` may be
(`ReadingAssumption`), and that `None` is no receipt, row, amount or OCR result.
`IInv`
adds to `TypeOK` one invariant per table and one for the goroutines:

- `ReceiptsOK`: a receipt that is absent or skipped is untouched; a stored result
  has the total the image shows; a done receipt has a stored result.
- `ExpensesOK`: an amount set by the OCR is the stored total of a receipt the
  expense carries or carried.
- `WorkersOK`: a worker only holds receipts that were pending once, has stored the
  total before it is to mark the receipt done, and has looked an expense up
  under a receipt the expense carried. Other workers may do all of this with the
  same receipt, so these facts must survive everybody else's steps: they do
  because a total, once stored, is never replaced by a different one
  (`TablesGrow`, `Bystander`).

The refinement and `OcrDataIsImmutable` need `AloneOK`: the receipt a worker has in
hand is still `processing` and its batch still `pending`. Two workers violate it
when both hold the same receipt, which the row locks do not prevent; it is an
invariant of all workers as long as that does not happen (`NoneShared`), since a
step of one worker touches its own receipt only (`TouchesItsOwn`). One worker
shares nothing.

`AwaitedTotalArrives` is about what happens between the moment a receipt is
pending with its expense there and the notice, so `TotalInv` collects the
facts that carry it there: a receipt is linked once and later than it is
inserted (`LinkedOnceStep`), a pending receipt was touched by no worker
(`PendingUntouchedStep`), no row loses an amount, and whichever of the workers on
the receipt sends the notice has passed the amount first (`OnItsWayStep`,
`NotifiedStep`).

| Theorem | Property |
|---|---|
| `TypeCorrect` | `TypeOK` |
| `DoneHasFieldsAlways` | `DoneHasFields` |
| `SkippedIsLeftAloneAlways` | `SkippedIsLeftAlone` |
| `OcrAmountIsExtractedAlways` | `OcrAmountIsExtracted` |
| `AwaitedTotalsArrive` | `AwaitedTotalArrives` |
| `UnsharedImplementsLifecycle` | `ImplementsLifecycle`, while `NoneShared` |
| `UnsharedKeepsResults` | `OcrDataIsImmutable`, while `NoneShared` |
| `OneWorkerImplementsLifecycle` | `ImplementsLifecycle`, for a single worker |
| `OneWorkerKeepsResults` | `OcrDataIsImmutable`, for a single worker |

`ConversationProofs`, for any numbers of goroutines, objects, receipts and
expenses. Assumed: `None` is no number and no row. A goroutine checks its object,
calls the database or Telegram, and writes the object afterwards, when another
may have written it too. `TasksOK` says for each call what the goroutine found of
its object and of the rows, `HeapOK` which fields an object in some state has,
and both are kept for two reasons: rows of the driver stay the driver's
(`RowsKept`), and an object in use only gains fields, since a new registration
gets a new object (`Grown`). So a check once made stays true (`CallStays`,
`Bystanders`). `ReceiptsOK` is about receipts between their two INSERTs: one is on
no row and held by a single goroutine until it is linked. The invariant was
checked with one and with two goroutines before it was proved. For
`OneExpensePerConversation`: the object a photo is handled on has no expense until
the photo's own INSERT (`Registers`), since of everything another goroutine may do,
only storing an expense in the same object could give it one (`NeighbourRegisters`);
`PhotosApart` is that nobody does, which holds of a single goroutine.

| Theorem | Property |
|---|---|
| `TypeCorrect` | `TypeOK` |
| `StatesHaveTheirFields` | `StateHasItsFields` |
| `OnlyOwnExpenses` | `OwnExpensesOnly` |
| `NeverDereferencesNil` | `NoNilDereference` |
| `ReceiptsCarriedOnce` | `ReceiptCarriedOnce` |
| `ApartOneExpense` | `OneExpensePerConversation`, while `PhotosApart` |
| `SerialOneExpense` | `OneExpensePerConversation`, for a single goroutine |

`CatalogProofs`, for any owners, names, category ids, accounts and callers and any
list of default categories that is not empty. Assumed: `None` is no owner and no
row. `ChatsOK` says that the buttons of a chat, and the one chosen, are categories
of the chat's owner unless the account was linked to another owner's driver;
`CallsOK` that a seeding has inserted all defaults before the next one and that an
expense the bot is about to insert has such a category. A deleted category keeps
its id, so all this survives deletions; the foreign key refuses the INSERT.

| Theorem | Property |
|---|---|
| `TypeCorrect` | `TypeOK` |
| `BotFilesUnderOwnersCategories` | `BotFilesUnderOwnersCategory` |
| `RegisteredOwnersAreSeeded` | `RegisteredOwnerIsSeeded` |

`ReportsProofs`, for any finite sets of owners, taxis, drivers and categories,
any number of rows and of overlapping reviews, and any amounts, dates, filters and
limits, of which the default is at least 1 and at most the maximum. Nothing is
assumed of whose taxi, driver and category a row has. `RowsOK` says that the
category of a row is there, as the foreign key keeps it; `CallsOK` that a review on
its way has found its row, and not approved; `WalkOK` that a reader has seen every
row that matched at the beginning and is now positioned before the offset.

- Sums: the community modules define a sum by recursion on subsets. That
  it does not depend on the order, and that the sum of a set is the sum over its
  groups (`SumTakes`, `SumOfTwo`, `GroupsSum`, `GroupsCount`), is proved by a
  minimal counterexample among the subsets of a finite set (`SmallestSubset`). Each
  of the three queries then adds up to the approved rows whose taxi, driver or
  category, by the table it scopes by, is the owner's (`TaxisAddUp`,
  `DriversAddUp`, `CategoriesAddUp`): the same rows when none is shared with another
  tenant, and every row once over all owners, shared or not (`OwnersAddUp`).
- Counts: `canTransition` lets nothing out of `approved`, so by `CallsOK` a write that
  takes a row out of a period comes from a call that read it before the approval;
  it is one row (`OneRowLeaves`), and every other step keeps all of them
  (`ApprovedStays`).
- Positions: they are the numbers below the count of matching rows, each taken
  once (`PosOrder`, `PosFilled`); a row registered meanwhile comes first and only
  raises the others (`PosGrows`). A page that is empty therefore begins behind
  every row (`PageSize`), and by `WalkOK` all were seen.

| Theorem | Property |
|---|---|
| `TypeCorrect` | `TypeOK` |
| `ReportsAlwaysAgree` | `ReportsAgree` |
| `NothingIsLostOrDoubled` | `EveryRowIsReported` |
| `CountsStay` | `CountsShrinkByOverlapOnly` |
| `NothingIsMissed` | `WalkMissesNothing` |

`ReceiptTextProofs`, for texts of any length over any digits. NITs, for bases from
eight digits on: the remainder depends on the last ten digits only (`RemainderIs`). Two
bases that differ in one digit differ by a product of a weight and a difference
below ten, two with swapped neighbours by a product of such a difference and that
of two weights; 11 divides none of these factors (`Apart`), so the remainders
differ (`OneOfTen`, `TwoOfTen`), and only the remainders 1 and 10 share a check
digit (`SharedCheckDigit`).

Totals: `Reads` relates what the code makes of a text to what the text says - as
many points as commas, the same digits, and as many of them after the first point
as there are characters other than dots after the first comma - and
every character keeps it (`ReadsAppend`), so that it holds of every text the
machine can write, well formed or not. The two properties follow for the texts they
are about; neither is inductive, since a prefix of a well written number need not be
well written. What one more character does to the recursive functions
(`WithoutAppend`, `NumberAppend`, `MeaningAppend`) needs an induction along the
text, which the library's theorem cannot give here because it takes a predicate as
parameter; `Upwards` takes a set instead and is proved by a smallest
counterexample. By it a recursion has a function (`Recursion`) and only one
(`Alike`), so that the text and the longer text are computed alike up to the
last character. TLC had checked `Reads` before, for totals of seven characters over
two digits.

| Theorem | Property |
|---|---|
| `OneCheckDigit` | `NITHasOneCheckDigit` |
| `MisreadNITsAreRefused` | `MisreadNITIsRefused` |
| `TotalsAreTheirMeaning` | `TotalIsItsMeaning` |
| `OnlyTwoCommasLose` | `LostOnlyWithTwoCommas` |

Only model-checked are the liveness properties (`PendingIsTaken`,
`PendingIsReported`, `PendingSettles`): fairness and ENABLED are out of the prover's
reach. Every other property of a passing run is stated by a theorem. Those marked
"while" are false of unrestricted overlaps; the hypothesis is on the behaviour, and a
theorem beside each says that a single client, worker or goroutine, as in the run
of that property, meets it.

## Not modelled

- Taxis: `Create` with its plate and year checks is one INSERT, the list one
  SELECT. Deactivation is in `Reports`, assignment in `DriverAccounts`.
- Passwords, login, and the signing and parsing of tokens: they change no row;
  a token is its claims, or none.
- JSON decoding, CORS, the web panel's image proxies, photo storage: pure I/O. A
  file that is missing is an outcome of `Read` and of the bot's downloads.
- Of the conversation: `StateAwaitingTaxiSelection`, since `getDriverTaxiIDs`
  returns exactly one taxi, and the answers that only show something. The taxi
  choice is never offered.
- The extraction of CUFE, NIT and date from a text is pattern matching without
  state; the total and the check digit are in `ReceiptText`.
- Configuration and construction at start-up; the one order that matters, the
  pool before `SetNotify`, is in `OcrPipeline`. Mocks and fixtures do not run.

## Plan

Done, in order of importance: the expense service; the OCR pool; the
conversation; the API over the service; the drivers' accounts; owners and
categories; reports; the text algorithms; for each of them the theorems above.
Left:

1. A composition of `Conversation` and `OcrPipeline`: what a confirmation button
   shows against the amount of the row.
2. Liveness by proof, should the prover come to support ENABLED.
