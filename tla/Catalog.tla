------------------------------ MODULE Catalog ------------------------------
(***************************************************************************)
(* The tables owners and expense_categories, and who names their rows:     *)
(*   internal/httpapi/handlers/owner_auth.go (bootstrap and registration), *)
(*   the categories of internal/expense, and the bot's category buttons,   *)
(*   whose choice ends up in an expense, and POST /expenses.               *)
(* An owner is identified with its email, which is UNIQUE.  Passwords,     *)
(* tokens and names that only have to be non-blank are left out.           *)
(***************************************************************************)
EXTENDS Sequences, Naturals

CONSTANTS
    Owners,             \* emails
    Names,              \* category names, trimmed
    DefaultCategories,  \* the sequence of names seeded for a new owner
    Categories,         \* ids an INSERT may generate
    Accounts,           \* Telegram accounts
    Callers,            \* goroutines: requests and updates in progress
    None

ASSUME DefaultsAssumption ==
    DefaultCategories \in Seq(Names) /\ DefaultCategories # <<>>

VARIABLES
    owners,      \* owners[o]: None, or how its row came to be (see Origin)
    categories,  \* categories[k]: the row, None until inserted
    deleted,     \* ids of deleted rows, which keep their row here
    expenses,    \* inserted expenses
    chat,        \* chat[a]: the conversation of the bot with account a
    call,        \* call[c]: what caller c does next
    moved        \* history: accounts that served drivers of two owners

vars == <<owners, categories, deleted, expenses, chat, call, moved>>

\* "seeding" and "unseeded": registered, with the seeding under way or failed.
Origin == {"bootstrapped", "seeding", "seeded", "unseeded"}

CategoryRow == [owner: Owners, name: Names]
\* account: of the driver, None for an expense that came by POST /expenses.
Expense == [owner: Owners, category: Categories, account: Accounts \cup {None}]

BotExpense == [owner: Owners, category: Categories, account: Accounts]

\* owner: of the driver in the claims; shown: the buttons in the chat.
Chat == [owner: Owners \cup {None}, state: {"idle", "category", "photo"},
         chosen: Categories \cup {None}, shown: SUBSET Categories]

Call ==
    [at: {"idle", "bootstrap"}]
      \cup [at: {"seed"}, owner: Owners, next: 1..Len(DefaultCategories)]
      \cup [at: {"expense"}, expense: BotExpense]

\* None stands for no row and for no owner.
ASSUME NoneAssumption == None \notin Owners /\ None \notin Origin /\ None \notin CategoryRow

Idle == [at |-> "idle"]

Exists(k) == categories[k] # None /\ k \notin deleted

CategoriesOf(o) == {k \in Categories : Exists(k) /\ categories[k].owner = o}

\* uq_owner_category
NameTaken(o, n) == \E k \in CategoriesOf(o) : categories[k].name = n

Init ==
    /\ owners = [o \in Owners |-> None]
    /\ categories = [k \in Categories |-> None]
    /\ deleted = {}
    /\ expenses = {}
    /\ chat = [a \in Accounts |->
                  [owner |-> None, state |-> "idle", chosen |-> None, shown |-> {}]]
    /\ call = [c \in Callers |-> Idle]
    /\ moved = {}

-----------------------------------------------------------------------------
(* Owners.                                                                 *)

Created == {o \in Owners : owners[o] # None}

\* Caller c inserts owner o and goes on at step next.
InsertOwner(c, o, origin, next) ==
    /\ owners' = [owners EXCEPT ![o] = origin]
    /\ call' = [call EXCEPT ![c] = next]

\* Count, behind the secret; an owner in the table ends the call with a 409.
Bootstrap(c) ==
    /\ call[c] = Idle
    /\ Created = {}
    /\ call' = [call EXCEPT ![c] = [at |-> "bootstrap"]]
    /\ UNCHANGED <<owners, categories, deleted, expenses, chat, moved>>

\* The owners are not counted again, and no categories are seeded here.
BootstrapCreate(c, o) ==
    /\ call[c].at = "bootstrap"
    /\ o \notin Created
    /\ InsertOwner(c, o, "bootstrapped", Idle)
    /\ UNCHANGED <<categories, deleted, expenses, chat, moved>>

Register(c, o) ==
    /\ call[c] = Idle
    /\ o \notin Created
    /\ InsertOwner(c, o, "seeding", [at |-> "seed", owner |-> o, next |-> 1])
    /\ UNCHANGED <<categories, deleted, expenses, chat, moved>>

-----------------------------------------------------------------------------
(* Categories.                                                             *)

InsertCategory(o, n, k) ==
    /\ categories[k] = None
    /\ categories' = [categories EXCEPT ![k] = [owner |-> o, name |-> n]]

\* Mutation: a name that is already there ends the seeding.
Seed_StopsAtConflict(c) ==
    /\ call[c].at = "seed"
    /\ LET o == call[c].owner
           n == DefaultCategories[call[c].next]
           last == NameTaken(o, n) \/ call[c].next = Len(DefaultCategories)
       IN  /\ IF NameTaken(o, n) THEN UNCHANGED categories
              ELSE \E k \in Categories : InsertCategory(o, n, k)
           /\ owners' = IF last THEN [owners EXCEPT ![o] = "seeded"] ELSE owners
           /\ call' = [call EXCEPT ![c] = IF last THEN Idle ELSE
                          [at |-> "seed", owner |-> o, next |-> call[c].next + 1]]
    /\ UNCHANGED <<deleted, expenses, chat, moved>>

\* One INSERT ... ON CONFLICT DO NOTHING of SeedDefaultCategories.
Seed(c) ==
    /\ call[c].at = "seed"
    /\ LET o == call[c].owner
           n == DefaultCategories[call[c].next]
           last == call[c].next = Len(DefaultCategories)
       IN  /\ IF NameTaken(o, n) THEN UNCHANGED categories
              ELSE \E k \in Categories : InsertCategory(o, n, k)
           /\ owners' = IF last THEN [owners EXCEPT ![o] = "seeded"] ELSE owners
           /\ call' = [call EXCEPT ![c] = IF last THEN Idle ELSE
                          [at |-> "seed", owner |-> o, next |-> call[c].next + 1]]
    /\ UNCHANGED <<deleted, expenses, chat, moved>>

CreateCategory(o, n, k) ==
    /\ o \in Created
    /\ ~NameTaken(o, n)
    /\ InsertCategory(o, n, k)
    /\ UNCHANGED <<owners, deleted, expenses, chat, call, moved>>

\* The foreign key of expenses refuses the DELETE of a category in use.
DeleteCategory(o, k) ==
    /\ k \in CategoriesOf(o)
    /\ \A e \in expenses : e.category # k
    /\ deleted' = deleted \cup {k}
    /\ UNCHANGED <<owners, categories, expenses, chat, call, moved>>

-----------------------------------------------------------------------------
(* The bot.                                                                *)

\* Account a is authenticated for a driver of owner o: for the first time, or
\* after a restart of the bot, which forgets the conversation but not the
\* buttons.  In between the account may have been linked to another driver.
Authenticate(a, o) ==
    /\ o \in Created
    /\ moved' = IF chat[a].owner \in {None, o} THEN moved ELSE moved \cup {a}
    /\ chat' = [chat EXCEPT ![a].owner = o, ![a].state = "idle", ![a].chosen = None]
    /\ UNCHANGED <<owners, categories, deleted, expenses, call>>

\* Mutation: the list is not restricted to the owner.
getExpenseCategories_AllOwners(o) == {k \in Categories : Exists(k)}

\* The categories listed by promptCategorySelection.
getExpenseCategories(o) == CategoriesOf(o)

handleGasto(a) ==
    /\ chat[a].owner # None
    /\ chat' = [chat EXCEPT ![a].state = "category",
                            ![a].shown = @ \cup getExpenseCategories(chat[a].owner)]
    /\ UNCHANGED <<owners, categories, deleted, expenses, call, moved>>

\* A button of this or of an older list; the id is taken as it is.
handleCategorySelection(a, k) ==
    /\ chat[a].state = "category"
    /\ k \in chat[a].shown
    /\ chat' = [chat EXCEPT ![a].chosen = k, ![a].state = "photo"]
    /\ UNCHANGED <<owners, categories, deleted, expenses, call, moved>>

\* A photo or a typed amount: the receipt is stored, then the expense.
handlePhoto(c, a) ==
    /\ call[c] = Idle
    /\ chat[a].state = "photo"
    /\ call' = [call EXCEPT ![c] =
           [at |-> "expense",
            expense |-> [owner |-> chat[a].owner, category |-> chat[a].chosen,
                         account |-> a]]]
    /\ UNCHANGED <<owners, categories, deleted, expenses, chat, moved>>

\* The INSERT fails if the category is gone, and the receipt stays alone.
CreateExpense(c) ==
    /\ call[c].at = "expense"
    /\ LET e == call[c].expense
       IN  IF Exists(e.category)
           THEN /\ expenses' = expenses \cup {e}
                /\ chat' = [chat EXCEPT ![e.account].state = "idle"]
           ELSE UNCHANGED <<expenses, chat>>
    /\ call' = [call EXCEPT ![c] = Idle]
    /\ UNCHANGED <<owners, categories, deleted, moved>>

\* POST /expenses of a driver of owner o: any category_id that exists will do.
Create(o, k) ==
    /\ o \in Created
    /\ Exists(k)
    /\ expenses' = expenses \cup {[owner |-> o, category |-> k, account |-> None]}
    /\ UNCHANGED <<owners, categories, deleted, chat, call, moved>>

-----------------------------------------------------------------------------
\* A statement fails, or its process stops.  A registration whose seeding
\* fails is only logged, and registering again is refused.
Fail(c) ==
    /\ call[c] # Idle
    /\ owners' = IF call[c].at = "seed"
                 THEN [owners EXCEPT ![call[c].owner] = "unseeded"] ELSE owners
    /\ call' = [call EXCEPT ![c] = Idle]
    /\ UNCHANGED <<categories, deleted, expenses, chat, moved>>

OwnerRequest ==
    \E c \in Callers, o \in Owners : BootstrapCreate(c, o) \/ Register(c, o)

CategoryRequest ==
    \E o \in Owners, k \in Categories :
        \/ DeleteCategory(o, k)
        \/ Create(o, k)
        \/ \E n \in Names : CreateCategory(o, n, k)

BotUpdate ==
    \E a \in Accounts :
        \/ handleGasto(a)
        \/ \E o \in Owners : Authenticate(a, o)
        \/ \E k \in Categories : handleCategorySelection(a, k)
        \/ \E c \in Callers : handlePhoto(c, a)

Next ==
    \/ OwnerRequest
    \/ CategoryRequest
    \/ BotUpdate
    \/ \E c \in Callers : Bootstrap(c) \/ Seed(c) \/ CreateExpense(c) \/ Fail(c)

Spec == Init /\ [][Next]_vars

-----------------------------------------------------------------------------
(***************************************************************************)
(* Types of the tables, conversations and calls.                           *)
(***************************************************************************)
TypeOK ==
    /\ owners \in [Owners -> Origin \cup {None}]
    /\ categories \in [Categories -> CategoryRow \cup {None}]
    /\ deleted \subseteq Categories
    /\ expenses \subseteq Expense
    /\ chat \in [Accounts -> Chat]
    /\ call \in [Callers -> Call]
    /\ moved \subseteq Accounts

\* Every expense has a category that exists, whatever is deleted meanwhile, and
\* one the bot filed has its owner's, whichever old buttons are pressed.  The
\* bot never checks the id of a button: only an account that served drivers of
\* two owners can file an expense under the other owner's category.  POST
\* /expenses takes the id of any owner's category.
BotFilesUnderOwnersCategory ==
    \A e \in expenses :
        /\ Exists(e.category)
        /\ \/ e.account \in moved \cup {None}
           \/ categories[e.category].owner = e.owner

\* A registration that ran to its end has given the owner every default
\* category, whatever the owner created or deleted during the seeding.
RegisteredOwnerIsSeeded ==
    \A o \in Owners : owners[o] = "seeded" =>
        \A i \in 1..Len(DefaultCategories) : \E k \in Categories :
            categories[k] = [owner |-> o, name |-> DefaultCategories[i]]

=============================================================================
