--------------------------- MODULE CatalogProofs ----------------------------
(***************************************************************************)
(* Proofs about Catalog, for any number of owners, categories, Telegram    *)
(* accounts and callers, and any sequence of default categories.           *)
(***************************************************************************)
EXTENDS Catalog, TLAPS

-----------------------------------------------------------------------------
(* The inductive invariant: what a conversation, and a call in flight,     *)
(* knows of the tables is still true of them.                              *)

\* Category k was inserted for owner o, or account a served two owners.
Filed(k, o, a) == categories[k] # None /\ (categories[k].owner = o \/ a \in moved)

\* The buttons of a chat are categories of its owner; before the first
\* authentication there are none.
ChatOK(a) ==
    /\ chat[a].owner = None => chat[a].shown = {} /\ chat[a].state = "idle"
    /\ \A k \in chat[a].shown : Filed(k, chat[a].owner, a)
    /\ chat[a].state = "photo" =>
          chat[a].chosen \in Categories /\ Filed(chat[a].chosen, chat[a].owner, a)

ChatsOK == \A a \in Accounts : ChatOK(a)

\* The first n default categories of owner o were inserted.
SeededUpTo(o, n) ==
    \A i \in 1..n : \E k \in Categories :
        categories[k] = [owner |-> o, name |-> DefaultCategories[i]]

CallOK(c) ==
    /\ call[c].at = "seed" =>
          call[c].owner \in Created /\ SeededUpTo(call[c].owner, call[c].next - 1)
    /\ call[c].at = "expense" =>
          Filed(call[c].expense.category, call[c].expense.owner, call[c].expense.account)

CallsOK == \A c \in Callers : CallOK(c)

IInv == /\ TypeOK
        /\ ChatsOK
        /\ CallsOK
        /\ BotFilesUnderOwnersCategory
        /\ RegisteredOwnerIsSeeded
-----------------------------------------------------------------------------
(* Calls and the steps that change them.                                   *)

\* A call is of the kind its at field names.
LEMMA CallKind ==
    ASSUME NEW x \in Call
    PROVE  /\ x.at \in {"idle", "bootstrap", "seed", "expense"}
           /\ x.at = "idle" => x = Idle
           /\ x.at = "seed" => x \in [at: {"seed"}, owner: Owners, next: 1..Len(DefaultCategories)]
           /\ x.at = "expense" => x \in [at: {"expense"}, expense: BotExpense]
<1>1. CASE x \in [at: {"idle", "bootstrap"}]
    BY <1>1 DEF Idle
<1>2. CASE x \in [at: {"seed"}, owner: Owners, next: 1..Len(DefaultCategories)]
    BY <1>2
<1>3. CASE x \in [at: {"expense"}, expense: BotExpense]
    BY <1>3
<1>4. QED
    BY <1>1, <1>2, <1>3 DEF Call

LEMMA IdleIsCall == Idle \in Call /\ Idle.at = "idle"
BY DEF Idle, Call

Typed == call \in [Callers -> Call]

\* One caller moves on and the others stay where they are.
LEMMA CallMoves ==
    ASSUME Typed, NEW c \in Callers, NEW v \in Call, call' = [call EXCEPT ![c] = v]
    PROVE  /\ Typed'
           /\ call'[c] = v
           /\ \A d \in Callers \ {c} : call'[d] = call[d]
BY DEF Typed

LEMMA OwnerInserted ==
    ASSUME TypeOK, NEW c \in Callers, NEW o \in Owners, NEW origin \in Origin,
           NEW v \in Call, InsertOwner(c, o, origin, v)
    PROVE  /\ owners' \in [Owners -> Origin \cup {None}]
           /\ Created' = Created \cup {o}
           /\ Typed'
           /\ call'[c] = v /\ \A d \in Callers \ {c} : call'[d] = call[d]
<1>1. owners' = [owners EXCEPT ![o] = origin] /\ owners \in [Owners -> Origin \cup {None}]
    BY DEF TypeOK, InsertOwner
<1>2. Created' = Created \cup {o}
    BY <1>1, NoneAssumption DEF Created
<1>3. Typed
    BY DEF TypeOK, Typed
<1>4. QED
    BY <1>1, <1>2, <1>3, CallMoves DEF InsertOwner

LEMMA FirstDefault == 1 \in 1..Len(DefaultCategories) /\ Len(DefaultCategories) \in Nat
BY DefaultsAssumption

\* What a registration goes on with.
LEMMA SeedIsCall ==
    ASSUME NEW o \in Owners, NEW n \in 1..Len(DefaultCategories)
    PROVE  /\ [at |-> "seed", owner |-> o, next |-> n] \in Call
           /\ DefaultCategories[n] \in Names
BY DefaultsAssumption DEF Call

-----------------------------------------------------------------------------
(* Type correctness.                                                       *)

LEMMA TypeInit == Init => TypeOK
<1>1. SUFFICES ASSUME Init PROVE TypeOK
    OBVIOUS
<1>2. [owner |-> None, state |-> "idle", chosen |-> None, shown |-> {}] \in Chat
    BY DEF Chat
<1>3. chat \in [Accounts -> Chat]
    BY <1>1, <1>2 DEF Init
<1>4. call \in [Callers -> Call]
    BY <1>1, IdleIsCall DEF Init
<1>5. /\ owners \in [Owners -> Origin \cup {None}]
      /\ categories \in [Categories -> CategoryRow \cup {None}]
    BY <1>1 DEF Init
<1>6. deleted \subseteq Categories /\ expenses \subseteq Expense /\ moved \subseteq Accounts
    BY <1>1 DEF Init
<1>7. QED
    BY <1>3, <1>4, <1>5, <1>6 DEF TypeOK

\* One insertion of SeedDefaultCategories.
LEMMA SeedFacts ==
    ASSUME TypeOK, NEW c \in Callers, Seed(c)
    PROVE  LET o == call[c].owner
               n == call[c].next
           IN  /\ o \in Owners /\ n \in 1..Len(DefaultCategories)
               /\ \/ NameTaken(o, DefaultCategories[n]) /\ UNCHANGED categories
                  \/ \E k \in Categories : InsertCategory(o, DefaultCategories[n], k)
               /\ \/ /\ n = Len(DefaultCategories)
                     /\ owners' = [owners EXCEPT ![o] = "seeded"]
                     /\ call' = [call EXCEPT ![c] = Idle]
                  \/ /\ n # Len(DefaultCategories) /\ n + 1 \in 1..Len(DefaultCategories)
                     /\ UNCHANGED owners
                     /\ call' = [call EXCEPT ![c] =
                                    [at |-> "seed", owner |-> o, next |-> n + 1]]
<1>1. call[c] \in [at: {"seed"}, owner: Owners, next: 1..Len(DefaultCategories)]
    BY CallKind DEF TypeOK, Seed
<1>2. call[c].next # Len(DefaultCategories) => call[c].next + 1 \in 1..Len(DefaultCategories)
    BY <1>1, FirstDefault
<1>3. \/ NameTaken(call[c].owner, DefaultCategories[call[c].next]) /\ UNCHANGED categories
      \/ \E k \in Categories :
            InsertCategory(call[c].owner, DefaultCategories[call[c].next], k)
    BY DEF Seed
<1>4. QED
    BY <1>1, <1>2, <1>3 DEF Seed

LEMMA CategoryInserted ==
    ASSUME TypeOK, NEW o \in Owners, NEW n \in Names, NEW k \in Categories,
           InsertCategory(o, n, k)
    PROVE  /\ categories' \in [Categories -> CategoryRow \cup {None}]
           /\ categories'[k] = [owner |-> o, name |-> n]
           /\ \A j \in Categories : categories[j] # None => categories'[j] = categories[j]
<1>1. [owner |-> o, name |-> n] \in CategoryRow
    BY DEF CategoryRow
<1>2. QED
    BY <1>1 DEF TypeOK, InsertCategory

LEMMA TypeStep ==
    ASSUME TypeOK, ChatsOK, [Next]_vars
    PROVE  TypeOK'
<1> USE DEF TypeOK
<1>1. Typed
    BY DEF Typed
<1>2. CASE UNCHANGED vars
    BY <1>2 DEF vars
<1>3. ASSUME NEW c \in Callers, NEW o \in Owners, BootstrapCreate(c, o)
      PROVE  TypeOK'
    BY <1>3, OwnerInserted, IdleIsCall DEF BootstrapCreate, Origin, Typed
<1>4. ASSUME NEW c \in Callers, NEW o \in Owners, Register(c, o)
      PROVE  TypeOK'
    BY <1>4, OwnerInserted, SeedIsCall, FirstDefault DEF Register, Origin, Typed
<1>5. ASSUME NEW o \in Owners, NEW k \in Categories, DeleteCategory(o, k)
      PROVE  TypeOK'
    BY <1>5 DEF DeleteCategory
<1>6. ASSUME NEW o \in Owners, NEW k \in Categories, NEW n \in Names, CreateCategory(o, n, k)
      PROVE  TypeOK'
    BY <1>6, CategoryInserted DEF CreateCategory
<1>7. ASSUME NEW a \in Accounts, NEW o \in Owners, Authenticate(a, o)
      PROVE  TypeOK'
    <2> DEFINE v == [chat[a] EXCEPT !.owner = o, !.state = "idle", !.chosen = None]
    <2>1. v \in Chat
        BY DEF Chat
    <2>2. chat' = [chat EXCEPT ![a] = v]
        BY <1>7 DEF Authenticate
    <2> HIDE DEF v
    <2>3. QED
        BY <1>7, <2>1, <2>2 DEF Authenticate
<1>8. ASSUME NEW a \in Accounts, handleGasto(a)
      PROVE  TypeOK'
    <2> DEFINE v == [chat[a] EXCEPT !.state = "category",
                        !.shown = chat[a].shown \cup getExpenseCategories(chat[a].owner)]
    <2>1. getExpenseCategories(chat[a].owner) \subseteq Categories
        BY DEF getExpenseCategories, CategoriesOf
    <2>2. v \in Chat
        BY <2>1 DEF Chat
    <2>3. chat' = [chat EXCEPT ![a] = v]
        BY <1>8 DEF handleGasto
    <2> HIDE DEF v
    <2>4. QED
        BY <1>8, <2>2, <2>3 DEF handleGasto
<1>9. ASSUME NEW a \in Accounts, NEW k \in Categories, handleCategorySelection(a, k)
      PROVE  TypeOK'
    <2> DEFINE v == [chat[a] EXCEPT !.chosen = k, !.state = "photo"]
    <2>1. v \in Chat
        BY DEF Chat
    <2>2. chat' = [chat EXCEPT ![a] = v]
        BY <1>9 DEF handleCategorySelection
    <2> HIDE DEF v
    <2>3. QED
        BY <1>9, <2>1, <2>2 DEF handleCategorySelection
<1>10. ASSUME NEW c \in Callers, Bootstrap(c)
       PROVE  TypeOK'
    <2>1. [at |-> "bootstrap"] \in Call
        BY DEF Call
    <2>2. QED
        BY <1>10, <2>1 DEF Bootstrap
<1>11. ASSUME NEW c \in Callers, Seed(c)
       PROVE  TypeOK'
    <2>1. owners' \in [Owners -> Origin \cup {None}]
        BY <1>11, SeedFacts DEF Origin
    <2>2. call' \in [Callers -> Call]
        BY <1>1, <1>11, SeedFacts, SeedIsCall, IdleIsCall, CallMoves DEF Typed
    <2>3. categories' \in [Categories -> CategoryRow \cup {None}]
        BY <1>11, SeedFacts, SeedIsCall, CategoryInserted
    <2>4. QED
        BY <1>11, <2>1, <2>2, <2>3 DEF Seed
<1>12. ASSUME NEW c \in Callers, CreateExpense(c)
       PROVE  TypeOK'
    <2>1. call[c] \in [at: {"expense"}, expense: BotExpense]
        BY <1>12, CallKind DEF CreateExpense
    <2>2. call[c].expense \in Expense /\ call[c].expense.account \in Accounts
        BY <2>1 DEF Expense, BotExpense
    <2>3. call' \in [Callers -> Call]
        BY <1>12, IdleIsCall DEF CreateExpense
    <2>4. expenses' \subseteq Expense
        BY <1>12, <2>2 DEF CreateExpense
    <2>5. chat' \in [Accounts -> Chat]
        <3> DEFINE a == call[c].expense.account
        <3> DEFINE v == [chat[a] EXCEPT !.state = "idle"]
        <3>1. v \in Chat
            BY <2>2 DEF Chat
        <3>2. UNCHANGED chat \/ chat' = [chat EXCEPT ![a] = v]
            BY <1>12 DEF CreateExpense
        <3> HIDE DEF v
        <3>3. QED
            BY <3>1, <3>2
    <2>6. QED
        BY <1>12, <2>3, <2>4, <2>5 DEF CreateExpense
<1>13. ASSUME NEW c \in Callers, Fail(c)
       PROVE  TypeOK'
    BY <1>13, IdleIsCall DEF Fail, Origin
<1>14. ASSUME NEW c \in Callers, NEW a \in Accounts, handlePhoto(c, a)
       PROVE  TypeOK'
    <2> DEFINE e == [owner |-> chat[a].owner, category |-> chat[a].chosen, account |-> a]
    <2>1. chat[a] \in Chat /\ chat[a].owner # None /\ chat[a].chosen \in Categories
        BY <1>14 DEF handlePhoto, ChatsOK, ChatOK
    <2>2. e \in BotExpense
        BY <2>1 DEF Chat, BotExpense
    <2>3. call' = [call EXCEPT ![c] = [at |-> "expense", expense |-> e]]
        BY <1>14 DEF handlePhoto
    <2> HIDE DEF e
    <2>4. [at |-> "expense", expense |-> e] \in Call
        BY <2>2 DEF Call
    <2>5. QED
        BY <1>14, <2>3, <2>4 DEF handlePhoto
<1>15. ASSUME NEW o \in Owners, NEW k \in Categories, Create(o, k)
       PROVE  TypeOK'
    BY <1>15 DEF Create, Expense
<1>16. QED
    BY <1>2, <1>3, <1>4, <1>5, <1>6, <1>7, <1>8, <1>9, <1>10, <1>11, <1>12, <1>13, <1>14, <1>15
        DEF Next, OwnerRequest, CategoryRequest, BotUpdate

-----------------------------------------------------------------------------
(* What the tables only gain.                                              *)

TablesGrow ==
    /\ Created \subseteq Created'
    /\ moved \subseteq moved'
    /\ \A k \in Categories : categories[k] # None => categories'[k] = categories[k]

LEMMA GrowStep ==
    ASSUME TypeOK, [Next]_vars
    PROVE  TablesGrow
<1>1. ASSUME NEW c \in Callers, NEW o \in Owners, BootstrapCreate(c, o) \/ Register(c, o)
      PROVE  Created \subseteq Created'
    BY <1>1, OwnerInserted, IdleIsCall, SeedIsCall, FirstDefault
        DEF BootstrapCreate, Register, Origin
<1>2. ASSUME NEW c \in Callers, Seed(c) \/ Fail(c)
      PROVE  Created \subseteq Created'
    BY <1>2, NoneAssumption DEF Seed, Fail, Created, TypeOK, Origin
<1>3. Created \subseteq Created'
    BY <1>1, <1>2 DEF Next, OwnerRequest, CategoryRequest, Create, DeleteCategory, CreateCategory,
        BotUpdate, handleGasto, Authenticate, handleCategorySelection, handlePhoto,
        Bootstrap, CreateExpense, Created, vars
<1>4. moved \subseteq moved'
    BY DEF Next, OwnerRequest, BootstrapCreate, Register, CategoryRequest, Create, DeleteCategory,
        CreateCategory, BotUpdate, handleGasto, Authenticate, handleCategorySelection,
        handlePhoto, Bootstrap, Seed, CreateExpense, Fail, vars
<1>5. ASSUME NEW c \in Callers, Seed(c)
      PROVE  \A k \in Categories : categories[k] # None => categories'[k] = categories[k]
    BY <1>5, SeedFacts, SeedIsCall, CategoryInserted
<1>6. ASSUME NEW o \in Owners, NEW k \in Categories, NEW n \in Names, CreateCategory(o, n, k)
      PROVE  \A j \in Categories : categories[j] # None => categories'[j] = categories[j]
    BY <1>6, CategoryInserted DEF CreateCategory
<1>7. \A k \in Categories : categories[k] # None => categories'[k] = categories[k]
    BY <1>5, <1>6 DEF Next, OwnerRequest, BootstrapCreate, Register, CategoryRequest, Create,
        DeleteCategory, BotUpdate, handleGasto, Authenticate, handleCategorySelection,
        handlePhoto, Bootstrap, CreateExpense, Fail, vars
<1>8. QED
    BY <1>3, <1>4, <1>7 DEF TablesGrow

\* A category filed for an owner stays so.
LEMMA FiledStays ==
    ASSUME TablesGrow, NEW k \in Categories, NEW o, NEW a, Filed(k, o, a)
    PROVE  (Filed(k, o, a))'
BY DEF TablesGrow, Filed

LEMMA SeededStays ==
    ASSUME TablesGrow, TypeOK, NEW o \in Owners, NEW n \in Nat, SeededUpTo(o, n),
           n <= Len(DefaultCategories)
    PROVE  (SeededUpTo(o, n))'
<1>1. SUFFICES ASSUME NEW i \in 1..n
               PROVE  \E k \in Categories :
                         categories'[k] = [owner |-> o, name |-> DefaultCategories[i]]
    BY DEF SeededUpTo
<1>2. PICK k \in Categories : categories[k] = [owner |-> o, name |-> DefaultCategories[i]]
    BY DEF SeededUpTo
<1>3. i \in 1..Len(DefaultCategories)
    BY FirstDefault
<1>4. [owner |-> o, name |-> DefaultCategories[i]] \in CategoryRow
    BY <1>3, SeedIsCall DEF CategoryRow
<1>5. QED
    BY <1>2, <1>4, NoneAssumption DEF TablesGrow

-----------------------------------------------------------------------------
(* The parts of the inductive invariant.                                   *)

LEMMA ChatsStep ==
    ASSUME IInv, [Next]_vars
    PROVE  ChatsOK'
<1>1. TypeOK /\ TablesGrow /\ ChatsOK
    BY GrowStep DEF IInv
<1>2. ASSUME NEW x \in Accounts, chat'[x] = chat[x]
      PROVE  (ChatOK(x))'
    <2>1. chat[x] \in Chat /\ chat[x].shown \subseteq Categories
        BY <1>1 DEF TypeOK, Chat
    <2>2. \A k \in chat[x].shown : (Filed(k, chat[x].owner, x))'
        BY <1>1, <1>2, <2>1 DEF ChatsOK, ChatOK, TablesGrow, Filed
    <2>3. chat[x].state = "photo" =>
              chat[x].chosen \in Categories /\ (Filed(chat[x].chosen, chat[x].owner, x))'
        BY <1>1, <1>2 DEF ChatsOK, ChatOK, TablesGrow, Filed
    <2>4. QED
        BY <1>1, <1>2, <2>2, <2>3 DEF ChatsOK, ChatOK
<1>3. ASSUME NEW a \in Accounts, NEW o \in Owners, Authenticate(a, o), NEW x \in Accounts
      PROVE  (ChatOK(x))'
    <2> DEFINE v == [chat[a] EXCEPT !.owner = o, !.state = "idle", !.chosen = None]
    <2>1. chat' = [chat EXCEPT ![a] = v] /\ chat[a] \in Chat
          /\ chat[a].shown \subseteq Categories
        BY <1>1, <1>3 DEF Authenticate, TypeOK, Chat
    <2>2. v.owner = o /\ v.state = "idle" /\ v.shown = chat[a].shown
        BY <2>1 DEF Chat
    <2> HIDE DEF v
    <2>3. CASE x # a
        BY <1>1, <1>2, <2>1, <2>3 DEF TypeOK
    <2>4. CASE x = a
        <3>1. chat'[x] = v /\ o # None
            BY <1>1, <2>1, <2>4, NoneAssumption DEF TypeOK
        <3>2. ASSUME NEW k \in chat[a].shown
              PROVE  (Filed(k, o, a))'
            <4>1. Filed(k, chat[a].owner, a) /\ chat[a].owner # None
                BY <1>1 DEF ChatsOK, ChatOK
            <4>2. chat[a].owner = o \/ a \in moved'
                BY <1>3, <4>1 DEF Authenticate
            <4>3. UNCHANGED categories /\ moved \subseteq moved'
                BY <1>1, <1>3 DEF Authenticate, TablesGrow
            <4>4. QED
                BY <4>1, <4>2, <4>3 DEF Filed
        <3>3. QED
            BY <2>2, <2>4, <3>1, <3>2 DEF ChatOK, Filed
    <2>5. QED
        BY <2>3, <2>4
<1>4. ASSUME NEW a \in Accounts, handleGasto(a), NEW x \in Accounts
      PROVE  (ChatOK(x))'
    <2> DEFINE o == chat[a].owner
    <2> DEFINE v == [chat[a] EXCEPT !.state = "category",
                        !.shown = chat[a].shown \cup getExpenseCategories(o)]
    <2>1. chat' = [chat EXCEPT ![a] = v] /\ chat[a] \in Chat /\ o # None
        BY <1>1, <1>4 DEF handleGasto, TypeOK
    <2>2. /\ v.owner = o /\ v.state = "category"
          /\ v.shown = chat[a].shown \cup getExpenseCategories(o)
        BY <2>1 DEF Chat
    <2> HIDE DEF v
    <2>3. CASE x # a
        BY <1>1, <1>2, <2>1, <2>3 DEF TypeOK
    <2>4. CASE x = a
        <3>1. chat'[x] = v
            BY <1>1, <2>1, <2>4 DEF TypeOK
        <3>2. \A k \in chat[a].shown \cup getExpenseCategories(o) : Filed(k, o, a)
            BY <1>1 DEF ChatsOK, ChatOK, getExpenseCategories, CategoriesOf, Exists, Filed
        <3>3. UNCHANGED <<categories, moved>>
            BY <1>4 DEF handleGasto
        <3>4. QED
            BY <2>1, <2>2, <2>4, <3>1, <3>2, <3>3 DEF ChatOK, Filed
    <2>5. QED
        BY <2>3, <2>4
<1>5. ASSUME NEW a \in Accounts, NEW k \in Categories, handleCategorySelection(a, k),
             NEW x \in Accounts
      PROVE  (ChatOK(x))'
    <2> DEFINE v == [chat[a] EXCEPT !.chosen = k, !.state = "photo"]
    <2>1. chat' = [chat EXCEPT ![a] = v] /\ chat[a] \in Chat
          /\ k \in chat[a].shown /\ UNCHANGED <<categories, moved>>
          /\ chat[a].state = "category"
        BY <1>1, <1>5 DEF handleCategorySelection, TypeOK
    <2>2. /\ v.owner = chat[a].owner /\ v.state = "photo" /\ v.shown = chat[a].shown
          /\ v.chosen = k
        BY <2>1 DEF Chat
    <2> HIDE DEF v
    <2>3. CASE x # a
        BY <1>1, <1>2, <2>1, <2>3 DEF TypeOK
    <2>4. CASE x = a
        <3>1. chat'[x] = v
            BY <1>1, <2>1, <2>4 DEF TypeOK
        <3>2. QED
            BY <1>1, <2>1, <2>2, <2>4, <3>1 DEF ChatsOK, ChatOK, Filed
    <2>5. QED
        BY <2>3, <2>4
<1>6. ASSUME NEW c \in Callers, CreateExpense(c), NEW x \in Accounts
      PROVE  (ChatOK(x))'
    <2> DEFINE a == call[c].expense.account
    <2> DEFINE v == [chat[a] EXCEPT !.state = "idle"]
    <2>1. UNCHANGED chat \/ chat' = [chat EXCEPT ![a] = v]
        BY <1>6 DEF CreateExpense
    <2>2. UNCHANGED <<categories, moved>>
        BY <1>6 DEF CreateExpense
    <2> HIDE DEF v, a
    <2>3. CASE chat'[x] = chat[x]
        BY <1>2, <2>3
    <2>4. CASE chat' = [chat EXCEPT ![a] = v] /\ x = a
        <3>1. chat[x] \in Chat /\ chat'[x] = v
            BY <1>1, <2>4 DEF TypeOK
        <3>2. v.owner = chat[x].owner /\ v.state = "idle" /\ v.shown = chat[x].shown
            BY <2>4, <3>1 DEF Chat, v
        <3>3. QED
            BY <1>1, <2>2, <3>1, <3>2 DEF ChatsOK, ChatOK, Filed
    <2>5. QED
        BY <1>1, <2>1, <2>3, <2>4 DEF TypeOK
<1>7. CASE UNCHANGED chat
    BY <1>2, <1>7 DEF ChatsOK
<1>8. \/ UNCHANGED chat
      \/ \E a \in Accounts, o \in Owners : Authenticate(a, o)
      \/ \E a \in Accounts : handleGasto(a)
      \/ \E a \in Accounts, k \in Categories : handleCategorySelection(a, k)
      \/ \E c \in Callers : CreateExpense(c)
    BY DEF Next, OwnerRequest, BootstrapCreate, Register, CategoryRequest, Create, DeleteCategory,
        CreateCategory, BotUpdate, handlePhoto, Bootstrap, Seed, Fail, vars
<1>9. QED
    BY <1>3, <1>4, <1>5, <1>6, <1>7, <1>8 DEF ChatsOK

\* What a caller that does not move knows stays true.
LEMMA Bystander ==
    ASSUME IInv, TablesGrow, NEW d \in Callers, call'[d] = call[d]
    PROVE  (CallOK(d))'
<1>1. TypeOK /\ CallOK(d)
    BY DEF IInv, CallsOK
<1>2. CASE call[d].at \in {"idle", "bootstrap"}
    BY <1>2 DEF CallOK
<1>3. CASE call[d].at = "seed"
    <2>1. call[d] \in [at: {"seed"}, owner: Owners, next: 1..Len(DefaultCategories)]
        BY <1>1, <1>3, CallKind DEF TypeOK
    <2>2. /\ call[d].owner \in Owners /\ call[d].next - 1 \in Nat
          /\ call[d].next - 1 <= Len(DefaultCategories)
        BY <2>1, FirstDefault
    <2>3. (SeededUpTo(call[d].owner, call[d].next - 1))'
        <3> DEFINE o == call[d].owner
        <3> DEFINE n == call[d].next - 1
        <3>1. SeededUpTo(o, n) /\ o \in Owners /\ n \in Nat /\ n <= Len(DefaultCategories)
            BY <1>1, <1>3, <2>2 DEF CallOK
        <3>2. o = call'[d].owner /\ n = call'[d].next - 1
            OBVIOUS
        <3> HIDE DEF o, n
        <3>3. \A i \in 1..n : \E k \in Categories :
                  categories'[k] = [owner |-> o, name |-> DefaultCategories[i]]
            BY <1>1, <3>1, SeededStays DEF SeededUpTo
        <3>4. QED
            BY <3>2, <3>3 DEF SeededUpTo
    <2>4. QED
        BY <1>1, <1>3, <2>3 DEF CallOK, TablesGrow
<1>4. CASE call[d].at = "expense"
    <2>1. call[d] \in [at: {"expense"}, expense: BotExpense]
        BY <1>1, <1>4, CallKind DEF TypeOK
    <2>2. call[d].expense.category \in Categories
        BY <2>1 DEF BotExpense
    <2>3. QED
        BY <1>1, <1>4, <2>2 DEF CallOK, TablesGrow, Filed
<1>5. QED
    BY <1>1, <1>2, <1>3, <1>4, CallKind DEF TypeOK

\* After the insertion of the n-th default category the first n were inserted.
LEMMA SeededByStep ==
    ASSUME TypeOK, TablesGrow, NEW c \in Callers, Seed(c),
           SeededUpTo(call[c].owner, call[c].next - 1)
    PROVE  \A i \in 1..call[c].next : \E k \in Categories :
               categories'[k] = [owner |-> call[c].owner, name |-> DefaultCategories[i]]
<1> DEFINE o == call[c].owner
<1> DEFINE n == call[c].next
<1>1. o \in Owners /\ n \in 1..Len(DefaultCategories)
    BY SeedFacts
<1>2. /\ n \in Nat /\ n - 1 \in Nat /\ n - 1 <= Len(DefaultCategories)
      /\ DefaultCategories[n] \in Names
    <2> HIDE DEF n, o
    <2>1. n \in Nat /\ n - 1 \in Nat /\ n - 1 <= Len(DefaultCategories)
        BY <1>1, FirstDefault
    <2>2. DefaultCategories[n] \in Names
        BY <1>1, SeedIsCall
    <2>3. QED
        BY <2>1, <2>2
<1>3. \A i \in 1..(n - 1) : \E k \in Categories :
          categories'[k] = [owner |-> o, name |-> DefaultCategories[i]]
    BY <1>1, <1>2, SeededStays DEF SeededUpTo
<1>4. \E k \in Categories : categories'[k] = [owner |-> o, name |-> DefaultCategories[n]]
    <2>1. CASE NameTaken(o, DefaultCategories[n]) /\ UNCHANGED categories
        <3>1. PICK k \in CategoriesOf(o) : categories[k].name = DefaultCategories[n]
            BY <2>1 DEF NameTaken
        <3>2. k \in Categories /\ categories[k] \in CategoryRow /\ categories[k].owner = o
            BY <3>1 DEF CategoriesOf, Exists, TypeOK
        <3>3. QED
            BY <2>1, <3>1, <3>2 DEF CategoryRow
    <2>2. CASE \E k \in Categories : InsertCategory(o, DefaultCategories[n], k)
        BY <1>1, <1>2, <2>2, CategoryInserted
    <2>3. QED
        BY <2>1, <2>2, SeedFacts
<1>5. \A i \in 1..n : i = n \/ i \in 1..(n - 1)
    BY <1>2
<1>6. QED
    BY <1>3, <1>4, <1>5

LEMMA CallsStep ==
    ASSUME IInv, [Next]_vars
    PROVE  CallsOK'
<1>1. TypeOK /\ TablesGrow /\ ChatsOK /\ CallsOK /\ Typed
    BY GrowStep DEF IInv, TypeOK, Typed
<1>2. CASE UNCHANGED call
    BY <1>1, <1>2, Bystander DEF CallsOK
<1>3. ASSUME NEW c \in Callers, NEW v \in Call, call' = [call EXCEPT ![c] = v],
             call'[c] = v => (CallOK(c))'
      PROVE  CallsOK'
    <2>1. call'[c] = v /\ \A d \in Callers \ {c} : call'[d] = call[d]
        BY <1>1, <1>3, CallMoves
    <2>2. QED
        BY <1>1, <1>3, <2>1, Bystander DEF CallsOK
<1>4. ASSUME NEW c \in Callers, NEW v \in Call, call' = [call EXCEPT ![c] = v],
             v.at \in {"idle", "bootstrap"}
      PROVE  CallsOK'
    BY <1>3, <1>4 DEF CallOK
<1>5. ASSUME NEW c \in Callers, NEW o \in Owners, BootstrapCreate(c, o) \/ Register(c, o)
      PROVE  CallsOK'
    <2>1. CASE BootstrapCreate(c, o)
        BY <1>4, <2>1, IdleIsCall DEF BootstrapCreate, InsertOwner
    <2>2. CASE Register(c, o)
        <3>1. PICK v : v = [at |-> "seed", owner |-> o, next |-> 1]
            OBVIOUS
        <3>2. v \in Call /\ call' = [call EXCEPT ![c] = v] /\ o \in Created'
            BY <1>1, <2>2, <3>1, OwnerInserted, SeedIsCall, FirstDefault
                DEF Register, InsertOwner, Origin
        <3>3. ASSUME call'[c] = v PROVE (CallOK(c))'
            <4>1. \A i \in 1..(call'[c].next - 1) : FALSE
                BY <3>1, <3>3
            <4>2. (SeededUpTo(call[c].owner, call[c].next - 1))'
                BY <4>1 DEF SeededUpTo
            <4>3. QED
                BY <3>1, <3>2, <3>3, <4>2 DEF CallOK
        <3>4. QED
            BY <1>3, <3>2, <3>3
    <2>3. QED
        BY <1>5, <2>1, <2>2
<1>6. ASSUME NEW c \in Callers, Bootstrap(c)
      PROVE  CallsOK'
    <2>1. [at |-> "bootstrap"] \in Call
        BY DEF Call
    <2>2. QED
        BY <1>4, <1>6, <2>1 DEF Bootstrap
<1>7. ASSUME NEW c \in Callers, NEW a \in Accounts, handlePhoto(c, a)
      PROVE  CallsOK'
    <2> DEFINE e == [owner |-> chat[a].owner, category |-> chat[a].chosen, account |-> a]
    <2> DEFINE v == [at |-> "expense", expense |-> e]
    <2>1. chat[a] \in Chat /\ chat[a].owner # None /\ chat[a].chosen \in Categories
          /\ Filed(chat[a].chosen, chat[a].owner, a)
        BY <1>1, <1>7 DEF handlePhoto, ChatsOK, ChatOK, TypeOK
    <2>2. e \in BotExpense
        BY <2>1 DEF Chat, BotExpense
    <2>3. v \in Call
        BY <2>2 DEF Call
    <2>4. call' = [call EXCEPT ![c] = v] /\ UNCHANGED <<owners, categories, moved>>
        BY <1>7 DEF handlePhoto
    <2>5. call'[c] = v => (CallOK(c))'
        BY <2>1, <2>4 DEF CallOK, Filed
    <2>6. QED
        BY <1>3, <2>3, <2>4, <2>5
<1>8. ASSUME NEW c \in Callers, CreateExpense(c)
      PROVE  CallsOK'
    BY <1>4, <1>8, IdleIsCall DEF CreateExpense
<1>9. ASSUME NEW c \in Callers, Fail(c)
      PROVE  CallsOK'
    BY <1>4, <1>9, IdleIsCall DEF Fail
<1>10. ASSUME NEW c \in Callers, Seed(c)
       PROVE  CallsOK'
    <2> DEFINE o == call[c].owner
    <2> DEFINE n == call[c].next
    <2>1. o \in Created /\ SeededUpTo(o, n - 1)
        BY <1>1, <1>10 DEF Seed, CallsOK, CallOK
    <2>2. Created' = Created
        BY <1>1, <1>10, <2>1, SeedFacts, NoneAssumption DEF Created, TypeOK, Origin
    <2>3. CASE call' = [call EXCEPT ![c] = Idle]
        BY <1>4, <2>3, IdleIsCall
    <2>4. CASE /\ n + 1 \in 1..Len(DefaultCategories)
               /\ call' = [call EXCEPT ![c] = [at |-> "seed", owner |-> o, next |-> n + 1]]
        <3> DEFINE v == [at |-> "seed", owner |-> o, next |-> n + 1]
        <3>1. o \in Owners /\ v \in Call
            BY <1>1, <1>10, <2>4, SeedFacts, SeedIsCall
        <3>2. call'[c] = v /\ \A d \in Callers \ {c} : call'[d] = call[d]
            BY <1>1, <2>4, <3>1, CallMoves
        <3>3. \A i \in 1..n : \E k \in Categories :
                  categories'[k] = [owner |-> o, name |-> DefaultCategories[i]]
            BY <1>1, <1>10, <2>1, SeededByStep
        <3>4. call'[c].owner = o /\ call'[c].next - 1 = n
            BY <1>1, <1>10, <3>2, SeedFacts, FirstDefault
        <3>5. (SeededUpTo(call[c].owner, call[c].next - 1))'
            BY <3>3, <3>4 DEF SeededUpTo
        <3>6. (CallOK(c))'
            BY <2>1, <2>2, <3>2, <3>5 DEF CallOK
        <3>7. QED
            BY <1>1, <3>2, <3>6, Bystander DEF CallsOK
    <2>5. QED
        BY <1>1, <1>10, <2>3, <2>4, SeedFacts
<1>11. \/ UNCHANGED call
       \/ \E c \in Callers, o \in Owners : BootstrapCreate(c, o) \/ Register(c, o)
       \/ \E c \in Callers, a \in Accounts : handlePhoto(c, a)
       \/ \E c \in Callers : Bootstrap(c) \/ Seed(c) \/ CreateExpense(c) \/ Fail(c)
    BY DEF Next, OwnerRequest, CategoryRequest, Create, DeleteCategory, CreateCategory, BotUpdate,
        handleGasto, Authenticate, handleCategorySelection, vars
<1>12. QED
    BY <1>2, <1>5, <1>6, <1>7, <1>8, <1>9, <1>10, <1>11

LEMMA ExpensesStep ==
    ASSUME IInv, [Next]_vars
    PROVE  BotFilesUnderOwnersCategory'
<1> USE DEF BotFilesUnderOwnersCategory
<1>1. TypeOK /\ TablesGrow /\ BotFilesUnderOwnersCategory
    BY GrowStep DEF IInv
<1>2. ASSUME NEW o \in Owners, NEW k \in Categories, DeleteCategory(o, k)
      PROVE  BotFilesUnderOwnersCategory'
    BY <1>1, <1>2 DEF DeleteCategory, Exists
<1>3. ASSUME NEW c \in Callers, CreateExpense(c)
      PROVE  BotFilesUnderOwnersCategory'
    <2>1. UNCHANGED <<categories, deleted, moved>>
        BY <1>3 DEF CreateExpense
    <2>2. Filed(call[c].expense.category, call[c].expense.owner, call[c].expense.account)
        BY <1>3 DEF CreateExpense, IInv, CallsOK, CallOK
    <2>3. UNCHANGED expenses \/ (expenses' = expenses \cup {call[c].expense}
                                  /\ Exists(call[c].expense.category))
        BY <1>3 DEF CreateExpense
    <2>4. QED
        BY <1>1, <2>1, <2>2, <2>3 DEF Exists, Filed
<1>4. ASSUME NEW o \in Owners, NEW k \in Categories, Create(o, k)
      PROVE  BotFilesUnderOwnersCategory'
    BY <1>1, <1>4 DEF Create, Exists
<1>5. CASE UNCHANGED <<deleted, expenses>>
    <2>1. \A e \in expenses : e.category \in Categories
        BY <1>1 DEF TypeOK, Expense
    <2>2. QED
        BY <1>1, <1>5, <2>1 DEF TablesGrow, Exists
<1>6. \/ UNCHANGED <<deleted, expenses>>
      \/ \E o \in Owners, k \in Categories : Create(o, k)
      \/ \E o \in Owners, k \in Categories : DeleteCategory(o, k)
      \/ \E c \in Callers : CreateExpense(c)
    BY DEF Next, OwnerRequest, BootstrapCreate, Register, CategoryRequest, CreateCategory,
        BotUpdate, handleGasto, Authenticate, handleCategorySelection, handlePhoto,
        Bootstrap, Seed, Fail, vars
<1>7. QED
    BY <1>2, <1>3, <1>4, <1>5, <1>6

LEMMA SeededStep ==
    ASSUME IInv, [Next]_vars
    PROVE  RegisteredOwnerIsSeeded'
<1>1. TypeOK /\ TablesGrow /\ RegisteredOwnerIsSeeded
    BY GrowStep DEF IInv
<1>2. SUFFICES ASSUME NEW o \in Owners, owners'[o] = "seeded",
                      NEW i \in 1..Len(DefaultCategories)
               PROVE  \E k \in Categories :
                         categories'[k] = [owner |-> o, name |-> DefaultCategories[i]]
    BY DEF RegisteredOwnerIsSeeded
<1>3. CASE owners[o] = "seeded"
    <2>1. PICK k \in Categories : categories[k] = [owner |-> o, name |-> DefaultCategories[i]]
        BY <1>1, <1>3 DEF RegisteredOwnerIsSeeded
    <2>2. [owner |-> o, name |-> DefaultCategories[i]] \in CategoryRow
        BY SeedIsCall DEF CategoryRow
    <2>3. QED
        BY <1>1, <2>1, <2>2, NoneAssumption DEF TablesGrow
<1>4. ASSUME NEW c \in Callers, Seed(c), call[c].owner = o,
             call[c].next = Len(DefaultCategories)
      PROVE  \E k \in Categories :
                 categories'[k] = [owner |-> o, name |-> DefaultCategories[i]]
    <2>1. SeededUpTo(call[c].owner, call[c].next - 1)
        BY <1>4 DEF Seed, IInv, CallsOK, CallOK
    <2>2. QED
        BY <1>1, <1>4, <2>1, SeededByStep
<1>5. \/ owners[o] = "seeded"
      \/ \E c \in Callers : /\ Seed(c) /\ call[c].owner = o
                            /\ call[c].next = Len(DefaultCategories)
    <2>1. ASSUME NEW c \in Callers, NEW q \in Owners, BootstrapCreate(c, q) \/ Register(c, q)
          PROVE  owners[o] = "seeded"
        BY <1>1, <1>2, <2>1 DEF BootstrapCreate, Register, InsertOwner, TypeOK
    <2>2. ASSUME NEW c \in Callers, Fail(c)
          PROVE  owners[o] = "seeded"
        BY <1>1, <1>2, <2>2 DEF Fail, TypeOK
    <2>3. ASSUME NEW c \in Callers, Seed(c)
          PROVE  owners[o] = "seeded" \/ (call[c].owner = o
                                          /\ call[c].next = Len(DefaultCategories))
        BY <1>1, <1>2, <2>3, SeedFacts DEF TypeOK
    <2>4. QED
        BY <1>2, <2>1, <2>2, <2>3 DEF Next, OwnerRequest, CategoryRequest, Create, DeleteCategory,
            CreateCategory, BotUpdate, handleGasto, Authenticate, handleCategorySelection,
            handlePhoto, Bootstrap, CreateExpense, vars
<1>6. QED
    BY <1>3, <1>4, <1>5

-----------------------------------------------------------------------------
(* Theorems.                                                               *)

LEMMA InvInit == Init => IInv
<1>1. SUFFICES ASSUME Init PROVE IInv
    OBVIOUS
<1>2. ChatsOK
    BY <1>1 DEF Init, ChatsOK, ChatOK
<1>3. CallsOK
    <2>1. \A c \in Callers : call[c].at = "idle"
        BY <1>1, IdleIsCall DEF Init
    <2>2. QED
        BY <2>1 DEF CallsOK, CallOK
<1>4. BotFilesUnderOwnersCategory
    BY <1>1 DEF Init, BotFilesUnderOwnersCategory
<1>5. RegisteredOwnerIsSeeded
    BY <1>1, NoneAssumption DEF Init, RegisteredOwnerIsSeeded, Origin
<1>6. QED
    BY <1>1, <1>2, <1>3, <1>4, <1>5, TypeInit DEF IInv

LEMMA InvStep == IInv /\ [Next]_vars => IInv'
BY TypeStep, ChatsStep, CallsStep, ExpensesStep, SeededStep DEF IInv

\* Conversations and calls in flight know only what is still true of the tables.
THEOREM Invariance == Spec => []IInv
BY InvInit, InvStep, PTL DEF Spec

\* Every variable keeps its type, for any owners, categories and callers
\* (internal/httpapi/handlers/owner_auth.go, internal/telegram/handlers.go).
THEOREM TypeCorrect == Spec => []TypeOK
<1>1. IInv => TypeOK
    BY DEF IInv
<1>2. QED
    BY <1>1, Invariance, PTL

\* Every expense has a category that exists, and one the bot filed has its
\* owner's, unless its account served drivers of two owners, whichever buttons
\* are pressed and whatever is deleted meanwhile (internal/telegram/handlers.go
\* handleCategorySelection, the foreign key of expenses).
THEOREM BotFilesUnderOwnersCategories == Spec => []BotFilesUnderOwnersCategory
<1>1. IInv => BotFilesUnderOwnersCategory
    BY DEF IInv
<1>2. QED
    BY <1>1, Invariance, PTL

\* A registration that ran to its end has given the owner every default
\* category, whatever was created or deleted during the seeding
\* (internal/expense/service.go SeedDefaultCategories).
THEOREM RegisteredOwnersAreSeeded == Spec => []RegisteredOwnerIsSeeded
<1>1. IInv => RegisteredOwnerIsSeeded
    BY DEF IInv
<1>2. QED
    BY <1>1, Invariance, PTL

=============================================================================
