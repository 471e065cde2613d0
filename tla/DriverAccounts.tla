--------------------------- MODULE DriverAccounts ---------------------------
(***************************************************************************)
(* internal/driver over the tables drivers and driver_taxi_assignments,    *)
(* and the part of internal/telegram that links a Telegram account to a    *)
(* driver and keeps the driver's claims.                                   *)
(*                                                                         *)
(* Callers are goroutines: requests of the API process and updates the bot *)
(* handles.  No call runs in a transaction; call[c] says what caller c     *)
(* does next.  A read that checks columns no statement changes (the owner) *)
(* is one action with the statement that follows it.  A call that is       *)
(* refused changes nothing and is no action.                               *)
(***************************************************************************)
EXTENDS FiniteSets

CONSTANTS
    Owners,
    Drivers,     \* rows an INSERT may generate
    Taxis,       \* rows of the table taxis, which are never deleted
    Tokens,      \* link tokens rand.Read may return
    Accounts,    \* Telegram accounts
    Callers,
    None         \* no row, SQL NULL, no claims

VARIABLES
    drivers,     \* drivers[d]: the row, None until inserted
    assigned,    \* assigned[d]: taxis of d's rows with unassigned_at NULL
    age,         \* age[t]: "unused" until generated, "valid", "expired"
    session,     \* session[a]: the driver in the bot's claims for account a
    call,        \* call[c]: what caller c does next
    links,       \* history: <<t, a, d>>, token t linked account a to driver d
    raced,       \* history: tokens that met another link call, or a failure
    late         \* history: drivers given a taxi in or after deactivation

tables == <<drivers, assigned>>
history == <<links, raced, late>>
vars == <<tables, age, session, call, history>>

DriverRow ==
    [owner: Owners, telegram: Accounts \cup {None}, active: BOOLEAN,
     token: Tokens \cup {None}, used: BOOLEAN]

Call ==
    [at: {"idle"}]
      \cup [at: {"link", "mark"}, account: Accounts, token: Tokens, driver: Drivers]
      \cup [at: {"lookup"}, account: Accounts]
      \cup [at: {"issue"}, account: Accounts, driver: Drivers]
      \cup [at: {"off"}, driver: Drivers]
      \cup [at: {"assign"}, driver: Drivers, taxi: Taxis]

Idle == [at |-> "idle"]

\* An SQL NULL is no value of a column.
ASSUME NoneAssumption == None \notin DriverRow \cup Drivers \cup Tokens \cup Accounts

Inserted(table) == {k \in DOMAIN table : table[k] # None}

(***************************************************************************)
(* Calls that link an account to driver d: between the check of the token  *)
(* and MarkLinkTokenUsed.                                                  *)
(***************************************************************************)
Linking(d) ==
    {c \in Callers : call[c].at \in {"link", "mark"} /\ call[c].driver = d}

Init ==
    /\ drivers = [d \in Drivers |-> None]
    /\ assigned = [d \in Drivers |-> {}]
    /\ age = [t \in Tokens |-> "unused"]
    /\ session = [a \in Accounts |-> None]
    /\ call = [c \in Callers |-> Idle]
    /\ links = {} /\ raced = {} /\ late = {}

-----------------------------------------------------------------------------
(***************************************************************************)
(* Single statements of an owner's request.                                *)
(***************************************************************************)
CreateDriver(d, o) ==
    /\ drivers[d] = None
    /\ drivers' = [drivers EXCEPT ![d] =
           [owner |-> o, telegram |-> None, active |-> TRUE,
            token |-> None, used |-> FALSE]]
    /\ UNCHANGED <<assigned, age, session, call, history>>

\* SetLinkToken replaces the driver's token and resets link_token_used.
GenerateLinkToken(d, o, t) ==
    /\ drivers[d] # None /\ drivers[d].owner = o
    /\ age[t] = "unused"
    /\ age' = [age EXCEPT ![t] = "valid"]
    /\ drivers' = [drivers EXCEPT ![d].token = t, ![d].used = FALSE]
    /\ raced' = IF Linking(d) # {} THEN raced \cup {t} ELSE raced
    /\ UNCHANGED <<assigned, session, call, links, late>>

\* 24 hours pass.
ExpireToken(t) ==
    /\ age[t] = "valid"
    /\ age' = [age EXCEPT ![t] = "expired"]
    /\ UNCHANGED <<tables, session, call, history>>

UnassignTaxi(d, o) ==
    /\ drivers[d] # None /\ drivers[d].owner = o
    /\ assigned[d] # {}
    /\ assigned' = [assigned EXCEPT ![d] = {}]
    /\ UNCHANGED <<drivers, age, session, call, history>>

-----------------------------------------------------------------------------
\* Mutation: the driver is deactivated without closing the assignment.
Deactivate_StillAssigned(c, d, o) ==
    /\ call[c] = Idle
    /\ drivers[d] # None /\ drivers[d].owner = o
    /\ call' = [call EXCEPT ![c] = [at |-> "off", driver |-> d]]
    /\ UNCHANGED <<tables, age, session, history>>

(***************************************************************************)
(* Deactivate: UnassignDriver, whose ErrNotFound is ignored, then          *)
(* SetActive(false).  Nothing ever sets active to true again.              *)
(***************************************************************************)
Deactivate(c, d, o) ==
    /\ call[c] = Idle
    /\ drivers[d] # None /\ drivers[d].owner = o
    /\ assigned' = [assigned EXCEPT ![d] = {}]
    /\ call' = [call EXCEPT ![c] = [at |-> "off", driver |-> d]]
    /\ UNCHANGED <<drivers, age, session, history>>

SetActive(c) ==
    /\ call[c].at = "off"
    /\ drivers' = [drivers EXCEPT ![call[c].driver].active = FALSE]
    /\ call' = [call EXCEPT ![c] = Idle]
    /\ UNCHANGED <<assigned, age, session, history>>

(***************************************************************************)
(* AssignTaxi: the driver is the owner's and has no active assignment.  Of *)
(* the taxi nothing is checked but the foreign key: it may be another      *)
(* owner's, or inactive, and so may the driver be inactive.                *)
(***************************************************************************)
AssignTaxi(c, d, o, x) ==
    /\ call[c] = Idle
    /\ drivers[d] # None /\ drivers[d].owner = o
    /\ assigned[d] = {}
    /\ call' = [call EXCEPT ![c] = [at |-> "assign", driver |-> d, taxi |-> x]]
    /\ UNCHANGED <<tables, age, session, history>>

\* Mutation: no partial unique index, the check before is all there is.
CreateAssignment_NoIndex(c) ==
    /\ call[c].at = "assign"
    /\ assigned' = [assigned EXCEPT ![call[c].driver] = @ \cup {call[c].taxi}]
    /\ call' = [call EXCEPT ![c] = Idle]
    /\ UNCHANGED <<drivers, age, session, history>>

\* idx_dta_active_assignment: one active row per driver, or the INSERT fails.
CreateAssignment(c) ==
    /\ call[c].at = "assign"
    /\ LET d == call[c].driver
           inserts == assigned[d] = {}
       IN  /\ assigned' = IF inserts
                          THEN [assigned EXCEPT ![d] = @ \cup {call[c].taxi}]
                          ELSE assigned
           /\ late' = IF inserts /\ ( \/ ~drivers[d].active
                                      \/ \E k \in Callers : /\ call[k].at = "off"
                                                            /\ call[k].driver = d )
                      THEN late \cup {d} ELSE late
    /\ call' = [call EXCEPT ![c] = Idle]
    /\ UNCHANGED <<drivers, age, session, links, raced>>

-----------------------------------------------------------------------------
\* Mutation: the check of link_token_used is missing.
StartWithToken_UsedAccepted(c, a, t) ==
    /\ call[c] = Idle
    /\ session[a] = None
    /\ age[t] = "valid"
    /\ \E d \in Inserted(drivers) :
         /\ drivers[d].token = t
         /\ call' = [call EXCEPT ![c] = [at |-> "link", account |-> a,
                                         token |-> t, driver |-> d]]
         /\ raced' = IF Linking(d) # {} THEN raced \cup {t} ELSE raced
    /\ UNCHANGED <<tables, age, session, links, late>>

(***************************************************************************)
(* /start with token t, from account a: GetByLinkToken and the checks of   *)
(* LinkTelegramID; active is not one of them.  With claims in the          *)
(* conversation the bot answers at once, and nothing here happens.         *)
(***************************************************************************)
StartWithToken(c, a, t) ==
    /\ call[c] = Idle
    /\ session[a] = None
    /\ age[t] = "valid"
    /\ \E d \in Inserted(drivers) :
         /\ drivers[d].token = t /\ ~drivers[d].used
         /\ call' = [call EXCEPT ![c] = [at |-> "link", account |-> a,
                                         token |-> t, driver |-> d]]
         /\ raced' = IF Linking(d) # {} THEN raced \cup {t} ELSE raced
    /\ UNCHANGED <<tables, age, session, links, late>>

\* Mutation: the account is taken away from the driver that has it.
SetTelegramID_Moved(c) ==
    /\ call[c].at = "link"
    /\ LET a == call[c].account
           d == call[c].driver
       IN  /\ drivers' = [k \in Drivers |->
                  IF k = d THEN [drivers[d] EXCEPT !.telegram = a]
                  ELSE IF drivers[k] # None /\ drivers[k].telegram = a
                  THEN [drivers[k] EXCEPT !.telegram = None]
                  ELSE drivers[k]]
           /\ links' = links \cup {<<call[c].token, a, d>>}
    /\ call' = [call EXCEPT ![c].at = "mark"]
    /\ UNCHANGED <<assigned, age, session, raced, late>>

\* telegram_id is UNIQUE; the account the driver had before is overwritten.
SetTelegramID(c) ==
    /\ call[c].at = "link"
    /\ LET a == call[c].account
           d == call[c].driver
           taken == \E k \in Inserted(drivers) \ {d} : drivers[k].telegram = a
       IN  \/ /\ ~taken
              /\ drivers' = [drivers EXCEPT ![d].telegram = a]
              /\ links' = links \cup {<<call[c].token, a, d>>}
              /\ call' = [call EXCEPT ![c].at = "mark"]
           \/ /\ taken
              /\ call' = [call EXCEPT ![c] = Idle]
              /\ UNCHANGED <<drivers, links>>
    /\ UNCHANGED <<assigned, age, session, raced, late>>

\* Marks the driver's row, whatever token it holds by now.
MarkLinkTokenUsed(c) ==
    /\ call[c].at = "mark"
    /\ drivers' = [drivers EXCEPT ![call[c].driver].used = TRUE]
    /\ call' = [call EXCEPT ![c] = [at |-> "lookup", account |-> call[c].account]]
    /\ UNCHANGED <<assigned, age, session, history>>

\* Mutation: active is not checked.
FoundActive_AnyDriver(a) == {d \in Inserted(drivers) : drivers[d].telegram = a}

\* GetByTelegramID and the check of active, the same in the three handlers.
FoundActive(a) ==
    {d \in Inserted(drivers) : drivers[d].telegram = a /\ drivers[d].active}

\* /start alone, and ensureAuthenticated before every other message.
StartLookup(c, a) ==
    /\ call[c] = Idle
    /\ session[a] = None
    /\ \E d \in FoundActive(a) :
         call' = [call EXCEPT ![c] = [at |-> "issue", account |-> a, driver |-> d]]
    /\ UNCHANGED <<tables, age, session, history>>

\* After the link, whose driver the account may not be any more.
LookupLinked(c) ==
    /\ call[c].at = "lookup"
    /\ LET a == call[c].account
       IN  \/ \E d \in FoundActive(a) :
                call' = [call EXCEPT ![c] =
                             [at |-> "issue", account |-> a, driver |-> d]]
           \/ FoundActive(a) = {} /\ call' = [call EXCEPT ![c] = Idle]
    /\ UNCHANGED <<tables, age, session, history>>

\* The claims are stored in the conversation and never checked again.
IssueJWT(c) ==
    /\ call[c].at = "issue"
    /\ session' = [session EXCEPT ![call[c].account] = call[c].driver]
    /\ call' = [call EXCEPT ![c] = Idle]
    /\ UNCHANGED <<tables, age, history>>

-----------------------------------------------------------------------------
\* Tokens of link calls that end here after the link and before the mark.
Unmarked(ended) == {call[c].token : c \in {k \in ended : call[k].at = "mark"}}

\* A statement fails (or commits and its answer is lost): the call returns.
Fail(c) ==
    /\ call[c] # Idle
    /\ raced' = raced \cup Unmarked({c})
    /\ call' = [call EXCEPT ![c] = Idle]
    /\ UNCHANGED <<tables, age, session, links, late>>

BotCalls == {c \in Callers : call[c].at \in {"link", "mark", "lookup", "issue"}}

\* The bot process restarts: conversations and running handlers are gone.
Restart ==
    /\ session' = [a \in Accounts |-> None]
    /\ raced' = raced \cup Unmarked(BotCalls)
    /\ call' = [c \in Callers |-> IF c \in BotCalls THEN Idle ELSE call[c]]
    /\ UNCHANGED <<tables, age, links, late>>

\* Requests under /drivers and, for the assignments, under /taxis.
DriverRequest(o) ==
    \E d \in Drivers :
        \/ CreateDriver(d, o)
        \/ \E t \in Tokens : GenerateLinkToken(d, o, t)
        \/ \E c \in Callers : Deactivate(c, d, o)

AssignmentRequest(o) ==
    \E d \in Drivers :
        \/ UnassignTaxi(d, o)
        \/ \E c \in Callers, x \in Taxis : AssignTaxi(c, d, o, x)

BotUpdate ==
    \E c \in Callers, a \in Accounts :
        StartLookup(c, a) \/ \E t \in Tokens : StartWithToken(c, a, t)

Statement(c) ==
    \/ SetActive(c) \/ CreateAssignment(c)
    \/ SetTelegramID(c) \/ MarkLinkTokenUsed(c) \/ LookupLinked(c)
    \/ IssueJWT(c) \/ Fail(c)

Next ==
    \/ \E o \in Owners : DriverRequest(o) \/ AssignmentRequest(o)
    \/ BotUpdate
    \/ \E c \in Callers : Statement(c)
    \/ \E t \in Tokens : ExpireToken(t)
    \/ Restart

Spec == Init /\ [][Next]_vars


(***************************************************************************)
(* The list of GET /drivers: a LEFT JOIN of an owner's drivers with their  *)
(* active assignments.                                                     *)
(***************************************************************************)
ListWithAssignment(o) ==
    UNION { IF assigned[d] = {} THEN {[driver |-> d, taxi |-> None]}
            ELSE {[driver |-> d, taxi |-> x] : x \in assigned[d]}
          : d \in {k \in Inserted(drivers) : drivers[k].owner = o} }

-----------------------------------------------------------------------------
(***************************************************************************)
(* Types of the tables, claims, calls and history.                         *)
(***************************************************************************)
TypeOK ==
    /\ drivers \in [Drivers -> DriverRow \cup {None}]
    /\ assigned \in [Drivers -> SUBSET Taxis]
    /\ age \in [Tokens -> {"unused", "valid", "expired"}]
    /\ session \in [Accounts -> Drivers \cup {None}]
    /\ call \in [Callers -> Call]
    /\ links \subseteq Tokens \X Accounts \X Drivers
    /\ raced \subseteq Tokens
    /\ late \subseteq Drivers

\* A token links one account (service.go:37 "single-use token"), although it
\* is checked and marked in different statements, unless two link calls of
\* the driver overlap or one ends between the link and the mark.
TokenLinksOnce ==
    \A k, l \in links : k[1] = l[1] /\ k[1] \notin raced => k = l

\* Claims outlive the rows they were read from.  Still the only way an
\* account that is logged in as a driver stops being that driver's account
\* is that another account was linked to the driver.
SessionIsLinkedOrReplaced ==
    \A a \in Accounts :
        LET d == session[a]
        IN  d # None /\ drivers[d].telegram # a =>
                /\ \E l \in links : l[2] = a /\ l[3] = d
                /\ \E l \in links : l[2] = drivers[d].telegram /\ l[3] = d

\* Deactivation takes the taxi away first, so that no failure leaves an
\* inactive driver with a taxi: such a driver was given it by an assignment
\* that ran during the deactivation or after it.
InactiveIsUnassigned ==
    \A d \in Inserted(drivers) :
        ~drivers[d].active /\ assigned[d] # {} => d \in late

\* The LEFT JOIN lists each driver once: overlapping assignments, whose
\* check comes before the INSERT, leave one active row.
EachDriverListedOnce ==
    \A o \in Owners : \A k, l \in ListWithAssignment(o) :
        k.driver = l.driver => k = l

\* Nobody is logged in, or about to be, as deactivated driver d.
LoggedOut(d) ==
    /\ drivers[d] # None /\ ~drivers[d].active
    /\ \A a \in Accounts : session[a] # d
    /\ \A c \in Callers : call[c].at = "issue" => call[c].driver # d

\* A deactivated driver whose claims are gone (after a restart) never gets
\* claims again, whatever tokens the owner generates and accounts use.
LoggedOutForGood == [][\A d \in Drivers : LoggedOut(d) => LoggedOut(d)']_vars

=============================================================================
