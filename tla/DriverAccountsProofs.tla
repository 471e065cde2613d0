------------------------ MODULE DriverAccountsProofs ------------------------
(***************************************************************************)
(* Proofs about DriverAccounts, for any number of owners, drivers, taxis,  *)
(* tokens, accounts and callers.                                           *)
(***************************************************************************)
EXTENDS DriverAccounts, TLAPS

-----------------------------------------------------------------------------
(* Types.                                                                  *)

\* A call that names a driver has found its row.
CallsOnRows ==
    \A c \in Callers :
        call[c].at \in {"link", "mark", "issue", "off", "assign"} =>
            drivers[call[c].driver] # None

Typed == TypeOK /\ CallsOnRows

\* What a call keeps between two statements.
LEMMA CallFields ==
    ASSUME TypeOK, NEW c \in Callers
    PROVE  /\ call[c] \in Call
           /\ call[c].at \in {"idle", "link", "mark", "lookup", "issue", "off", "assign"}
           /\ call[c].at = "idle" => call[c] = Idle
           /\ call[c].at \in {"link", "mark"} =>
                 /\ call[c] \in [at: {"link", "mark"}, account: Accounts, token: Tokens,
                                 driver: Drivers]
                 /\ call[c].account \in Accounts
                 /\ call[c].token \in Tokens /\ call[c].driver \in Drivers
           /\ call[c].at = "lookup" => call[c].account \in Accounts
           /\ call[c].at = "issue" => call[c].account \in Accounts /\ call[c].driver \in Drivers
           /\ call[c].at = "off" => call[c].driver \in Drivers
           /\ call[c].at = "assign" => call[c].driver \in Drivers /\ call[c].taxi \in Taxis
<1>1. call[c] \in Call
    BY DEF TypeOK
<1>2. QED BY <1>1 DEF Call, Idle

LEMMA InitTyped == Init => Typed
<1>1. SUFFICES ASSUME Init PROVE Typed
    OBVIOUS
<1>2. Idle \in Call
    BY DEF Idle, Call
<1>3. TypeOK
    BY <1>1, <1>2 DEF Init, TypeOK
<1>4. CallsOnRows
    BY <1>1 DEF Init, CallsOnRows, Idle
<1>5. QED BY <1>3, <1>4 DEF Typed

\* Only CreateDriver makes a row, and no statement removes one.
LEMMA StepTyped == Typed /\ [Next]_vars => Typed'
<1>1. SUFFICES ASSUME Typed, [Next]_vars PROVE Typed'
    OBVIOUS
<1>2. TypeOK /\ CallsOnRows
    BY <1>1 DEF Typed
<1>3. Idle \in Call
    BY DEF Idle, Call
<1> USE DEF Typed, TypeOK, CallsOnRows, vars, tables, history
<1>4. ASSUME NEW d \in Drivers, NEW o \in Owners, CreateDriver(d, o)
      PROVE  Typed'
    <2>1. drivers' = [drivers EXCEPT ![d] = drivers'[d]] /\ drivers'[d] \in DriverRow
        BY <1>2, <1>4 DEF CreateDriver, DriverRow
    <2>2. QED BY <1>2, <1>4, <2>1, NoneAssumption DEF CreateDriver
<1>5. ASSUME NEW d \in Drivers, NEW o \in Owners, NEW t \in Tokens, GenerateLinkToken(d, o, t)
      PROVE  Typed'
    <2>1. drivers' = [drivers EXCEPT ![d] = drivers'[d]] /\ drivers'[d] \in DriverRow
        BY <1>2, <1>5 DEF GenerateLinkToken, DriverRow
    <2>2. raced' \subseteq Tokens /\ age' \in [Tokens -> {"unused", "valid", "expired"}]
        BY <1>2, <1>5 DEF GenerateLinkToken
    <2>3. drivers' \in [Drivers -> DriverRow \cup {None}]
        BY <1>2, <2>1
    <2>4. \A k \in Drivers : drivers[k] # None => drivers'[k] # None
        BY <1>2, <2>1, NoneAssumption
    <2>5. UNCHANGED <<assigned, session, call, links, late>>
        BY <1>5 DEF GenerateLinkToken
    <2>6. CallsOnRows'
        BY <1>2, <2>4, <2>5, CallFields
    <2>7. QED BY <1>2, <2>2, <2>3, <2>5, <2>6
<1>6. ASSUME NEW d \in Drivers, NEW o \in Owners, NEW c \in Callers, Deactivate(c, d, o)
      PROVE  Typed'
    <2>1. [at |-> "off", driver |-> d] \in Call
        BY DEF Call
    <2>2. QED BY <1>2, <1>6, <2>1 DEF Deactivate
<1>7. ASSUME NEW d \in Drivers, NEW o \in Owners, UnassignTaxi(d, o)
      PROVE  Typed'
    BY <1>2, <1>7 DEF UnassignTaxi
<1>8. ASSUME NEW d \in Drivers, NEW o \in Owners, NEW c \in Callers, NEW x \in Taxis,
             AssignTaxi(c, d, o, x)
      PROVE  Typed'
    <2>1. [at |-> "assign", driver |-> d, taxi |-> x] \in Call
        BY DEF Call
    <2>2. QED BY <1>2, <1>8, <2>1 DEF AssignTaxi
<1>9. ASSUME NEW c \in Callers, NEW a \in Accounts, StartLookup(c, a)
      PROVE  Typed'
    <2>1. PICK d \in FoundActive(a) :
              call' = [call EXCEPT ![c] = [at |-> "issue", account |-> a, driver |-> d]]
        BY <1>9 DEF StartLookup
    <2>2. d \in Drivers /\ drivers[d] # None
        BY <1>2, <2>1 DEF FoundActive, Inserted
    <2>3. [at |-> "issue", account |-> a, driver |-> d] \in Call
        BY <2>2 DEF Call
    <2>4. QED BY <1>2, <1>9, <2>1, <2>2, <2>3 DEF StartLookup
<1>10. ASSUME NEW c \in Callers, NEW a \in Accounts, NEW t \in Tokens, StartWithToken(c, a, t)
       PROVE  Typed'
    <2>1. PICK d \in Inserted(drivers) :
              /\ call' = [call EXCEPT ![c] = [at |-> "link", account |-> a,
                                              token |-> t, driver |-> d]]
              /\ raced' = IF Linking(d) # {} THEN raced \cup {t} ELSE raced
        BY <1>10 DEF StartWithToken
    <2>2. d \in Drivers /\ drivers[d] # None
        BY <1>2, <2>1 DEF Inserted
    <2>3. [at |-> "link", account |-> a, token |-> t, driver |-> d] \in Call
        BY <2>2 DEF Call
    <2>4. QED BY <1>2, <1>10, <2>1, <2>2, <2>3 DEF StartWithToken
<1>11. ASSUME NEW c \in Callers, SetActive(c)
       PROVE  Typed'
    <2>1. call[c].driver \in Drivers /\ drivers[call[c].driver] # None
        BY <1>2, <1>11, CallFields DEF SetActive
    <2>2. /\ drivers' = [drivers EXCEPT ![call[c].driver] = drivers'[call[c].driver]]
          /\ drivers'[call[c].driver] \in DriverRow
        BY <1>2, <1>11, <2>1 DEF SetActive, DriverRow
    <2>3. drivers' \in [Drivers -> DriverRow \cup {None}]
        BY <1>2, <2>1, <2>2
    <2>4. \A k \in Drivers : drivers[k] # None => drivers'[k] # None
        BY <1>2, <2>1, <2>2, NoneAssumption
    <2>5. call' = [call EXCEPT ![c] = Idle] /\ UNCHANGED <<assigned, age, session, history>>
        BY <1>11 DEF SetActive
    <2>6. CallsOnRows'
        BY <1>2, <2>4, <2>5, CallFields DEF Idle
    <2>7. QED BY <1>2, <1>3, <2>3, <2>5, <2>6
<1>12. ASSUME NEW c \in Callers, CreateAssignment(c)
       PROVE  Typed'
    <2>1. call[c].driver \in Drivers /\ call[c].taxi \in Taxis
        BY <1>2, <1>12, CallFields DEF CreateAssignment
    <2>2. assigned' \in [Drivers -> SUBSET Taxis] /\ late' \subseteq Drivers
        BY <1>2, <1>12, <2>1 DEF CreateAssignment
    <2>3. QED BY <1>2, <1>3, <1>12, <2>1, <2>2 DEF CreateAssignment, Idle
<1>13. ASSUME NEW c \in Callers, SetTelegramID(c)
       PROVE  Typed'
    <2>1. /\ call[c].driver \in Drivers /\ call[c].account \in Accounts
          /\ call[c].token \in Tokens /\ drivers[call[c].driver] # None
          /\ call[c] \in [at: {"link", "mark"}, account: Accounts, token: Tokens,
                          driver: Drivers]
        BY <1>2, <1>13, CallFields DEF SetTelegramID
    <2>2. CASE /\ drivers' = [drivers EXCEPT ![call[c].driver].telegram = call[c].account]
               /\ links' = links \cup {<<call[c].token, call[c].account, call[c].driver>>}
               /\ call' = [call EXCEPT ![c].at = "mark"]
        <3>1. /\ drivers' = [drivers EXCEPT ![call[c].driver] = drivers'[call[c].driver]]
              /\ drivers'[call[c].driver] \in DriverRow
            BY <1>2, <2>1, <2>2 DEF DriverRow
        <3>2. call'[c] \in Call /\ call'[c].driver = call[c].driver
            BY <1>2, <2>1, <2>2 DEF Call
        <3>3. QED BY <1>2, <1>13, <2>1, <2>2, <3>1, <3>2, NoneAssumption DEF SetTelegramID
    <2>3. CASE call' = [call EXCEPT ![c] = Idle] /\ UNCHANGED <<drivers, links>>
        BY <1>2, <1>3, <1>13, <2>3 DEF SetTelegramID, Idle
    <2>4. QED BY <1>13, <2>2, <2>3 DEF SetTelegramID
<1>14. ASSUME NEW c \in Callers, MarkLinkTokenUsed(c)
       PROVE  Typed'
    <2>1. /\ call[c].driver \in Drivers /\ call[c].account \in Accounts
          /\ drivers[call[c].driver] # None
        BY <1>2, <1>14, CallFields DEF MarkLinkTokenUsed
    <2>2. /\ drivers' = [drivers EXCEPT ![call[c].driver] = drivers'[call[c].driver]]
          /\ drivers'[call[c].driver] \in DriverRow
        BY <1>2, <1>14, <2>1 DEF MarkLinkTokenUsed, DriverRow
    <2>3. [at |-> "lookup", account |-> call[c].account] \in Call
        BY <2>1 DEF Call
    <2>4. drivers' \in [Drivers -> DriverRow \cup {None}]
        BY <1>2, <2>1, <2>2
    <2>5. \A k \in Drivers : drivers[k] # None => drivers'[k] # None
        BY <1>2, <2>1, <2>2, NoneAssumption
    <2>6. /\ call' = [call EXCEPT ![c] = [at |-> "lookup", account |-> call[c].account]]
          /\ UNCHANGED <<assigned, age, session, history>>
        BY <1>14 DEF MarkLinkTokenUsed
    <2>7. CallsOnRows'
        BY <1>2, <2>5, <2>6, CallFields
    <2>8. QED BY <1>2, <2>3, <2>4, <2>6, <2>7
<1>15. ASSUME NEW c \in Callers, LookupLinked(c)
       PROVE  Typed'
    <2>1. call[c].account \in Accounts
        BY <1>2, <1>15, CallFields DEF LookupLinked
    <2>2. ASSUME NEW d \in FoundActive(call[c].account),
                 call' = [call EXCEPT ![c] = [at |-> "issue", account |-> call[c].account,
                                              driver |-> d]]
          PROVE  Typed'
        <3>1. d \in Drivers /\ drivers[d] # None
            BY <1>2 DEF FoundActive, Inserted
        <3>2. [at |-> "issue", account |-> call[c].account, driver |-> d] \in Call
            BY <2>1, <3>1 DEF Call
        <3>3. QED BY <1>2, <1>15, <2>2, <3>1, <3>2 DEF LookupLinked
    <2>3. CASE call' = [call EXCEPT ![c] = Idle]
        BY <1>2, <1>3, <1>15, <2>3 DEF LookupLinked, Idle
    <2>4. QED BY <1>15, <2>2, <2>3 DEF LookupLinked
<1>16. ASSUME NEW c \in Callers, IssueJWT(c)
       PROVE  Typed'
    <2>1. call[c].account \in Accounts /\ call[c].driver \in Drivers
        BY <1>2, <1>16, CallFields DEF IssueJWT
    <2>2. QED BY <1>2, <1>3, <1>16, <2>1 DEF IssueJWT, Idle
<1>17. ASSUME NEW c \in Callers, Fail(c)
       PROVE  Typed'
    <2>1. raced' \subseteq Tokens
        BY <1>2, <1>17, CallFields DEF Fail, Unmarked
    <2>2. QED BY <1>2, <1>3, <1>17, <2>1 DEF Fail, Idle
<1>18. ASSUME NEW t \in Tokens, ExpireToken(t)
       PROVE  Typed'
    BY <1>2, <1>18 DEF ExpireToken
<1>19. CASE Restart
    <2>1. raced' \subseteq Tokens
        BY <1>2, <1>19, CallFields DEF Restart, Unmarked, BotCalls
    <2>2. QED BY <1>2, <1>3, <1>19, <2>1 DEF Restart, Idle
<1>20. CASE UNCHANGED vars
    BY <1>2, <1>20
<1>21. QED
    BY <1>1, <1>4, <1>5, <1>6, <1>7, <1>8, <1>9, <1>10, <1>11, <1>12, <1>13, <1>14,
       <1>15, <1>16, <1>17, <1>18, <1>19, <1>20
       DEF Next, DriverRequest, AssignmentRequest, BotUpdate, Statement

\* The columns, claims, calls and history stay well typed, and no call ever
\* holds a driver that has no row.
THEOREM TypeCorrect == Spec => []TypeOK
<1>1. Typed => TypeOK
    BY DEF Typed
<1>2. QED BY InitTyped, StepTyped, <1>1, PTL DEF Spec

-----------------------------------------------------------------------------
(* What a step does to each row, to its taxis and to calls that deactivate *)
(* it.                                                                     *)

\* A row stays, never becomes active again, and becomes inactive only by the
\* second statement of a deactivation.
LEMMA RowStep ==
    ASSUME Typed, [Next]_vars, NEW d \in Drivers, drivers[d] # None
    PROVE  /\ drivers'[d] # None
           /\ drivers'[d].active => drivers[d].active
           /\ \/ drivers'[d].active = drivers[d].active
              \/ \E c \in Callers : call[c].at = "off" /\ call[c].driver = d
<1>1. TypeOK /\ drivers[d] \in DriverRow /\ Typed'
    BY StepTyped DEF Typed, TypeOK
<1>2. CASE UNCHANGED drivers
    BY <1>2
<1>3. ASSUME NEW k \in Drivers, NEW o \in Owners, CreateDriver(k, o)
      PROVE  drivers'[d] = drivers[d]
    BY <1>1, <1>3 DEF CreateDriver, TypeOK
<1>4. ASSUME NEW k \in Drivers, drivers[k] # None,
             NEW row \in DriverRow, row.active = drivers[k].active,
             drivers' = [drivers EXCEPT ![k] = row]
      PROVE  drivers'[d] # None /\ drivers'[d].active = drivers[d].active
    BY <1>1, <1>4, NoneAssumption DEF TypeOK
<1>5. ASSUME NEW k \in Drivers, NEW o \in Owners, NEW t \in Tokens, GenerateLinkToken(k, o, t)
      PROVE  drivers'[d] # None /\ drivers'[d].active = drivers[d].active
    <2>1. /\ drivers[k] # None
          /\ drivers' = [drivers EXCEPT ![k] = [drivers[k] EXCEPT !.token = t, !.used = FALSE]]
        BY <1>1, <1>5 DEF GenerateLinkToken, TypeOK
    <2>2. drivers[k] \in DriverRow
        BY <1>1, <2>1 DEF TypeOK
    <2>3. [drivers[k] EXCEPT !.token = t, !.used = FALSE] \in DriverRow
        BY <2>2 DEF DriverRow
    <2>4. [drivers[k] EXCEPT !.token = t, !.used = FALSE].active = drivers[k].active
        BY <2>2 DEF DriverRow
    <2>5. QED BY <1>4, <2>1, <2>3, <2>4
<1>6. ASSUME NEW c \in Callers, SetActive(c)
      PROVE  /\ drivers'[d] # None
             /\ drivers'[d].active => drivers[d].active
             /\ \/ drivers'[d].active = drivers[d].active
                \/ \E k \in Callers : call[k].at = "off" /\ call[k].driver = d
    <2>1. CASE call[c].driver = d
        <3>1. drivers'[d].active = FALSE /\ drivers'[d] # None
            BY <1>1, <1>6, <2>1, NoneAssumption DEF SetActive, TypeOK, DriverRow
        <3>2. QED BY <1>6, <2>1, <3>1 DEF SetActive
    <2>2. CASE call[c].driver # d
        BY <1>1, <1>6, <2>2 DEF SetActive, TypeOK
    <2>3. QED BY <2>1, <2>2
<1>7. ASSUME NEW c \in Callers, SetTelegramID(c)
      PROVE  drivers'[d] # None /\ drivers'[d].active = drivers[d].active
    <2>1. CASE UNCHANGED drivers
        BY <2>1
    <2>2. CASE drivers' = [drivers EXCEPT ![call[c].driver].telegram = call[c].account]
        <3> DEFINE k == call[c].driver
                   row == [drivers[k] EXCEPT !.telegram = call[c].account]
        <3>1. k \in Drivers /\ drivers[k] # None /\ call[c].account \in Accounts
            BY <1>1, <1>7, CallFields DEF SetTelegramID, Typed, CallsOnRows
        <3>2. drivers[k] \in DriverRow
            BY <1>1, <3>1 DEF TypeOK
        <3>3. row \in DriverRow /\ row.active = drivers[k].active
            BY <3>1, <3>2 DEF DriverRow
        <3>4. drivers' = [drivers EXCEPT ![k] = row]
            BY <1>1, <2>2 DEF TypeOK
        <3> HIDE DEF k, row
        <3>5. QED BY <1>4, <3>1, <3>3, <3>4
    <2>3. QED BY <1>7, <2>1, <2>2 DEF SetTelegramID
<1>8. ASSUME NEW c \in Callers, MarkLinkTokenUsed(c)
      PROVE  drivers'[d] # None /\ drivers'[d].active = drivers[d].active
    <2> DEFINE k == call[c].driver
               row == [drivers[k] EXCEPT !.used = TRUE]
    <2>1. k \in Drivers /\ drivers[k] # None
        BY <1>1, <1>8, CallFields DEF MarkLinkTokenUsed, Typed, CallsOnRows
    <2>2. drivers[k] \in DriverRow
        BY <1>1, <2>1 DEF TypeOK
    <2>3. row \in DriverRow /\ row.active = drivers[k].active
        BY <2>1, <2>2 DEF DriverRow
    <2>4. drivers' = [drivers EXCEPT ![k] = row]
        BY <1>1, <1>8 DEF MarkLinkTokenUsed, TypeOK
    <2> HIDE DEF k, row
    <2>5. QED BY <1>4, <2>1, <2>3, <2>4
<1>9. QED
    BY <1>2, <1>3, <1>5, <1>6, <1>7, <1>8
       DEF Next, DriverRequest, AssignmentRequest, BotUpdate, Statement, ExpireToken,
           UnassignTaxi, Deactivate, AssignTaxi, CreateAssignment, StartWithToken, StartLookup,
           LookupLinked, IssueJWT, Fail, Restart, tables, vars

\* A call that deactivates driver d began with taking the taxi away.
LEMMA OffStep ==
    ASSUME Typed, [Next]_vars, NEW c \in Callers, call'[c].at = "off"
    PROVE  \/ call[c] = call'[c]
           \/ assigned'[call'[c].driver] = {}
<1>1. TypeOK
    BY DEF Typed
<1>2. ASSUME NEW k \in Callers, NEW v, v.at # "off", call' = [call EXCEPT ![k] = v]
      PROVE  call[c] = call'[c]
    BY <1>1, <1>2 DEF TypeOK
<1>3. ASSUME NEW d \in Drivers, NEW o \in Owners, NEW k \in Callers, Deactivate(k, d, o)
      PROVE  call[c] = call'[c] \/ assigned'[call'[c].driver] = {}
    BY <1>1, <1>3 DEF Deactivate, TypeOK
<1>4. ASSUME NEW k \in Callers, SetTelegramID(k)
      PROVE  call[c] = call'[c]
    <2>1. CASE call' = [call EXCEPT ![k].at = "mark"]
        <3>1. call[k] \in [at: {"link", "mark"}, account: Accounts, token: Tokens,
                           driver: Drivers]
            BY <1>1, <1>4, CallFields DEF SetTelegramID
        <3>2. [call[k] EXCEPT !.at = "mark"].at # "off"
            BY <3>1
        <3>3. call' = [call EXCEPT ![k] = [call[k] EXCEPT !.at = "mark"]]
            BY <1>1, <2>1 DEF TypeOK
        <3>4. QED BY <1>2, <3>2, <3>3
    <2>2. CASE call' = [call EXCEPT ![k] = Idle]
        BY <1>2, <2>2 DEF Idle
    <2>3. QED BY <1>4, <2>1, <2>2 DEF SetTelegramID
<1>5. CASE Restart
    BY <1>1, <1>5 DEF Restart, Idle, TypeOK
<1>6. CASE UNCHANGED call
    BY <1>6
<1>7. CASE \E k \in Callers : call' = [call EXCEPT ![k] = Idle]
    BY <1>2, <1>7 DEF Idle
<1>8. ASSUME NEW k \in Callers, MarkLinkTokenUsed(k)
      PROVE  call[c] = call'[c]
    BY <1>2, <1>8 DEF MarkLinkTokenUsed
<1>9. ASSUME NEW k \in Callers, LookupLinked(k)
      PROVE  call[c] = call'[c]
    BY <1>2, <1>9 DEF LookupLinked, Idle
<1>10. ASSUME NEW k \in Callers, NEW a \in Accounts, StartLookup(k, a)
       PROVE  call[c] = call'[c]
    BY <1>2, <1>10 DEF StartLookup
<1>11. ASSUME NEW k \in Callers, NEW a \in Accounts, NEW t \in Tokens, StartWithToken(k, a, t)
       PROVE  call[c] = call'[c]
    BY <1>2, <1>11 DEF StartWithToken
<1>12. ASSUME NEW k \in Callers, NEW d \in Drivers, NEW o \in Owners, NEW x \in Taxis,
              AssignTaxi(k, d, o, x)
       PROVE  call[c] = call'[c]
    BY <1>2, <1>12 DEF AssignTaxi
<1>13. QED
    BY <1>3, <1>4, <1>5, <1>6, <1>7, <1>8, <1>9, <1>10, <1>11, <1>12
       DEF Next, DriverRequest, AssignmentRequest, BotUpdate, Statement, ExpireToken,
           UnassignTaxi, CreateDriver, GenerateLinkToken, CreateAssignment, SetActive,
           IssueJWT, Fail, vars

\* Taxis are only taken away, unless d had none and an INSERT gives it one.
LEMMA TaxiStep ==
    ASSUME Typed, [Next]_vars, NEW d \in Drivers
    PROVE  \/ assigned'[d] \subseteq assigned[d] /\ late \subseteq late'
           \/ \E c \in Callers : /\ CreateAssignment(c)
                                 /\ call[c].driver = d
                                 /\ assigned[d] = {}
                                 /\ assigned'[d] = {call[c].taxi}
<1>1. TypeOK
    BY DEF Typed
<1>2. CASE UNCHANGED <<assigned, late>>
    BY <1>2
<1>3. ASSUME NEW c \in Callers, CreateAssignment(c)
      PROVE  \/ assigned'[d] \subseteq assigned[d] /\ late \subseteq late'
             \/ call[c].driver = d /\ assigned[d] = {} /\ assigned'[d] = {call[c].taxi}
    BY <1>1, <1>3, CallFields DEF CreateAssignment, TypeOK
<1>4. ASSUME NEW k \in Drivers, NEW o \in Owners, UnassignTaxi(k, o)
      PROVE  assigned'[d] \subseteq assigned[d] /\ late \subseteq late'
    BY <1>1, <1>4 DEF UnassignTaxi, TypeOK, history
<1>5. ASSUME NEW k \in Drivers, NEW o \in Owners, NEW c \in Callers, Deactivate(c, k, o)
      PROVE  assigned'[d] \subseteq assigned[d] /\ late \subseteq late'
    BY <1>1, <1>5 DEF Deactivate, TypeOK, history
<1>6. QED
    BY <1>2, <1>3, <1>4, <1>5
       DEF Next, DriverRequest, AssignmentRequest, BotUpdate, Statement, ExpireToken,
           CreateDriver, GenerateLinkToken, AssignTaxi, SetActive, StartWithToken, StartLookup,
           SetTelegramID, MarkLinkTokenUsed, LookupLinked, IssueJWT, Fail, Restart,
           tables, history, vars

-----------------------------------------------------------------------------
(* Assignments.                                                            *)

OneTaxi == \A d \in Drivers : \A x, y \in assigned[d] : x = y

LEMMA StepOneTaxi == Typed /\ OneTaxi /\ [Next]_vars => OneTaxi'
BY TaxiStep DEF OneTaxi

\* The list of drivers names each driver once, however many assignments
\* overlap: the check of AssignTaxi is stale, the index is not.
THEOREM ListedOnce == Spec => []EachDriverListedOnce
<1>1. Init => OneTaxi
    BY DEF Init, OneTaxi
<1>2. Typed /\ OneTaxi => EachDriverListedOnce
    <2>1. SUFFICES ASSUME Typed, OneTaxi, NEW o \in Owners,
                          NEW k \in ListWithAssignment(o), NEW l \in ListWithAssignment(o),
                          k.driver = l.driver
                   PROVE  k = l
        BY DEF EachDriverListedOnce
    <2> DEFINE Line(m, d) == /\ d \in Drivers
                             /\ IF assigned[d] = {} THEN m = [driver |-> d, taxi |-> None]
                                ELSE \E x \in assigned[d] : m = [driver |-> d, taxi |-> x]
    <2>2. \A m \in ListWithAssignment(o) : \E d : Line(m, d)
        BY <2>1 DEF ListWithAssignment, Inserted, Typed, TypeOK
    <2>3. PICK d : Line(k, d)
        BY <2>2
    <2>4. PICK e : Line(l, e)
        BY <2>2
    <2>5. d = e
        BY <2>1, <2>3, <2>4
    <2>6. QED BY <2>1, <2>3, <2>4, <2>5 DEF OneTaxi
<1>3. QED BY InitTyped, StepTyped, StepOneTaxi, <1>1, <1>2, PTL DEF Spec

Leaving(d) ==
    ~drivers[d].active \/ \E c \in Callers : call[c].at = "off" /\ call[c].driver = d

\* A driver with a taxi is not leaving, or was given the taxi while leaving.
TaxisLate ==
    \A d \in Drivers : assigned[d] # {} =>
        drivers[d] # None /\ (Leaving(d) => d \in late)

LEMMA StepTaxisLate == Typed /\ TaxisLate /\ [Next]_vars => TaxisLate'
<1>1. SUFFICES ASSUME Typed, TaxisLate, [Next]_vars, NEW d \in Drivers, assigned'[d] # {}
               PROVE  drivers'[d] # None /\ (Leaving(d)' => d \in late')
    BY DEF TaxisLate
<1>2. TypeOK /\ CallsOnRows
    BY <1>1 DEF Typed
<1>3. CASE assigned'[d] \subseteq assigned[d] /\ late \subseteq late'
    <2>1. drivers[d] # None /\ (Leaving(d) => d \in late)
        BY <1>1, <1>3 DEF TaxisLate
    <2>2. /\ drivers'[d] # None
          /\ \/ drivers'[d].active = drivers[d].active
             \/ \E c \in Callers : call[c].at = "off" /\ call[c].driver = d
        BY <1>1, <2>1, RowStep
    <2>3. \A c \in Callers : call'[c].at = "off" /\ call'[c].driver = d => call[c] = call'[c]
        BY <1>1, OffStep
    <2>4. Leaving(d)' => Leaving(d)
        BY <2>2, <2>3 DEF Leaving
    <2>5. QED BY <1>3, <2>1, <2>2, <2>4
<1>4. ASSUME NEW c \in Callers, CreateAssignment(c), call[c].driver = d, assigned[d] = {}
      PROVE  drivers'[d] # None /\ (Leaving(d)' => d \in late')
    <2>1. drivers'[d] # None
        BY <1>2, <1>4 DEF CreateAssignment, CallsOnRows
    <2>2. \A k \in Callers : call'[k].at = "off" => call'[k] = call[k]
        BY <1>1, <1>4, <1>2 DEF CreateAssignment, Idle, TypeOK
    <2>3. Leaving(d)' => Leaving(d)
        BY <1>4, <2>2 DEF CreateAssignment, Leaving
    <2>4. Leaving(d) => d \in late'
        BY <1>4 DEF CreateAssignment, Leaving
    <2>5. QED BY <2>1, <2>3, <2>4
<1>5. QED BY <1>1, <1>3, <1>4, TaxiStep

\* An inactive driver has a taxi only from an assignment that ran during the
\* deactivation or after it, whatever fails in between.
THEOREM InactiveUnassigned == Spec => []InactiveIsUnassigned
<1>1. Init => TaxisLate
    BY DEF Init, TaxisLate
<1>2. Typed /\ TaxisLate => InactiveIsUnassigned
    BY DEF TaxisLate, InactiveIsUnassigned, Leaving, Inserted, Typed, TypeOK
<1>3. QED BY InitTyped, StepTyped, StepTaxisLate, <1>1, <1>2, PTL DEF Spec

-----------------------------------------------------------------------------
(* Claims.                                                                 *)

\* New claims, and calls about to issue some, are of active drivers.
LEMMA IssueStep ==
    ASSUME Typed, [Next]_vars, NEW d \in Drivers, LoggedOut(d)
    PROVE  /\ \A a \in Accounts : session'[a] # d
           /\ \A c \in Callers : call'[c].at = "issue" => call'[c].driver # d
<1>1. TypeOK
    BY DEF Typed
<1> DEFINE Q == /\ \A a \in Accounts : session'[a] # d
                /\ \A c \in Callers : call'[c].at = "issue" => call'[c].driver # d
<1>q. SUFFICES Q
    OBVIOUS
<1>2. /\ \A a \in Accounts : session[a] # d
      /\ \A c \in Callers : call[c].at = "issue" => call[c].driver # d
      /\ ~drivers[d].active
    BY DEF LoggedOut
<1>3. ASSUME NEW k \in Callers, NEW v, v.at = "issue" => v.driver # d,
             call' = [call EXCEPT ![k] = v], UNCHANGED session
      PROVE  Q
    BY <1>1, <1>2, <1>3 DEF TypeOK
<1>4. CASE UNCHANGED <<call, session>>
    BY <1>2, <1>4
<1>5. CASE \E k \in Callers : call' = [call EXCEPT ![k] = Idle] /\ UNCHANGED session
    BY <1>3, <1>5 DEF Idle
<1>6. ASSUME NEW k \in Callers, IssueJWT(k)
      PROVE  Q
    <2>1. call[k].driver # d /\ call[k].account \in Accounts
        BY <1>1, <1>2, <1>6, CallFields DEF IssueJWT
    <2>2. QED BY <1>1, <1>2, <1>6, <2>1 DEF IssueJWT, TypeOK, Idle
<1>7. CASE Restart
    BY <1>1, <1>2, <1>7, NoneAssumption DEF Restart, Idle, TypeOK
<1>8. ASSUME NEW k \in Callers, NEW o \in Owners, NEW e \in Drivers, Deactivate(k, e, o)
      PROVE  Q
    BY <1>3, <1>8 DEF Deactivate
<1>9. ASSUME NEW k \in Callers, NEW o \in Owners, NEW e \in Drivers, NEW x \in Taxis,
             AssignTaxi(k, e, o, x)
      PROVE  Q
    BY <1>3, <1>9 DEF AssignTaxi
<1>10. ASSUME NEW k \in Callers, NEW a \in Accounts, NEW t \in Tokens, StartWithToken(k, a, t)
       PROVE  Q
    BY <1>3, <1>10 DEF StartWithToken
<1>11. ASSUME NEW k \in Callers, NEW a \in Accounts, StartLookup(k, a)
       PROVE  Q
    <2>1. PICK e \in FoundActive(a) :
              call' = [call EXCEPT ![k] = [at |-> "issue", account |-> a, driver |-> e]]
        BY <1>11 DEF StartLookup
    <2>2. e # d
        BY <1>2, <2>1 DEF FoundActive
    <2>3. QED BY <1>3, <1>11, <2>1, <2>2 DEF StartLookup
<1>12. ASSUME NEW k \in Callers, LookupLinked(k)
       PROVE  Q
    <2>1. \A e \in FoundActive(call[k].account) : e # d
        BY <1>2 DEF FoundActive
    <2>2. QED BY <1>3, <1>5, <1>12, <2>1 DEF LookupLinked
<1>13. ASSUME NEW k \in Callers, MarkLinkTokenUsed(k)
       PROVE  Q
    BY <1>3, <1>13 DEF MarkLinkTokenUsed
<1>14. ASSUME NEW k \in Callers, SetTelegramID(k)
       PROVE  Q
    <2>1. CASE call' = [call EXCEPT ![k].at = "mark"]
        <3>1. call[k] \in [at: {"link", "mark"}, account: Accounts, token: Tokens,
                           driver: Drivers]
            BY <1>1, <1>14, CallFields DEF SetTelegramID
        <3>2. [call[k] EXCEPT !.at = "mark"].at # "issue"
            BY <3>1
        <3>3. call' = [call EXCEPT ![k] = [call[k] EXCEPT !.at = "mark"]]
            BY <1>1, <2>1 DEF TypeOK
        <3>4. QED BY <1>3, <1>14, <3>2, <3>3 DEF SetTelegramID
    <2>2. CASE call' = [call EXCEPT ![k] = Idle]
        BY <1>5, <1>14, <2>2 DEF SetTelegramID
    <2>3. QED BY <1>14, <2>1, <2>2 DEF SetTelegramID
<1>15. ASSUME NEW k \in Callers, SetActive(k) \/ CreateAssignment(k) \/ Fail(k)
       PROVE  Q
    BY <1>5, <1>15 DEF SetActive, CreateAssignment, Fail
<1>16. ASSUME NEW e \in Drivers, NEW o \in Owners, CreateDriver(e, o) \/ UnassignTaxi(e, o)
       PROVE  Q
    BY <1>4, <1>16 DEF CreateDriver, UnassignTaxi
<1>17. ASSUME NEW t \in Tokens,
              ExpireToken(t) \/ \E e \in Drivers, o \in Owners : GenerateLinkToken(e, o, t)
       PROVE  Q
    BY <1>4, <1>17 DEF ExpireToken, GenerateLinkToken
<1>18. CASE UNCHANGED vars
    BY <1>4, <1>18 DEF vars
<1> HIDE DEF Q
<1>19. ASSUME NEW o \in Owners, DriverRequest(o) \/ AssignmentRequest(o)
       PROVE  Q
    BY <1>8, <1>9, <1>16, <1>17, <1>19 DEF DriverRequest, AssignmentRequest
<1>20. CASE BotUpdate
    BY <1>10, <1>11, <1>20 DEF BotUpdate
<1>21. ASSUME NEW k \in Callers, Statement(k)
       PROVE  Q
    BY <1>6, <1>12, <1>13, <1>14, <1>15, <1>21 DEF Statement
<1>22. QED
    BY <1>7, <1>17, <1>18, <1>19, <1>20, <1>21 DEF Next

\* Once the claims of a deactivated driver are gone nothing brings them back:
\* no token, old or new, and no account linked to the driver.
THEOREM LoggedOutStays == Spec => LoggedOutForGood
<1>1. Typed /\ [Next]_vars => [\A d \in Drivers : LoggedOut(d) => LoggedOut(d)']_vars
    <2>1. SUFFICES ASSUME Typed, [Next]_vars, NEW d \in Drivers, LoggedOut(d)
                   PROVE  LoggedOut(d)'
        OBVIOUS
    <2>2. drivers'[d] # None /\ ~drivers'[d].active
        BY <2>1, RowStep DEF LoggedOut
    <2>3. QED BY <2>1, <2>2, IssueStep DEF LoggedOut
<1>2. QED BY InitTyped, StepTyped, <1>1, PTL DEF Spec, LoggedOutForGood

-----------------------------------------------------------------------------
(* Link tokens.                                                            *)

Busy(c) == call[c].at \in {"link", "mark"}

Linked(t) == \E l \in links : l[1] = t

Marking(t) == \E c \in Callers : call[c].at = "mark" /\ call[c].token = t

Holds(d, t) == drivers[d] # None /\ drivers[d].token = t

\* Tokens that are stored, carried by a call or have linked are generated.
TokensGenerated ==
    \A t \in Tokens : age[t] = "unused" =>
        /\ \A d \in Drivers : ~Holds(d, t)
        /\ \A c \in Callers : Busy(c) => call[c].token # t
        /\ ~Linked(t)

\* A token is one driver's: no other row has it, and the calls that carry it
\* name that driver.
TokensApart ==
    \A t \in Tokens, d \in Drivers : Holds(d, t) =>
        /\ \A e \in Drivers : Holds(e, t) => d = e
        /\ \A c \in Callers : Busy(c) /\ call[c].token = t => call[c].driver = d

\* A token generated while another one of the driver is being used has raced.
ReplacedIsRaced ==
    \A c \in Callers, t \in Tokens :
        Busy(c) /\ Holds(call[c].driver, t) /\ call[c].token # t => t \in raced

\* A token that has not raced is carried by one call, which will be the first
\* to link with it, or is about to mark that it has.
CarriedOnce ==
    \A c \in Callers : Busy(c) =>
        /\ call[c].token \notin raced =>
              /\ \A k \in Callers : Busy(k) /\ call[k].token = call[c].token => k = c
              /\ call[c].at = "link" => ~Linked(call[c].token)
        /\ call[c].at = "mark" => Linked(call[c].token)

FlagsTrue ==
    \A d \in Drivers, t \in Tokens : Holds(d, t) /\ t \notin raced =>
        (Linked(t) <=> drivers[d].used \/ Marking(t))

TokenInv ==
    TokensGenerated /\ TokensApart /\ ReplacedIsRaced /\ CarriedOnce /\ FlagsTrue /\ TokenLinksOnce

\* A step that links nothing, generates no token, starts and marks no link.
Quiet ==
    /\ links' = links
    /\ raced \subseteq raced'
    /\ \A t \in Tokens : age'[t] = "unused" => age[t] = "unused"
    /\ \A d \in Drivers, t \in Tokens :
          Holds(d, t)' => Holds(d, t) /\ drivers'[d].used = drivers[d].used
    /\ \A c \in Callers : Busy(c)' => call'[c] = call[c]
    /\ \A c \in Callers : call[c].at = "mark" =>
          call'[c] = call[c] \/ call[c].token \in raced'

LEMMA QuietKeepsTokens == Typed /\ Typed' /\ TokenInv /\ Quiet => TokenInv'
<1>1. SUFFICES ASSUME Typed, Typed', TokenInv, Quiet PROVE TokenInv'
    OBVIOUS
<1>2. /\ \A t : Linked(t)' <=> Linked(t)
      /\ \A t \in Tokens : t \notin raced' => (Marking(t)' <=> Marking(t))
    <2>1. \A t : Linked(t)' <=> Linked(t)
        BY <1>1 DEF Quiet, Linked
    <2>2. \A c \in Callers : call'[c].at = "mark" => call'[c] = call[c]
        BY <1>1 DEF Quiet, Busy
    <2>3. QED BY <1>1, <2>1, <2>2 DEF Quiet, Marking
<1>3. \A c \in Callers : Busy(c)' => call'[c] = call[c] /\ Busy(c) /\ call[c].token \in Tokens
    BY <1>1, CallFields DEF Quiet, Busy, Typed
<1>4. TokensGenerated'
    BY <1>1, <1>2, <1>3 DEF Quiet, TokenInv, TokensGenerated
<1>5. TokensApart'
    BY <1>1, <1>3 DEF Quiet, TokenInv, TokensApart
<1>6. ReplacedIsRaced'
    <2>1. \A c \in Callers : Busy(c) => call[c].driver \in Drivers
        BY <1>1, CallFields DEF Busy, Typed
    <2>2. QED BY <1>1, <1>3, <2>1 DEF Quiet, TokenInv, ReplacedIsRaced
<1>7. CarriedOnce'
    BY <1>1, <1>2, <1>3 DEF Quiet, TokenInv, CarriedOnce
<1>8. FlagsTrue'
    BY <1>1, <1>2 DEF Quiet, TokenInv, FlagsTrue
<1>9. TokenLinksOnce'
    BY <1>1 DEF Quiet, TokenInv, TokenLinksOnce
<1>10. QED BY <1>4, <1>5, <1>6, <1>7, <1>8, <1>9 DEF TokenInv

\* The rows after a statement that writes row d.
LEMMA RowWritten ==
    ASSUME TypeOK, NEW d \in Drivers, drivers[d] # None, NEW row \in DriverRow,
           drivers' = [drivers EXCEPT ![d] = row]
    PROVE  /\ \A k \in Drivers : k # d => drivers'[k] = drivers[k]
           /\ drivers'[d] = row /\ drivers'[d] # None
           /\ \A k \in Drivers : drivers'[k] # None <=> drivers[k] # None
BY NoneAssumption DEF TypeOK

\* All steps but the four that follow are quiet.
LEMMA QuietStep ==
    ASSUME Typed, [Next]_vars,
           ~ \E d \in Drivers, o \in Owners, t \in Tokens : GenerateLinkToken(d, o, t),
           ~ \E c \in Callers, a \in Accounts, t \in Tokens : StartWithToken(c, a, t),
           ~ \E c \in Callers : SetTelegramID(c) /\ call'[c] # Idle,
           ~ \E c \in Callers : MarkLinkTokenUsed(c)
    PROVE  Quiet
<1>1. TypeOK
    BY DEF Typed
<1> DEFINE SameTokens == links' = links /\ raced \subseteq raced' /\ age' = age
           SameRows == \A d \in Drivers, t \in Tokens :
                           Holds(d, t)' => Holds(d, t) /\ drivers'[d].used = drivers[d].used
           Calls == /\ \A c \in Callers : Busy(c)' => call'[c] = call[c]
                    /\ \A c \in Callers : call[c].at = "mark" =>
                           call'[c] = call[c] \/ call[c].token \in raced'
<1>2. UNCHANGED drivers => SameRows
    BY DEF Holds
<1>3. ASSUME NEW k \in Callers, NEW v, v.at \notin {"link", "mark"}, call[k].at # "mark",
             call' = [call EXCEPT ![k] = v]
      PROVE  Calls
    BY <1>1, <1>3 DEF TypeOK, Busy
<1>4. UNCHANGED call => Calls
    BY DEF Busy
<1> HIDE DEF Calls
<1>5. ASSUME NEW d \in Drivers, NEW o \in Owners, CreateDriver(d, o)
      PROVE  Quiet
    <2>1. SameRows
        BY <1>1, <1>5, NoneAssumption DEF CreateDriver, Holds, TypeOK
    <2>2. QED BY <1>4, <1>5, <2>1 DEF CreateDriver, Quiet, Calls, history
<1>6. ASSUME NEW d \in Drivers, NEW o \in Owners, NEW c \in Callers, Deactivate(c, d, o)
      PROVE  Quiet
    <2>0. call[c].at = "idle"
        BY <1>6 DEF Deactivate, Idle
    <2>1. Calls
        BY <1>3, <1>6, <2>0 DEF Deactivate
    <2>2. QED BY <1>2, <1>6, <2>1 DEF Deactivate, Quiet, Calls, history
<1>7. ASSUME NEW d \in Drivers, NEW o \in Owners, UnassignTaxi(d, o)
      PROVE  Quiet
    BY <1>2, <1>4, <1>7 DEF UnassignTaxi, Quiet, Calls, history
<1>8. ASSUME NEW d \in Drivers, NEW o \in Owners, NEW c \in Callers, NEW x \in Taxis,
             AssignTaxi(c, d, o, x)
      PROVE  Quiet
    <2>0. call[c].at = "idle"
        BY <1>8 DEF AssignTaxi, Idle
    <2>1. Calls
        BY <1>3, <1>8, <2>0 DEF AssignTaxi
    <2>2. QED BY <1>2, <1>8, <2>1 DEF AssignTaxi, Quiet, Calls, history, tables
<1>9. ASSUME NEW c \in Callers, NEW a \in Accounts, StartLookup(c, a)
      PROVE  Quiet
    <2>0. call[c].at = "idle"
        BY <1>9 DEF StartLookup, Idle
    <2>1. Calls
        BY <1>3, <1>9, <2>0 DEF StartLookup
    <2>2. QED BY <1>2, <1>9, <2>1 DEF StartLookup, Quiet, Calls, history, tables
<1>10. ASSUME NEW c \in Callers, SetActive(c)
       PROVE  Quiet
    <2>1. Calls
        BY <1>3, <1>10 DEF SetActive, Idle
    <2>2. SameRows
        <3> DEFINE d == call[c].driver
                   row == [drivers[d] EXCEPT !.active = FALSE]
        <3>1. d \in Drivers /\ drivers[d] # None
            BY <1>1, <1>10, CallFields DEF SetActive, Typed, CallsOnRows
        <3>2. drivers[d] \in DriverRow
            BY <1>1, <3>1 DEF TypeOK
        <3>3. /\ row \in DriverRow /\ row.token = drivers[d].token
              /\ row.used = drivers[d].used
            BY <3>2 DEF DriverRow
        <3>4. drivers' = [drivers EXCEPT ![d] = row]
            BY <1>10 DEF SetActive
        <3> HIDE DEF d, row
        <3>5. /\ \A k \in Drivers : k # d => drivers'[k] = drivers[k]
              /\ drivers'[d] = row /\ drivers'[d] # None
            BY <1>1, <3>1, <3>3, <3>4, RowWritten
        <3>6. QED BY <3>1, <3>3, <3>5 DEF Holds
    <2>3. QED BY <1>10, <2>1, <2>2 DEF SetActive, Quiet, Calls, history
<1>11. ASSUME NEW c \in Callers, CreateAssignment(c)
       PROVE  Quiet
    <2>1. Calls
        BY <1>3, <1>11 DEF CreateAssignment, Idle
    <2>2. QED BY <1>2, <1>11, <2>1 DEF CreateAssignment, Quiet, Calls
<1>12. ASSUME NEW c \in Callers, SetTelegramID(c)
       PROVE  Quiet
    <2>1. call'[c] = Idle
        BY <1>12
    <2>2. call[c] \in [at: {"link", "mark"}, account: Accounts, token: Tokens, driver: Drivers]
        BY <1>1, <1>12, CallFields DEF SetTelegramID
    <2>3. call' # [call EXCEPT ![c].at = "mark"]
        BY <1>1, <2>1, <2>2 DEF Idle, TypeOK
    <2>4. call' = [call EXCEPT ![c] = Idle] /\ UNCHANGED <<drivers, links>>
        BY <1>12, <2>3 DEF SetTelegramID
    <2>5. Calls
        BY <1>3, <1>12, <2>4 DEF SetTelegramID, Idle
    <2>6. QED BY <1>2, <1>12, <2>4, <2>5 DEF SetTelegramID, Quiet, Calls
<1>13. ASSUME NEW c \in Callers, LookupLinked(c)
       PROVE  Quiet
    <2>1. Calls
        BY <1>3, <1>13 DEF LookupLinked, Idle
    <2>2. QED BY <1>2, <1>13, <2>1 DEF LookupLinked, Quiet, Calls, history, tables
<1>14. ASSUME NEW c \in Callers, IssueJWT(c)
       PROVE  Quiet
    <2>1. Calls
        BY <1>3, <1>14 DEF IssueJWT, Idle
    <2>2. QED BY <1>2, <1>14, <2>1 DEF IssueJWT, Quiet, Calls, history, tables
<1>15. ASSUME NEW c \in Callers, Fail(c)
       PROVE  Quiet
    <2>1. Calls
        BY <1>1, <1>15 DEF Fail, Unmarked, Calls, Busy, Idle, TypeOK
    <2>2. QED BY <1>2, <1>15, <2>1 DEF Fail, Quiet, Calls, tables
<1>16. ASSUME NEW t \in Tokens, ExpireToken(t)
       PROVE  Quiet
    <2>1. \A k \in Tokens : age'[k] = "unused" => age[k] = "unused"
        BY <1>1, <1>16 DEF ExpireToken, TypeOK
    <2>2. QED BY <1>2, <1>4, <1>16, <2>1 DEF ExpireToken, Quiet, Calls, history, tables
<1>17. CASE Restart
    <2>1. Calls
        BY <1>1, <1>17 DEF Restart, Unmarked, BotCalls, Calls, Busy, Idle, TypeOK
    <2>2. QED BY <1>2, <1>17, <2>1 DEF Restart, Quiet, Calls, tables
<1>18. CASE UNCHANGED vars
    BY <1>2, <1>4, <1>18 DEF Quiet, Calls, vars, history, tables
<1>19. ASSUME NEW o \in Owners, DriverRequest(o) \/ AssignmentRequest(o)
       PROVE  Quiet
    BY <1>5, <1>6, <1>7, <1>8, <1>19 DEF DriverRequest, AssignmentRequest
<1>20. ASSUME NEW c \in Callers, Statement(c)
       PROVE  Quiet
    BY <1>10, <1>11, <1>12, <1>13, <1>14, <1>15, <1>20 DEF Statement
<1>21. CASE BotUpdate
    BY <1>9, <1>21 DEF BotUpdate
<1>22. QED BY <1>16, <1>17, <1>18, <1>19, <1>20, <1>21 DEF Next

\* A new token: no row, call or link has it yet.
LEMMA GenerateKeepsTokens ==
    ASSUME Typed, Typed', TokenInv, NEW d \in Drivers, NEW o \in Owners, NEW t \in Tokens,
           GenerateLinkToken(d, o, t)
    PROVE  TokenInv'
<1>1. TypeOK /\ TypeOK' /\ drivers[d] # None /\ age[t] = "unused"
    BY DEF Typed, GenerateLinkToken
<1>2. /\ \A k \in Drivers : ~Holds(k, t)
      /\ \A c \in Callers : Busy(c) => call[c].token # t
      /\ ~Linked(t)
    BY <1>1 DEF TokenInv, TokensGenerated
<1> DEFINE row == [drivers[d] EXCEPT !.token = t, !.used = FALSE]
<1>3. row \in DriverRow /\ row.token = t /\ row.used = FALSE
    <2>1. drivers[d] \in DriverRow
        BY <1>1 DEF TypeOK
    <2>2. QED BY <2>1 DEF DriverRow
<1>4. drivers' = [drivers EXCEPT ![d] = row]
    BY DEF GenerateLinkToken
<1> HIDE DEF row
<1>5. /\ \A k \in Drivers : k # d => drivers'[k] = drivers[k]
      /\ drivers'[d] = row /\ drivers'[d] # None
    BY <1>1, <1>3, <1>4, RowWritten
<1>6. /\ UNCHANGED <<call, links>>
      /\ age' = [age EXCEPT ![t] = "valid"]
      /\ raced' = IF Linking(d) # {} THEN raced \cup {t} ELSE raced
    BY DEF GenerateLinkToken
<1>7. \A k \in Drivers, u \in Tokens :
          Holds(k, u)' <=> IF k = d THEN u = t ELSE Holds(k, u)
    BY <1>3, <1>5 DEF Holds
<1>8. /\ \A c \in Callers : Busy(c)' <=> Busy(c)
      /\ \A u : Linked(u)' <=> Linked(u)
      /\ \A u : Marking(u)' <=> Marking(u)
    BY <1>6 DEF Busy, Linked, Marking
<1>9. \A c \in Callers : Busy(c) => call[c].token \in Tokens /\ call[c].driver \in Drivers
    BY <1>1, CallFields DEF Busy
<1>10. TokensGenerated'
    <2>1. \A u \in Tokens : age'[u] = "unused" => u # t /\ age[u] = "unused"
        BY <1>1, <1>6 DEF TypeOK
    <2>2. QED BY <1>6, <1>7, <1>8, <2>1 DEF TokenInv, TokensGenerated
<1>11. TokensApart'
    BY <1>2, <1>6, <1>7, <1>8 DEF TokenInv, TokensApart
<1>12. ReplacedIsRaced'
    <2>1. \A c \in Callers : Busy(c) /\ call[c].driver = d => t \in raced'
        BY <1>6 DEF Busy, Linking
    <2>2. raced \subseteq raced'
        BY <1>6
    <2>3. QED BY <1>6, <1>7, <1>8, <1>9, <2>1, <2>2 DEF TokenInv, ReplacedIsRaced
<1>13. CarriedOnce'
    BY <1>6, <1>8 DEF TokenInv, CarriedOnce
<1>14. FlagsTrue'
    <2>1. ~Marking(t)
        BY <1>2 DEF Marking, Busy
    <2>2. raced \subseteq raced'
        BY <1>6
    <2>3. ASSUME NEW k \in Drivers, NEW u \in Tokens, Holds(k, u)', u \notin raced'
          PROVE  Linked(u)' <=> drivers'[k].used \/ Marking(u)'
        <3>1. CASE k = d
            BY <1>2, <1>3, <1>5, <1>7, <1>8, <2>1, <2>3, <3>1
        <3>2. CASE k # d
            BY <1>5, <1>7, <1>8, <2>2, <2>3, <3>2 DEF TokenInv, FlagsTrue
        <3>3. QED BY <3>1, <3>2
    <2>4. QED BY <2>3 DEF FlagsTrue
<1>15. TokenLinksOnce'
    BY <1>6 DEF TokenInv, TokenLinksOnce
<1>16. QED BY <1>10, <1>11, <1>12, <1>13, <1>14, <1>15 DEF TokenInv

\* A call that starts with a token that has not raced is the only one to have
\* it, and the token has not linked: else it would be marked or being marked.
LEMMA StartKeepsTokens ==
    ASSUME Typed, Typed', TokenInv, NEW c \in Callers, NEW a \in Accounts, NEW t \in Tokens,
           StartWithToken(c, a, t)
    PROVE  TokenInv'
<1>1. TypeOK /\ call[c] = Idle /\ age[t] = "valid" /\ UNCHANGED <<drivers, age, links>>
    BY DEF Typed, StartWithToken, tables
<1>2. PICK d \in Inserted(drivers) :
          /\ drivers[d].token = t /\ ~drivers[d].used
          /\ call' = [call EXCEPT ![c] = [at |-> "link", account |-> a,
                                          token |-> t, driver |-> d]]
          /\ raced' = IF Linking(d) # {} THEN raced \cup {t} ELSE raced
    BY DEF StartWithToken
<1>3. d \in Drivers /\ Holds(d, t)
    BY <1>1, <1>2 DEF Inserted, Holds, TypeOK
<1>4. /\ ~Busy(c)
      /\ call'[c].at = "link" /\ call'[c].token = t /\ call'[c].driver = d
      /\ \A k \in Callers : k # c => call'[k] = call[k]
    BY <1>1, <1>2 DEF TypeOK, Busy, Idle
<1>5. raced \subseteq raced'
    BY <1>2
<1>6. /\ \A k \in Drivers, u \in Tokens : Holds(k, u)' <=> Holds(k, u)
      /\ \A u : Linked(u)' <=> Linked(u)
      /\ \A k \in Callers : Busy(k)' <=> k = c \/ Busy(k)
    BY <1>1, <1>4 DEF Holds, Linked, Busy
<1>7. \A u : Marking(u)' <=> Marking(u)
    <2>1. call[c].at # "mark"
        BY <1>4 DEF Busy
    <2>2. QED BY <1>4, <2>1 DEF Marking
<1>8. \A k \in Callers : Busy(k) /\ call[k].token = t => call[k].driver = d
    BY <1>3 DEF TokenInv, TokensApart
<1>9. ASSUME t \notin raced'
      PROVE  /\ \A k \in Callers : Busy(k) => call[k].token # t
             /\ ~Linked(t)
    <2>1. \A k \in Callers : Busy(k) => call[k].driver # d
        BY <1>2, <1>9 DEF Linking, Busy
    <2>2. ~Marking(t)
        BY <1>8, <2>1 DEF Marking, Busy
    <2>3. QED BY <1>2, <1>3, <1>5, <1>8, <1>9, <2>1, <2>2 DEF TokenInv, FlagsTrue
<1>10. TokensGenerated'
    BY <1>1, <1>4, <1>6 DEF TokenInv, TokensGenerated
<1>11. TokensApart'
    <2>1. \A e \in Drivers : Holds(e, t) => e = d
        BY <1>3 DEF TokenInv, TokensApart
    <2>2. QED BY <1>4, <1>6, <2>1 DEF TokenInv, TokensApart
<1>12. ReplacedIsRaced'
    <2>1. \A u \in Tokens : Holds(d, u) => u = t
        BY <1>2 DEF Holds
    <2>2. \A k \in Callers : Busy(k) => call[k].driver \in Drivers
        BY <1>1, CallFields DEF Busy
    <2>3. ASSUME NEW k \in Callers, NEW u \in Tokens, Busy(k)',
                 Holds(call[k].driver, u)', call'[k].token # u
          PROVE  u \in raced'
        <3>1. CASE k = c
            BY <1>3, <1>4, <1>6, <2>1, <2>3, <3>1
        <3>2. CASE k # c
            BY <1>4, <1>5, <1>6, <2>2, <2>3, <3>2 DEF TokenInv, ReplacedIsRaced
        <3>3. QED BY <3>1, <3>2
    <2>4. QED BY <2>3 DEF ReplacedIsRaced
<1>13. CarriedOnce'
    <2>1. SUFFICES ASSUME NEW k \in Callers, Busy(k)'
                   PROVE  /\ call'[k].token \notin raced' =>
                                /\ \A l \in Callers :
                                      Busy(l)' /\ call'[l].token = call'[k].token => l = k
                                /\ (call[k].at = "link" => ~Linked(call[k].token))'
                          /\ (call[k].at = "mark" => Linked(call[k].token))'
        BY DEF CarriedOnce
    <2>2. CASE k = c
        BY <1>4, <1>6, <1>9, <2>2
    <2>3. CASE k # c
        BY <1>4, <1>5, <1>6, <1>9, <2>1, <2>3 DEF TokenInv, CarriedOnce
    <2>4. QED BY <2>2, <2>3
<1>14. FlagsTrue'
    BY <1>1, <1>5, <1>6, <1>7 DEF TokenInv, FlagsTrue
<1>15. TokenLinksOnce'
    BY <1>1, <1>5 DEF TokenInv, TokenLinksOnce
<1>16. QED BY <1>10, <1>11, <1>12, <1>13, <1>14, <1>15 DEF TokenInv

\* The link itself.  The call that links with a token that has not raced is
\* the only one to carry it, and nothing has linked with it before.
LEMMA LinkKeepsTokens ==
    ASSUME Typed, Typed', TokenInv, NEW c \in Callers, SetTelegramID(c), call'[c] # Idle
    PROVE  TokenInv'
<1> DEFINE t == call[c].token
           a == call[c].account
           d == call[c].driver
<1>1. TypeOK /\ call[c].at = "link" /\ UNCHANGED <<age, raced>>
    BY DEF Typed, SetTelegramID
<1>2. /\ call[c] \in [at: {"link", "mark"}, account: Accounts, token: Tokens, driver: Drivers]
      /\ drivers[d] # None
    BY <1>1, CallFields DEF Typed, CallsOnRows
<1>3. call' # [call EXCEPT ![c] = Idle]
    BY <1>1 DEF TypeOK
<1>4. /\ drivers' = [drivers EXCEPT ![d].telegram = a]
      /\ links' = links \cup {<<t, a, d>>}
      /\ call' = [call EXCEPT ![c].at = "mark"]
    BY <1>3 DEF SetTelegramID
<1>5. /\ call'[c].at = "mark" /\ call'[c].token = t /\ call'[c].driver = d
      /\ \A k \in Callers : k # c => call'[k] = call[k]
    BY <1>1, <1>2, <1>4 DEF TypeOK
<1>6. /\ \A k \in Callers : Busy(k)' <=> Busy(k)
      /\ \A k \in Callers : call'[k].token = call[k].token /\ call'[k].driver = call[k].driver
    BY <1>1, <1>5 DEF Busy
<1>7. /\ \A u : Linked(u)' <=> u = t \/ Linked(u)
      /\ \A u : Marking(u)' <=> u = t \/ Marking(u)
    <2>1. \A u : Linked(u)' <=> u = t \/ Linked(u)
        <3>1. <<t, a, d>>[1] = t
            OBVIOUS
        <3>2. \A l : l \in links' <=> l \in links \/ l = <<t, a, d>>
            BY <1>4
        <3> HIDE DEF t, a, d
        <3>3. QED BY <3>1, <3>2 DEF Linked
    <2>2. \A u : Marking(u)' <=> u = t \/ Marking(u)
        BY <1>1, <1>5 DEF Marking
    <2>3. QED BY <2>1, <2>2
<1>8. \A k \in Drivers, u \in Tokens :
          Holds(k, u)' => Holds(k, u) /\ drivers'[k].used = drivers[k].used
    <2> DEFINE row == [drivers[d] EXCEPT !.telegram = a]
    <2>1. drivers[d] \in DriverRow /\ d \in Drivers
        BY <1>1, <1>2 DEF TypeOK
    <2>2. row \in DriverRow /\ row.token = drivers[d].token /\ row.used = drivers[d].used
        BY <1>2, <2>1 DEF DriverRow
    <2>3. drivers' = [drivers EXCEPT ![d] = row]
        BY <1>4
    <2> HIDE DEF row
    <2>4. /\ \A k \in Drivers : k # d => drivers'[k] = drivers[k]
          /\ drivers'[d] = row /\ drivers'[d] # None
        BY <1>1, <1>2, <2>1, <2>2, <2>3, RowWritten
    <2>5. QED BY <1>2, <2>2, <2>4 DEF Holds
<1>9. t \in Tokens /\ Busy(c)
    BY <1>1, <1>2 DEF Busy
<1>10. t \notin raced => /\ \A k \in Callers : Busy(k) /\ call[k].token = t => k = c
                         /\ ~Linked(t)
    BY <1>1, <1>9 DEF TokenInv, CarriedOnce
<1>11. TokensGenerated'
    BY <1>1, <1>6, <1>7, <1>8, <1>9 DEF TokenInv, TokensGenerated
<1>12. TokensApart'
    BY <1>6, <1>8 DEF TokenInv, TokensApart
<1>13. ReplacedIsRaced'
    <2>1. \A k \in Callers : Busy(k) => call[k].driver \in Drivers
        BY <1>1, CallFields DEF Busy
    <2>2. QED BY <1>1, <1>6, <1>8, <2>1 DEF TokenInv, ReplacedIsRaced
<1>14. CarriedOnce'
    <2>1. ASSUME NEW k \in Callers, Busy(k), call[k].token \notin raced
          PROVE  /\ \A l \in Callers : Busy(l) /\ call[l].token = call[k].token => l = k
                 /\ call'[k].at = "link" => call[k].token # t /\ ~Linked(call[k].token)
        <3>1. CASE k = c
            BY <1>5, <1>9, <1>10, <2>1, <3>1
        <3>2. CASE k # c
            BY <1>5, <1>9, <2>1, <3>2 DEF TokenInv, CarriedOnce
        <3>3. QED BY <3>1, <3>2
    <2>2. ASSUME NEW k \in Callers, Busy(k), call'[k].at = "mark"
          PROVE  call[k].token = t \/ Linked(call[k].token)
        BY <1>5, <2>2 DEF TokenInv, CarriedOnce
    <2>3. QED BY <1>1, <1>6, <1>7, <2>1, <2>2 DEF CarriedOnce
<1>15. FlagsTrue'
    BY <1>1, <1>7, <1>8 DEF TokenInv, FlagsTrue
<1>16. TokenLinksOnce'
    <2>1. \A l \in links : t \notin raced => l[1] # t
        BY <1>10 DEF Linked
    <2>2. \A l \in links' : l \in links \/ l = <<t, a, d>>
        BY <1>4
    <2>3. <<t, a, d>>[1] = t
        OBVIOUS
    <2>4. QED BY <1>1, <2>1, <2>2, <2>3 DEF TokenInv, TokenLinksOnce
<1>17. QED BY <1>11, <1>12, <1>13, <1>14, <1>15, <1>16 DEF TokenInv

\* The mark names the driver.  If the driver has another token by then, that
\* token was generated during the call, and has raced.
LEMMA MarkKeepsTokens ==
    ASSUME Typed, Typed', TokenInv, NEW c \in Callers, MarkLinkTokenUsed(c)
    PROVE  TokenInv'
<1> DEFINE t == call[c].token
           d == call[c].driver
<1>1. TypeOK /\ call[c].at = "mark" /\ UNCHANGED <<age, links, raced>>
    BY DEF Typed, MarkLinkTokenUsed, history
<1>2. /\ t \in Tokens /\ d \in Drivers /\ Busy(c) /\ drivers[d] # None
    BY <1>1, CallFields DEF Busy, Typed, CallsOnRows
<1>3. /\ call'[c].at = "lookup"
      /\ \A k \in Callers : k # c => call'[k] = call[k]
    BY <1>1 DEF MarkLinkTokenUsed, TypeOK
<1>4. /\ \A k \in Callers : Busy(k)' <=> Busy(k) /\ k # c
      /\ \A u : Linked(u)' <=> Linked(u)
      /\ \A u : Marking(u) <=> u = t \/ Marking(u)'
    <2>1. \A k \in Callers : Busy(k)' <=> Busy(k) /\ k # c
        BY <1>3 DEF Busy
    <2>2. \A u : Linked(u)' <=> Linked(u)
        BY <1>1 DEF Linked
    <2>3. \A u : Marking(u) <=> u = t \/ Marking(u)'
        BY <1>1, <1>3 DEF Marking
    <2>4. QED BY <2>1, <2>2, <2>3
<1>5. /\ drivers'[d].used
      /\ \A k \in Drivers, u \in Tokens :
            Holds(k, u)' => Holds(k, u) /\ (k # d => drivers'[k].used = drivers[k].used)
    <2> DEFINE row == [drivers[d] EXCEPT !.used = TRUE]
    <2>1. drivers[d] \in DriverRow
        BY <1>1, <1>2 DEF TypeOK
    <2>2. row \in DriverRow /\ row.token = drivers[d].token /\ row.used
        BY <2>1 DEF DriverRow
    <2>3. drivers' = [drivers EXCEPT ![d] = row]
        BY DEF MarkLinkTokenUsed
    <2> HIDE DEF row
    <2>4. /\ \A k \in Drivers : k # d => drivers'[k] = drivers[k]
          /\ drivers'[d] = row /\ drivers'[d] # None
        BY <1>1, <1>2, <2>2, <2>3, RowWritten
    <2>5. QED BY <1>2, <2>2, <2>4 DEF Holds
<1>6. \A k \in Callers : Busy(k) => call[k].driver \in Drivers
    BY <1>1, CallFields DEF Busy
<1>7. TokensGenerated'
    BY <1>1, <1>3, <1>4, <1>5 DEF TokenInv, TokensGenerated
<1>8. TokensApart'
    BY <1>3, <1>4, <1>5 DEF TokenInv, TokensApart
<1>9. ReplacedIsRaced'
    BY <1>1, <1>3, <1>4, <1>5, <1>6 DEF TokenInv, ReplacedIsRaced
<1>10. CarriedOnce'
    BY <1>1, <1>3, <1>4 DEF TokenInv, CarriedOnce
<1>11. FlagsTrue'
    <2>1. SUFFICES ASSUME NEW k \in Drivers, NEW u \in Tokens, Holds(k, u)', u \notin raced
                   PROVE  Linked(u) <=> drivers'[k].used \/ Marking(u)'
        BY <1>1, <1>4 DEF FlagsTrue
    <2>2. CASE k = d
        <3>1. u = t
            BY <1>2, <1>5, <2>1, <2>2 DEF TokenInv, ReplacedIsRaced
        <3>2. Linked(t)
            BY <1>1, <1>2 DEF TokenInv, CarriedOnce
        <3>3. QED BY <1>5, <2>2, <3>1, <3>2
    <2>3. CASE k # d
        <3>1. u # t
            BY <1>2, <1>5, <2>1, <2>3 DEF TokenInv, TokensApart
        <3>2. QED BY <1>4, <1>5, <2>1, <2>3, <3>1 DEF TokenInv, FlagsTrue
    <2>4. QED BY <2>2, <2>3
<1>12. TokenLinksOnce'
    BY <1>1 DEF TokenInv, TokenLinksOnce
<1>13. QED BY <1>7, <1>8, <1>9, <1>10, <1>11, <1>12 DEF TokenInv

LEMMA TokensAlways == Spec => [](Typed /\ TokenInv)
<1>1. Init => TokenInv
    BY DEF Init, TokenInv, TokensGenerated, TokensApart, ReplacedIsRaced, CarriedOnce,
           FlagsTrue, TokenLinksOnce, Holds, Busy, Linked, Idle
<1>2. Typed /\ TokenInv /\ [Next]_vars => TokenInv'
    <2>1. SUFFICES ASSUME Typed, TokenInv, [Next]_vars PROVE TokenInv'
        OBVIOUS
    <2>2. Typed'
        BY <2>1, StepTyped
    <2>3. CASE \E d \in Drivers, o \in Owners, t \in Tokens : GenerateLinkToken(d, o, t)
        BY <2>1, <2>2, <2>3, GenerateKeepsTokens
    <2>4. CASE \E c \in Callers, a \in Accounts, t \in Tokens : StartWithToken(c, a, t)
        BY <2>1, <2>2, <2>4, StartKeepsTokens
    <2>5. CASE \E c \in Callers : SetTelegramID(c) /\ call'[c] # Idle
        BY <2>1, <2>2, <2>5, LinkKeepsTokens
    <2>6. CASE \E c \in Callers : MarkLinkTokenUsed(c)
        BY <2>1, <2>2, <2>6, MarkKeepsTokens
    <2>7. CASE Quiet
        BY <2>1, <2>2, <2>7, QuietKeepsTokens
    <2>8. QED BY <2>1, <2>3, <2>4, <2>5, <2>6, <2>7, QuietStep
<1>3. QED BY InitTyped, StepTyped, <1>1, <1>2, PTL DEF Spec

\* A token links one account, unless it met another link call of its driver
\* or a failure between the link and the mark.
THEOREM TokensLinkOnce == Spec => []TokenLinksOnce
<1>1. Typed /\ TokenInv => TokenLinksOnce
    BY DEF TokenInv
<1>2. QED BY TokensAlways, <1>1, PTL

-----------------------------------------------------------------------------
(* Claims.                                                                 *)

WasLinked(a, d) == \E l \in links : l[2] = a /\ l[3] = d

\* The account of a row was linked to its driver, and a driver to whom an
\* account was linked has one.
RowsLinked ==
    \A d \in Drivers :
        /\ drivers[d] # None /\ drivers[d].telegram # None => WasLinked(drivers[d].telegram, d)
        /\ \A a \in Accounts : WasLinked(a, d) => drivers[d] # None /\ drivers[d].telegram # None

ClaimsLinked ==
    /\ \A a \in Accounts : session[a] # None => WasLinked(a, session[a])
    /\ \A c \in Callers : call[c].at = "issue" => WasLinked(call[c].account, call[c].driver)

\* Nothing removes a link, and all statements but two leave the accounts.
LEMMA RowsStep == Typed /\ RowsLinked /\ [Next]_vars => RowsLinked' /\ links \subseteq links'
<1>1. SUFFICES ASSUME Typed, RowsLinked, [Next]_vars
               PROVE  RowsLinked' /\ links \subseteq links'
    OBVIOUS
<1>2. TypeOK /\ CallsOnRows
    BY <1>1 DEF Typed
<1> DEFINE Q == RowsLinked' /\ links \subseteq links'
<1>q. SUFFICES Q
    OBVIOUS
<1>3. CASE UNCHANGED <<drivers, links>>
    BY <1>1, <1>3 DEF RowsLinked, WasLinked
<1>4. ASSUME NEW d \in Drivers, drivers[d] # None, NEW row \in DriverRow,
             row.telegram = drivers[d].telegram,
             drivers' = [drivers EXCEPT ![d] = row], UNCHANGED links
      PROVE  Q
    <2>1. /\ \A k \in Drivers : k # d => drivers'[k] = drivers[k]
          /\ drivers'[d] = row /\ drivers'[d] # None
        BY <1>2, <1>4, RowWritten
    <2>2. \A a, k : WasLinked(a, k)' <=> WasLinked(a, k)
        BY <1>4 DEF WasLinked
    <2>3. \A k \in Drivers : /\ drivers'[k] # None <=> drivers[k] # None
                             /\ drivers'[k].telegram = drivers[k].telegram
        BY <1>4, <2>1
    <2>4. QED BY <1>1, <1>4, <2>2, <2>3 DEF RowsLinked
<1>5. ASSUME NEW d \in Drivers, NEW o \in Owners, CreateDriver(d, o)
      PROVE  Q
    <2>1. UNCHANGED links /\ drivers[d] = None
        BY <1>5 DEF CreateDriver, history
    <2>2. \A a, k : WasLinked(a, k)' <=> WasLinked(a, k)
        BY <2>1 DEF WasLinked
    <2>3. /\ \A k \in Drivers : k # d => drivers'[k] = drivers[k]
          /\ drivers'[d].telegram = None
        BY <1>2, <1>5 DEF CreateDriver, TypeOK
    <2>4. \A a \in Accounts : ~WasLinked(a, d)
        BY <1>1, <2>1 DEF RowsLinked
    <2>5. QED BY <1>1, <2>1, <2>2, <2>3, <2>4 DEF RowsLinked
<1>6. ASSUME NEW d \in Drivers, NEW o \in Owners, NEW t \in Tokens, GenerateLinkToken(d, o, t)
      PROVE  Q
    <2> DEFINE row == [drivers[d] EXCEPT !.token = t, !.used = FALSE]
    <2>1. drivers[d] \in DriverRow /\ drivers[d] # None
        BY <1>2, <1>6 DEF GenerateLinkToken, TypeOK
    <2>2. row \in DriverRow /\ row.telegram = drivers[d].telegram
        BY <2>1 DEF DriverRow
    <2>3. drivers' = [drivers EXCEPT ![d] = row] /\ UNCHANGED links
        BY <1>6 DEF GenerateLinkToken
    <2> HIDE DEF row
    <2>4. QED BY <1>4, <2>1, <2>2, <2>3
<1>7. ASSUME NEW c \in Callers, SetActive(c)
      PROVE  Q
    <2> DEFINE d == call[c].driver
               row == [drivers[d] EXCEPT !.active = FALSE]
    <2>1. d \in Drivers /\ drivers[d] \in DriverRow /\ drivers[d] # None
        BY <1>2, <1>7, CallFields DEF SetActive, CallsOnRows, TypeOK
    <2>2. row \in DriverRow /\ row.telegram = drivers[d].telegram
        BY <2>1 DEF DriverRow
    <2>3. drivers' = [drivers EXCEPT ![d] = row] /\ UNCHANGED links
        BY <1>7 DEF SetActive, history
    <2> HIDE DEF d, row
    <2>4. QED BY <1>4, <2>1, <2>2, <2>3
<1>8. ASSUME NEW c \in Callers, MarkLinkTokenUsed(c)
      PROVE  Q
    <2> DEFINE d == call[c].driver
               row == [drivers[d] EXCEPT !.used = TRUE]
    <2>1. d \in Drivers /\ drivers[d] \in DriverRow /\ drivers[d] # None
        BY <1>2, <1>8, CallFields DEF MarkLinkTokenUsed, CallsOnRows, TypeOK
    <2>2. row \in DriverRow /\ row.telegram = drivers[d].telegram
        BY <2>1 DEF DriverRow
    <2>3. drivers' = [drivers EXCEPT ![d] = row] /\ UNCHANGED links
        BY <1>8 DEF MarkLinkTokenUsed, history
    <2> HIDE DEF d, row
    <2>4. QED BY <1>4, <2>1, <2>2, <2>3
<1>9. ASSUME NEW c \in Callers, SetTelegramID(c)
      PROVE  Q
    <2> DEFINE t == call[c].token
               a == call[c].account
               d == call[c].driver
               row == [drivers[d] EXCEPT !.telegram = a]
    <2>1. /\ d \in Drivers /\ drivers[d] \in DriverRow /\ drivers[d] # None
          /\ a \in Accounts
        BY <1>2, <1>9, CallFields DEF SetTelegramID, CallsOnRows, TypeOK
    <2>2. row \in DriverRow /\ row.telegram = a
        BY <2>1 DEF DriverRow
    <2>3. \/ UNCHANGED <<drivers, links>>
          \/ drivers' = [drivers EXCEPT ![d] = row] /\ links' = links \cup {<<t, a, d>>}
        BY <1>9 DEF SetTelegramID
    <2> HIDE DEF t, a, d, row
    <2>4. ASSUME drivers' = [drivers EXCEPT ![d] = row], links' = links \cup {<<t, a, d>>}
          PROVE  Q
        <3>1. /\ \A k \in Drivers : k # d => drivers'[k] = drivers[k]
              /\ drivers'[d] = row /\ drivers'[d] # None
            BY <1>2, <2>1, <2>2, <2>4, RowWritten
        <3>2. <<t, a, d>>[2] = a /\ <<t, a, d>>[3] = d
            OBVIOUS
        <3>3. \A b, k : WasLinked(b, k)' <=> WasLinked(b, k) \/ (b = a /\ k = d)
            BY <2>4, <3>2 DEF WasLinked
        <3>4. row.telegram # None
            BY <2>1, <2>2, NoneAssumption
        <3>5. QED BY <1>1, <2>2, <2>4, <3>1, <3>3, <3>4 DEF RowsLinked
    <2>5. QED BY <1>3, <2>3, <2>4
<1> HIDE DEF Q
<1>10. ASSUME NEW o \in Owners, DriverRequest(o) \/ AssignmentRequest(o)
       PROVE  Q
    <2>1. ASSUME NEW d \in Drivers, NEW c \in Callers,
                 Deactivate(c, d, o) \/ \E x \in Taxis : AssignTaxi(c, d, o, x)
          PROVE  Q
        BY <1>3, <2>1 DEF Deactivate, AssignTaxi, tables, history
    <2>2. ASSUME NEW d \in Drivers, UnassignTaxi(d, o)
          PROVE  Q
        BY <1>3, <2>2 DEF UnassignTaxi, history
    <2>3. QED BY <1>5, <1>6, <1>10, <2>1, <2>2 DEF DriverRequest, AssignmentRequest
<1>11. CASE BotUpdate
    BY <1>3, <1>11 DEF BotUpdate, StartLookup, StartWithToken, tables, history
<1>12. ASSUME NEW c \in Callers, Statement(c)
       PROVE  Q
    <2>1. CASE CreateAssignment(c) \/ LookupLinked(c) \/ IssueJWT(c) \/ Fail(c)
        BY <1>3, <2>1 DEF CreateAssignment, LookupLinked, IssueJWT, Fail, tables, history
    <2>2. QED BY <1>7, <1>8, <1>9, <1>12, <2>1 DEF Statement
<1>13. CASE Restart \/ (\E t \in Tokens : ExpireToken(t)) \/ UNCHANGED vars
    BY <1>3, <1>13 DEF Restart, ExpireToken, vars, tables, history
<1>14. QED BY <1>1, <1>10, <1>11, <1>12, <1>13 DEF Next

\* Claims come from a row, and the row's account from a link.
LEMMA ClaimsStep ==
    Typed /\ RowsLinked /\ ClaimsLinked /\ [Next]_vars => ClaimsLinked'
<1>1. SUFFICES ASSUME Typed, RowsLinked, ClaimsLinked, [Next]_vars PROVE ClaimsLinked'
    OBVIOUS
<1>2. TypeOK
    BY <1>1 DEF Typed
<1>3. \A a, d : WasLinked(a, d) => WasLinked(a, d)'
    BY <1>1, RowsStep DEF WasLinked
<1>4. \A a \in Accounts : \A d \in FoundActive(a) : d \in Drivers /\ WasLinked(a, d)
    BY <1>1, <1>2, NoneAssumption DEF FoundActive, Inserted, TypeOK, RowsLinked
<1> DEFINE Q == ClaimsLinked'
<1>q. SUFFICES Q
    OBVIOUS
<1>5. ASSUME NEW k \in Callers, NEW v,
             v.at = "issue" => WasLinked(v.account, v.driver),
             call' = [call EXCEPT ![k] = v], UNCHANGED session
      PROVE  Q
    <2>1. \A c \in Callers : call'[c] = IF c = k THEN v ELSE call[c]
        BY <1>2, <1>5 DEF TypeOK
    <2>2. QED BY <1>1, <1>3, <1>5, <2>1 DEF ClaimsLinked
<1>6. CASE UNCHANGED <<call, session>>
    BY <1>1, <1>3, <1>6 DEF ClaimsLinked
<1>7. CASE \E k \in Callers : call' = [call EXCEPT ![k] = Idle] /\ UNCHANGED session
    BY <1>5, <1>7 DEF Idle
<1>8. ASSUME NEW c \in Callers, IssueJWT(c)
      PROVE  Q
    <2>1. WasLinked(call[c].account, call[c].driver) /\ call[c].account \in Accounts
        BY <1>1, <1>2, <1>8, CallFields DEF IssueJWT, ClaimsLinked
    <2>2. \A a \in Accounts : session'[a] = IF a = call[c].account THEN call[c].driver
                                            ELSE session[a]
        BY <1>2, <1>8 DEF IssueJWT, TypeOK
    <2>3. \A k \in Callers : call'[k] = IF k = c THEN Idle ELSE call[k]
        BY <1>2, <1>8 DEF IssueJWT, TypeOK
    <2>4. QED BY <1>1, <1>3, <2>1, <2>2, <2>3 DEF ClaimsLinked, Idle
<1>9. ASSUME NEW c \in Callers, NEW a \in Accounts, StartLookup(c, a)
      PROVE  Q
    <2>1. PICK d \in FoundActive(a) :
              call' = [call EXCEPT ![c] = [at |-> "issue", account |-> a, driver |-> d]]
        BY <1>9 DEF StartLookup
    <2>2. QED BY <1>4, <1>5, <1>9, <2>1 DEF StartLookup
<1>10. ASSUME NEW c \in Callers, LookupLinked(c)
       PROVE  Q
    <2>1. call[c].account \in Accounts
        BY <1>2, <1>10, CallFields DEF LookupLinked
    <2>2. ASSUME NEW d \in FoundActive(call[c].account),
                 call' = [call EXCEPT ![c] =
                             [at |-> "issue", account |-> call[c].account, driver |-> d]]
          PROVE  Q
        BY <1>4, <1>5, <1>10, <2>1, <2>2 DEF LookupLinked
    <2>3. QED BY <1>7, <1>10, <2>2 DEF LookupLinked
<1>11. CASE Restart
    BY <1>1, <1>2, <1>3, <1>11 DEF Restart, ClaimsLinked, Idle, TypeOK
<1>12. ASSUME NEW c \in Callers, SetTelegramID(c)
       PROVE  Q
    <2>1. CASE call' = [call EXCEPT ![c].at = "mark"]
        <3>1. call[c] \in [at: {"link", "mark"}, account: Accounts, token: Tokens,
                           driver: Drivers]
            BY <1>2, <1>12, CallFields DEF SetTelegramID
        <3>2. [call[c] EXCEPT !.at = "mark"].at # "issue"
            BY <3>1
        <3>3. call' = [call EXCEPT ![c] = [call[c] EXCEPT !.at = "mark"]]
            BY <1>2, <2>1 DEF TypeOK
        <3>4. QED BY <1>5, <1>12, <3>2, <3>3 DEF SetTelegramID
    <2>2. QED BY <1>7, <1>12, <2>1 DEF SetTelegramID
<1>13. ASSUME NEW c \in Callers, NEW a \in Accounts, NEW t \in Tokens, StartWithToken(c, a, t)
       PROVE  Q
    BY <1>5, <1>13 DEF StartWithToken
<1>14. ASSUME NEW c \in Callers, NEW d \in Drivers, NEW o \in Owners,
              Deactivate(c, d, o) \/ \E x \in Taxis : AssignTaxi(c, d, o, x)
       PROVE  Q
    BY <1>5, <1>14 DEF Deactivate, AssignTaxi
<1>15. ASSUME NEW c \in Callers, MarkLinkTokenUsed(c)
       PROVE  Q
    BY <1>5, <1>15 DEF MarkLinkTokenUsed
<1> HIDE DEF Q
<1>16. ASSUME NEW o \in Owners, DriverRequest(o) \/ AssignmentRequest(o)
       PROVE  Q
    <2>1. ASSUME NEW d \in Drivers, CreateDriver(d, o) \/ UnassignTaxi(d, o)
                                    \/ \E t \in Tokens : GenerateLinkToken(d, o, t)
          PROVE  Q
        BY <1>6, <2>1 DEF CreateDriver, UnassignTaxi, GenerateLinkToken
    <2>2. QED BY <1>14, <1>16, <2>1 DEF DriverRequest, AssignmentRequest
<1>17. CASE BotUpdate
    BY <1>9, <1>13, <1>17 DEF BotUpdate
<1>18. ASSUME NEW c \in Callers, Statement(c)
       PROVE  Q
    <2>1. CASE SetActive(c) \/ CreateAssignment(c) \/ Fail(c)
        BY <1>7, <2>1 DEF SetActive, CreateAssignment, Fail
    <2>2. QED BY <1>8, <1>10, <1>12, <1>15, <1>18, <2>1 DEF Statement
<1>19. CASE (\E t \in Tokens : ExpireToken(t)) \/ UNCHANGED vars
    BY <1>6, <1>19 DEF ExpireToken, vars
<1>20. QED BY <1>1, <1>11, <1>16, <1>17, <1>18, <1>19 DEF Next

\* An account that is logged in as a driver and is not the driver's account
\* was linked to the driver, and another account has been linked since.
THEOREM ClaimsAreFromLinks == Spec => []SessionIsLinkedOrReplaced
<1>1. Init => RowsLinked /\ ClaimsLinked
    BY DEF Init, RowsLinked, ClaimsLinked, WasLinked, Idle
<1>2. Typed /\ RowsLinked /\ ClaimsLinked => SessionIsLinkedOrReplaced
    <2>1. SUFFICES ASSUME Typed, RowsLinked, ClaimsLinked, NEW a \in Accounts,
                          session[a] # None
                   PROVE  /\ WasLinked(a, session[a])
                          /\ WasLinked(drivers[session[a]].telegram, session[a])
        BY DEF SessionIsLinkedOrReplaced, WasLinked
    <2>2. session[a] \in Drivers
        BY <2>1 DEF Typed, TypeOK
    <2>3. QED BY <2>1, <2>2 DEF RowsLinked, ClaimsLinked
<1>3. QED BY InitTyped, StepTyped, RowsStep, ClaimsStep, <1>1, <1>2, PTL DEF Spec

=============================================================================
