---------------------------- MODULE PortalProofs ----------------------------
(***************************************************************************)
(* Proofs about Portal, for any number of emails, phones, sign-ups, logins *)
(* and faults.                                                             *)
(*                                                                         *)
(* The inductive invariant says, beside the properties themselves, what    *)
(* each step of a registration has left behind (CallsAccounted), that the  *)
(* memory keeps an account under its own email and phone (Keyed), that the *)
(* database has one row per email, and that the ids of sessions and of     *)
(* profiles are apart.                                                     *)
(***************************************************************************)
EXTENDS Portal, TLAPS

SessionId == ({"user"} \X Nat) \cup ({"drawn"} \X Invented)
SessionType == [id : SessionId, account : Account, new : BOOLEAN]
Profile == [id : {"driver"} \X Nat, email : Email, phone : Phone,
            status : {"OFFLINE", "AVAILABLE"}]

\* The types, with those of sessions and profiles, and the fields of a form beyond its
\* first step.
Typed ==
  /\ TypeOK
  /\ session \in [Role -> SessionType \cup {None}]
  /\ profiles \subseteq Profile
  /\ form.step > 1 => form.email \in Email /\ form.phone \in Phone

-----------------------------------------------------------------------------

\* An account made by a sign-up is an account.
LEMMA AccountType ==
  ASSUME NEW e \in Email, NEW p \in Phone, signups \in Nat, signups < MaxSignups
  PROVE  [id |-> signups + 1, email |-> e, phone |-> p] \in Account
BY PortalAssumption DEF Account

\* The ids of accounts and of the browser are ids of sessions.
LEMMA IdTypes ==
  /\ \A a \in Account : UserId(a) \in SessionId /\ ProfileId(a) \in {"driver"} \X Nat
  /\ \A v \in Invented : DrawnId(v) \in SessionId
BY PortalAssumption DEF Account, UserId, ProfileId, DrawnId, SessionId

\* No status call of a cockpit names a profile.
LEMMA StatusUnknown ==
  ASSUME profiles \subseteq Profile, NEW i \in SessionId, NEW s,
         UpdateDriverStatus(i, s)
  PROVE  profiles' = profiles
<1>1. ASSUME NEW p \in profiles PROVE p.id # i
  <2>1. p.id \in {"driver"} \X Nat
    BY <1>1 DEF Profile
  <2>2. p.id[1] = "driver" /\ i[1] # "driver"
    BY <2>1 DEF SessionId
  <2>. QED BY <2>2
<1>. QED BY <1>1 DEF UpdateDriverStatus

\* The disjuncts of a step.
LEMMA StepCases ==
  ASSUME [Next]_vars
  PROVE  \/ \E e \in Email, p \in Phone : handleSignup(e, p) \/ PersonalStep(e, p)
         \/ VehicleStep \/ Back \/ handleSubmit \/ Restart \/ ToggleOnline
         \/ \E c \in calls : \/ Reserve(c) \/ Insert(c) \/ Undo(c) \/ Registered(c)
                             \/ RegisterDriver(c) \/ AnswerLost(c) \/ Welcome(c)
         \/ \E c \in calls, v \in Invented : Onboarded(c, v)
         \/ \E r \in Role, a \in users : LoginByRow(r, a)
         \/ \E r \in Role, e \in Email : LoginByMemory(r, e)
         \/ \E r \in Role : SignOut(r)
         \/ UNCHANGED vars
BY DEF Next

-----------------------------------------------------------------------------
(* Types *)

CallType == [role : Role, account : Account,
             step : {"register", "insert", "undo", "answer", "profile", "profiled",
                     "welcome"}]

\* A call that goes on, or ends, leaves calls; an error leaves a form.
LEMMA GoesTyped ==
  ASSUME calls \subseteq CallType, NEW c \in calls,
         NEW s \in {"insert", "undo", "answer", "profile", "profiled"}, Goes(c, s)
  PROVE  calls' \subseteq CallType
<1>1. c \in CallType
  OBVIOUS
<1>2. [c EXCEPT !.step = s] \in CallType
  BY <1>1 DEF CallType
<1>. QED BY <1>2 DEF Goes

LEMMA ErrorTyped ==
  ASSUME Typed, NEW c \in calls, EndsInError(c)
  PROVE  /\ calls' \subseteq CallType
         /\ form' \in [step : 1 .. 3, email : Email \cup {None},
                       phone : Phone \cup {None}, busy : BOOLEAN]
         /\ form'.step > 1 => form'.email \in Email /\ form'.phone \in Phone
BY DEF Typed, TypeOK, EndsInError, CallType

\* The account of a call is an account, with an email and a phone.
LEMMA CallAccount ==
  ASSUME Typed, NEW c \in calls
  PROVE  c.account \in Account /\ c.account.email \in Email /\ c.account.phone \in Phone
         /\ c.role \in Role
BY DEF Typed, TypeOK, Account

\* Every step keeps the types.
LEMMA TypedStep == Typed /\ [Next]_vars => Typed'
<1> SUFFICES ASSUME Typed, [Next]_vars PROVE Typed'
  OBVIOUS
<1> USE PortalAssumption, IdTypes
<1> USE DEF Typed, TypeOK, memory, ghosts, bounds, Faulty
<1>1. ASSUME NEW e \in Email, NEW p \in Phone, handleSignup(e, p)
      PROVE  Typed'
  BY <1>1, AccountType DEF handleSignup, Asks, Role
<1>2. ASSUME NEW e \in Email, NEW p \in Phone, PersonalStep(e, p)
      PROVE  Typed'
  <2>1. form' = [step |-> 2, email |-> e, phone |-> p, busy |-> form.busy]
    BY <1>2 DEF PersonalStep
  <2>2. UNCHANGED <<users, memory, profiles, session, calls, online, ghosts, bounds>>
    BY <1>2 DEF PersonalStep
  <2>. QED BY <2>1, <2>2
<1>3. CASE VehicleStep
  BY <1>3 DEF VehicleStep
<1>4. CASE Back
  BY <1>4 DEF Back
<1>5. CASE handleSubmit
  <2>1. form.email \in Email /\ form.phone \in Phone
    BY <1>5 DEF handleSubmit
  <2>2. calls' \subseteq CallType /\ signups' \in 0 .. MaxSignups
    BY <1>5, <2>1, AccountType DEF handleSubmit, Asks, Role, CallType
  <2>3. form' \in [step : 1 .. 3, email : Email \cup {None}, phone : Phone \cup {None},
                  busy : BOOLEAN]
        /\ form'.email \in Email /\ form'.phone \in Phone
    BY <1>5, <2>1 DEF handleSubmit
  <2>4. UNCHANGED <<users, memory, profiles, session, online, ghosts, logins, faults>>
    BY <1>5 DEF handleSubmit
  <2>. QED BY <2>2, <2>3, <2>4 DEF CallType
<1>6. CASE Restart
  <2>1. /\ form' \in [step : 1 .. 3, email : Email \cup {None}, phone : Phone \cup {None},
                     busy : BOOLEAN]
        /\ form'.step > 1 => form'.email \in Email /\ form'.phone \in Phone
    BY <1>6 DEF Restart
  <2>2. calls' \subseteq calls /\ faults' \in Nat
    BY <1>6 DEF Restart
  <2>3. byEmail' \in [Email -> Account \cup {None}]
        /\ byPhone' \in [Phone -> Account \cup {None}]
    BY <1>6 DEF Restart
  <2>4. UNCHANGED <<users, profiles, session, online, ghosts, signups, logins>>
    BY <1>6 DEF Restart
  <2>. QED BY <2>1, <2>2, <2>3, <2>4
<1>7. CASE ToggleOnline
  <2>1. session["DRIVER"] \in SessionType
    BY <1>7 DEF ToggleOnline, Role
  <2>2. profiles' = profiles
    BY <1>7, <2>1, StatusUnknown DEF ToggleOnline, SessionType
  <2>. QED BY <1>7, <2>2 DEF ToggleOnline
<1>8. ASSUME NEW c \in calls, Reserve(c)
      PROVE  Typed'
  <2>1. calls' \subseteq CallType
    BY <1>8, GoesTyped, ErrorTyped DEF Reserve, CallType
  <2>2. form' = form \/ EndsInError(c)
    BY <1>8 DEF Reserve
  <2>3. byEmail' \in [Email -> Account \cup {None}]
    BY <1>8, CallAccount DEF Reserve
  <2>4. byPhone' \in [Phone -> Account \cup {None}]
    BY <1>8, CallAccount DEF Reserve
  <2>5. UNCHANGED <<users, profiles, session, online, ghosts, bounds>>
    BY <1>8 DEF Reserve
  <2>. QED BY <2>1, <2>2, <2>3, <2>4, <2>5, ErrorTyped DEF CallType
<1>9. ASSUME NEW c \in calls, Insert(c)
      PROVE  Typed'
  <2>1. calls' \subseteq CallType
    BY <1>9, GoesTyped DEF Insert, CallType
  <2>2. users' \subseteq Account /\ unsaved' \subseteq Account
    BY <1>9, CallAccount DEF Insert
  <2>3. faults' \in Nat
    BY <1>9 DEF Insert
  <2>4. UNCHANGED <<memory, profiles, session, form, online, early, signups, logins>>
    BY <1>9 DEF Insert
  <2>. QED BY <2>1, <2>2, <2>3, <2>4 DEF CallType
<1>10. ASSUME NEW c \in calls, Undo(c)
       PROVE  Typed'
  <2>1. EndsInError(c)
    BY <1>10 DEF Undo
  <2>2. byEmail' \in [Email -> Account \cup {None}]
        /\ byPhone' \in [Phone -> Account \cup {None}]
    BY <1>10 DEF Undo
  <2>3. UNCHANGED <<users, profiles, session, online, ghosts, bounds>>
    BY <1>10 DEF Undo
  <2>. QED BY <2>1, <2>2, <2>3, ErrorTyped DEF CallType
<1>11. ASSUME NEW c \in calls, Registered(c)
       PROVE  Typed'
  <2>1. calls' \subseteq CallType
    BY <1>11, GoesTyped DEF Registered, CallType
  <2>2. session' \in [Role -> SessionType \cup {None}]
    <3>1. UserId(c.account) \in SessionId
      BY CallAccount
    <3>2. [id |-> UserId(c.account), account |-> c.account, new |-> TRUE] \in SessionType
      BY <3>1, CallAccount DEF SessionType
    <3>3. session' = session \/ session' = [session EXCEPT !["RIDER"] =
             [id |-> UserId(c.account), account |-> c.account, new |-> TRUE]]
      BY <1>11 DEF Registered, setStoredSession
    <3>. QED BY <3>2, <3>3
  <2>3. \A r \in Role : session'[r] # None => session'[r].account \in Account
    BY <2>2 DEF SessionType
  <2>4. UNCHANGED <<users, memory, profiles, form, online, ghosts, bounds>>
    BY <1>11 DEF Registered
  <2>. QED BY <2>1, <2>2, <2>3, <2>4 DEF CallType
<1>12. ASSUME NEW c \in calls, RegisterDriver(c)
       PROVE  Typed'
  <2>1. calls' \subseteq CallType
    BY <1>12, GoesTyped, ErrorTyped DEF RegisterDriver, CallType
  <2>2. form' = form \/ EndsInError(c)
    BY <1>12 DEF RegisterDriver
  <2>3. profiles' \subseteq Profile
    BY <1>12, CallAccount DEF RegisterDriver, Profile
  <2>4. \A p \in profiles' : p.email \in Email /\ p.phone \in Phone
                             /\ p.status \in {"OFFLINE", "AVAILABLE"}
    BY <2>3 DEF Profile
  <2>5. UNCHANGED <<users, memory, session, online, ghosts, bounds>>
    BY <1>12 DEF RegisterDriver
  <2>. QED BY <2>1, <2>2, <2>3, <2>4, <2>5, ErrorTyped DEF CallType
<1>13. ASSUME NEW c \in calls, AnswerLost(c)
       PROVE  Typed'
  <2>1. EndsInError(c)
    BY <1>13 DEF AnswerLost
  <2>2. UNCHANGED <<users, memory, profiles, session, online, ghosts, signups, logins>>
        /\ faults' \in Nat
    BY <1>13 DEF AnswerLost
  <2>. QED BY <2>1, <2>2, ErrorTyped DEF CallType
<1>14. ASSUME NEW c \in calls, Welcome(c)
       PROVE  Typed'
  <2>1. profiles' = profiles /\ online' \in BOOLEAN
    BY <1>14, StatusUnknown, CallAccount DEF Welcome, OpenCockpit
  <2>2. session' \in [Role -> SessionType \cup {None}]
    BY <1>14, CallAccount DEF Welcome, setStoredSession, SessionType
  <2>3. \A r \in Role : session'[r] # None => session'[r].account \in Account
    BY <2>2 DEF SessionType
  <2>4. UNCHANGED <<users, memory, form, ghosts, bounds>> /\ calls' \subseteq calls
    BY <1>14 DEF Welcome
  <2>. QED BY <2>1, <2>2, <2>3, <2>4
<1>15. ASSUME NEW c \in calls, NEW v \in Invented, Onboarded(c, v)
       PROVE  Typed'
  <2>1. profiles' = profiles /\ online' \in BOOLEAN
    BY <1>15, StatusUnknown DEF Onboarded, OpenCockpit
  <2>2. session' \in [Role -> SessionType \cup {None}]
    BY <1>15, CallAccount DEF Onboarded, setStoredSession, SessionType, Role
  <2>3. \A r \in Role : session'[r] # None => session'[r].account \in Account
    BY <2>2 DEF SessionType
  <2>4. UNCHANGED <<users, memory, ghosts, bounds>> /\ calls' \subseteq calls
        /\ form' = EmptyForm
    BY <1>15 DEF Onboarded
  <2>. QED BY <2>1, <2>2, <2>3, <2>4 DEF EmptyForm
<1>16. ASSUME NEW r \in Role, NEW a \in users, LoginByRow(r, a)
       PROVE  Typed'
  <2>1. a \in Account /\ a.email \in Email /\ a.phone \in Phone
    BY DEF Account
  <2>2. calls' \subseteq CallType
    BY <1>16, <2>1 DEF LoginByRow, Finds, CallType
  <2>3. byEmail' \in [Email -> Account \cup {None}]
        /\ byPhone' \in [Phone -> Account \cup {None}]
    BY <1>16, <2>1 DEF LoginByRow
  <2>4. early' \subseteq Account /\ logins' \in Nat
    BY <1>16, <2>1 DEF LoginByRow, Finds
  <2>5. UNCHANGED <<users, profiles, session, form, online, unsaved, signups, faults>>
    BY <1>16 DEF LoginByRow, Finds
  <2>. QED BY <2>2, <2>3, <2>4, <2>5 DEF CallType
<1>17. ASSUME NEW r \in Role, NEW e \in Email, LoginByMemory(r, e)
       PROVE  Typed'
  <2>1. byEmail[e] \in Account
    BY <1>17 DEF LoginByMemory, Finds
  <2>2. calls' \subseteq CallType
    BY <1>17, <2>1 DEF LoginByMemory, Finds, CallType
  <2>3. early' \subseteq Account /\ logins' \in Nat /\ faults' \in Nat
    BY <1>17, <2>1 DEF LoginByMemory, Finds
  <2>4. UNCHANGED <<users, profiles, session, form, online, unsaved, signups, memory>>
    BY <1>17 DEF LoginByMemory, Finds
  <2>. QED BY <2>2, <2>3, <2>4 DEF CallType
<1>18. ASSUME NEW r \in Role, SignOut(r)
       PROVE  Typed'
  BY <1>18 DEF SignOut
<1>19. CASE UNCHANGED vars
  BY <1>19 DEF vars
<1>. QED
  BY <1>1, <1>2, <1>3, <1>4, <1>5, <1>6, <1>7, <1>8, <1>9, <1>10, <1>11, <1>12, <1>13,
     <1>14, <1>15, <1>16, <1>17, <1>18, <1>19, StepCases

\* Rows, reservations, calls, sessions and forms keep their types: see TypeOK.
THEOREM TypeCorrect == Spec => []TypeOK
<1>1. Init => Typed
  BY PortalAssumption DEF Init, Typed, TypeOK, Role, EmptyForm
<1>2. Typed => TypeOK
  BY DEF Typed
<1>. QED
  BY <1>1, <1>2, TypedStep, PTL DEF Spec

-----------------------------------------------------------------------------
(* What the steps of a registration leave behind *)

HasProfile(a) == \E p \in profiles : p.email = a.email /\ p.phone = a.phone

\* The memory keeps an account under its own email and phone.
Keyed ==
  /\ \A e \in Email : byEmail[e] # None => byEmail[e].email = e
  /\ \A p \in Phone : byPhone[p] # None => byPhone[p].phone = p

\* A registration that is answered for has a row, unless its insert failed; a driver's
\* that reaches its end has a profile; a login's account has a row, or had none yet.
CallsAccounted ==
  \A c \in calls :
    /\ c.step \in {"answer", "profile", "profiled"} => c.account \in users \cup unsaved
    /\ c.step = "profiled" => HasProfile(c.account)
    /\ c.step = "welcome" => c.account \in users \cup early

OneRowPerEmail == \A u, w \in users : u.email = w.email => u = w

\* Only the driver service adds a profile, and none ever changes.
LEMMA ProfilesStep ==
  ASSUME Typed, [Next]_vars
  PROVE  \/ profiles' = profiles
         \/ \E c \in calls :
              /\ RegisterDriver(c)
              /\ profiles' = profiles \cup
                    {[id |-> ProfileId(c.account), email |-> c.account.email,
                      phone |-> c.account.phone, status |-> "OFFLINE"]}
<1>1. CASE ToggleOnline
  <2>1. session["DRIVER"].id \in SessionId
    BY <1>1 DEF ToggleOnline, Typed, Role, SessionType
  <2>. QED BY <1>1, <2>1, StatusUnknown DEF ToggleOnline, Typed
<1>2. ASSUME NEW c \in calls, Welcome(c)
      PROVE  profiles' = profiles
  BY <1>2, StatusUnknown, IdTypes, CallAccount DEF Welcome, OpenCockpit, Typed
<1>3. ASSUME NEW c \in calls, NEW v \in Invented, Onboarded(c, v)
      PROVE  profiles' = profiles
  BY <1>3, StatusUnknown, IdTypes DEF Onboarded, OpenCockpit, Typed
<1>. QED
  BY <1>1, <1>2, <1>3, StepCases
     DEF handleSignup, PersonalStep, VehicleStep, Back, handleSubmit, Restart, Reserve,
         Insert, Undo, Registered, RegisterDriver, AnswerLost, LoginByRow,
         LoginByMemory, Finds, SignOut, vars

\* Rows, accounts without one, and accounts found early are never taken back.
LEMMA RowsStay ==
  ASSUME Typed, [Next]_vars
  PROVE  users \subseteq users' /\ unsaved \subseteq unsaved' /\ early \subseteq early'
         /\ profiles \subseteq profiles'
<1>1. profiles \subseteq profiles'
  BY ProfilesStep
<1>. QED
  BY <1>1, StepCases
     DEF handleSignup, PersonalStep, VehicleStep, Back, handleSubmit, Restart, Reserve,
         Insert, Undo, Registered, RegisterDriver, AnswerLost, LoginByRow, Welcome,
         Onboarded, LoginByMemory, Finds, SignOut, ToggleOnline, ghosts, vars

LEMMA OneRowStep == Typed /\ OneRowPerEmail /\ [Next]_vars => OneRowPerEmail'
<1> SUFFICES ASSUME Typed, OneRowPerEmail, [Next]_vars PROVE OneRowPerEmail'
  OBVIOUS
<1>1. ASSUME NEW c \in calls, Insert(c)
      PROVE  OneRowPerEmail'
  BY <1>1 DEF Insert, Duplicate, OneRowPerEmail
<1>2. \/ users' = users
      \/ \E c \in calls : Insert(c)
  BY StepCases
     DEF handleSignup, PersonalStep, VehicleStep, Back, handleSubmit, Restart, Reserve,
         Undo, Registered, RegisterDriver, AnswerLost, LoginByRow, Welcome, Onboarded,
         LoginByMemory, Finds, SignOut, ToggleOnline, vars
<1>. QED BY <1>1, <1>2 DEF OneRowPerEmail

\* The memory changes only as these steps say.
LEMMA MemorySteps ==
  ASSUME [Next]_vars
  PROVE  \/ UNCHANGED memory
         \/ Restart
         \/ \E c \in calls : Reserve(c) \/ Undo(c)
         \/ \E r \in Role, a \in users : LoginByRow(r, a)
BY StepCases
   DEF handleSignup, PersonalStep, VehicleStep, Back, handleSubmit, Insert, Registered,
       RegisterDriver, AnswerLost, Welcome, Onboarded, LoginByMemory, SignOut,
       ToggleOnline, vars

LEMMA KeyedStep == Typed /\ Keyed /\ [Next]_vars => Keyed'
<1> SUFFICES ASSUME Typed, Keyed, [Next]_vars PROVE Keyed'
  OBVIOUS
<1> USE DEF Typed, TypeOK
<1>1. CASE UNCHANGED memory
  BY <1>1 DEF Keyed, memory
<1>2. CASE Restart
  BY <1>2 DEF Restart, Keyed
<1>3. ASSUME NEW c \in calls, Reserve(c)
      PROVE  Keyed'
  BY <1>3, CallAccount DEF Reserve, Keyed, memory
<1>4. ASSUME NEW c \in calls, Undo(c)
      PROVE  Keyed'
  BY <1>4, CallAccount DEF Undo, Keyed
<1>5. ASSUME NEW r \in Role, NEW a \in users, LoginByRow(r, a)
      PROVE  Keyed'
  BY <1>5 DEF LoginByRow, Keyed, Account
<1>. QED BY <1>1, <1>2, <1>3, <1>4, <1>5, MemorySteps

\* The calls change only as these steps say.
LEMMA CallsStep ==
  Typed /\ CallsAccounted /\ [Next]_vars => CallsAccounted'
<1> SUFFICES ASSUME Typed, CallsAccounted, [Next]_vars PROVE CallsAccounted'
  OBVIOUS
<1> DEFINE Fine(c) ==
      /\ c.step \in {"answer", "profile", "profiled"} => c.account \in users' \cup unsaved'
      /\ c.step = "profiled" =>
           \E p \in profiles' : p.email = c.account.email /\ p.phone = c.account.phone
      /\ c.step = "welcome" => c.account \in users' \cup early'
<1>0. \A c \in calls : Fine(c)
  BY RowsStay DEF CallsAccounted, HasProfile
<1>1. SUFFICES \A c \in calls' : Fine(c)
  BY DEF CallsAccounted, HasProfile
<1>2. ASSUME calls' \subseteq calls
      PROVE  \A c \in calls' : Fine(c)
  BY <1>0, <1>2
<1>3. ASSUME NEW c \in calls, NEW s, Goes(c, s),
             Fine([c EXCEPT !.step = s])
      PROVE  \A x \in calls' : Fine(x)
  BY <1>0, <1>3 DEF Goes
<1>4. ASSUME NEW c \in calls, NEW s
      PROVE  [c EXCEPT !.step = s].step = s /\ [c EXCEPT !.step = s].account = c.account
  BY DEF Typed, TypeOK
<1>5. ASSUME NEW r \in Role, NEW e \in Email, NEW p \in Phone, Asks(r, e, p)
      PROVE  \A c \in calls' : Fine(c)
  BY <1>0, <1>5 DEF Asks
<1>6. ASSUME NEW c \in calls, Reserve(c)
      PROVE  \A x \in calls' : Fine(x)
  BY <1>2, <1>3, <1>4, <1>6 DEF Reserve, EndsInError
<1>7. ASSUME NEW c \in calls, Insert(c)
      PROVE  \A x \in calls' : Fine(x)
  BY <1>3, <1>4, <1>7 DEF Insert
<1>8. ASSUME NEW c \in calls, Registered(c)
      PROVE  \A x \in calls' : Fine(x)
  <2>1. c.account \in users' \cup unsaved'
    BY <1>0, <1>8 DEF Registered
  <2>2. Fine([c EXCEPT !.step = "profile"])
    BY <2>1, <1>4
  <2>. QED BY <1>2, <1>3, <1>8, <2>2 DEF Registered
<1>9. ASSUME NEW c \in calls, RegisterDriver(c)
      PROVE  \A x \in calls' : Fine(x)
  <2>1. CASE EndsInError(c)
    BY <1>2, <2>1 DEF EndsInError
  <2>2. CASE Goes(c, "profiled") /\ ~ EndsInError(c)
    <3>1. c.account \in users' \cup unsaved'
      BY <1>0, <1>9 DEF RegisterDriver
    <3>2. \E p \in profiles' : p.email = c.account.email /\ p.phone = c.account.phone
      <4> DEFINE q == [id |-> ProfileId(c.account), email |-> c.account.email,
                       phone |-> c.account.phone, status |-> "OFFLINE"]
      <4>1. q \in profiles'
        BY <1>9, <2>2 DEF RegisterDriver
      <4>2. q.email = c.account.email /\ q.phone = c.account.phone
        OBVIOUS
      <4>. QED BY <4>1, <4>2
    <3>3. Fine([c EXCEPT !.step = "profiled"])
      BY <3>1, <3>2, <1>4
    <3>. QED BY <1>3, <2>2, <3>3
  <2>. QED BY <1>9, <2>1, <2>2 DEF RegisterDriver
<1>10. ASSUME NEW r, NEW a, Finds(r, a)
       PROVE  \A x \in calls' : Fine(x)
  BY <1>0, <1>10 DEF Finds
<1>11. CASE handleSubmit
  BY <1>11, <1>5 DEF handleSubmit, Typed, Role
<1>. QED
  BY <1>2, <1>5, <1>6, <1>7, <1>8, <1>9, <1>10, <1>11, StepCases
     DEF handleSignup, PersonalStep, VehicleStep, Back, Restart, Undo, AnswerLost,
         EndsInError, Welcome, Onboarded, LoginByRow, LoginByMemory, SignOut,
         ToggleOnline, Role, vars

\* The switch and the cockpit never find their driver's profile.
LEMMA OfflineStep ==
  Typed /\ ProfilesStayOffline /\ [Next]_vars => ProfilesStayOffline'
BY ProfilesStep DEF ProfilesStayOffline

\* A reservation that leaves its row's call leaves the row, or is taken back.
LEMMA MemoryStep ==
  Typed /\ Keyed /\ MemoryAgrees /\ [Next]_vars => MemoryAgrees'
<1> SUFFICES ASSUME Typed, Keyed, MemoryAgrees, [Next]_vars PROVE MemoryAgrees'
  OBVIOUS
<1> DEFINE Waits(a) == \E c \in calls : c.account = a /\ c.step \in {"insert", "undo"}
           WaitsNext(a) == \E c \in calls' : c.account = a /\ c.step \in {"insert", "undo"}
           Known(a) == a = None \/ a \in users' \cup unsaved' \/ WaitsNext(a)
<1> SUFFICES /\ \A e \in Email : Known(byEmail'[e])
             /\ \A p \in Phone : Known(byPhone'[p])
  BY DEF MemoryAgrees
<1>1. \A e \in Email : byEmail[e] = None \/ byEmail[e] \in users' \cup unsaved'
                       \/ Waits(byEmail[e])
  BY RowsStay DEF MemoryAgrees
<1>2. \A p \in Phone : byPhone[p] = None \/ byPhone[p] \in users' \cup unsaved'
                       \/ Waits(byPhone[p])
  BY RowsStay DEF MemoryAgrees
<1>3. ASSUME NEW c \in calls, NEW s \in {"insert", "undo"}, Goes(c, s)
      PROVE  WaitsNext(c.account)
  <2> DEFINE n == [c EXCEPT !.step = s]
  <2>1. n \in calls'
    BY <1>3 DEF Goes
  <2>2. n.step = s /\ n.account = c.account
    BY DEF Typed, TypeOK
  <2> HIDE DEF n
  <2>. QED BY <2>1, <2>2
<1>4. CASE Restart
  BY <1>4 DEF Restart
<1>5. ASSUME NEW c \in calls, Undo(c)
      PROVE  /\ \A e \in Email : Known(byEmail'[e])
             /\ \A p \in Phone : Known(byPhone'[p])
  <2>1. \A a : Waits(a) => WaitsNext(a) \/ a = c.account
    BY <1>5 DEF Undo, EndsInError
  <2>2. ASSUME NEW e \in Email, byEmail'[e] # None
        PROVE  byEmail'[e] = byEmail[e] /\ byEmail[e] # c.account
    BY <1>5, <2>2, CallAccount DEF Undo, Keyed, Typed, TypeOK
  <2>3. ASSUME NEW p \in Phone, byPhone'[p] # None
        PROVE  byPhone'[p] = byPhone[p] /\ byPhone[p] # c.account
    BY <1>5, <2>3, CallAccount DEF Undo, Keyed, Typed, TypeOK
  <2>. QED BY <1>1, <1>2, <2>1, <2>2, <2>3
<1>6. ASSUME NEW c \in calls, Reserve(c)
      PROVE  /\ \A e \in Email : Known(byEmail'[e])
             /\ \A p \in Phone : Known(byPhone'[p])
  <2>1. \A a : Waits(a) => WaitsNext(a)
    BY <1>6 DEF Reserve, Goes, EndsInError
  <2>2. CASE UNCHANGED memory
    BY <1>1, <1>2, <2>1, <2>2 DEF memory
  <2>3. CASE /\ byEmail' = [byEmail EXCEPT ![c.account.email] = c.account]
             /\ byPhone' = [byPhone EXCEPT ![c.account.phone] = c.account]
             /\ Goes(c, "insert")
    <3>1. WaitsNext(c.account)
      BY <1>3, <2>3
    <3>2. \A e \in Email : byEmail'[e] \in {byEmail[e], c.account}
      BY <2>3 DEF Typed, TypeOK
    <3>3. \A p \in Phone : byPhone'[p] \in {byPhone[p], c.account}
      BY <2>3 DEF Typed, TypeOK
    <3>. QED BY <1>1, <1>2, <2>1, <3>1, <3>2, <3>3
  <2>. QED BY <1>6, <2>2, <2>3 DEF Reserve
<1>7. ASSUME NEW r \in Role, NEW a \in users, LoginByRow(r, a)
      PROVE  /\ \A e \in Email : Known(byEmail'[e])
             /\ \A p \in Phone : Known(byPhone'[p])
  <2>1. \A x : Waits(x) => WaitsNext(x)
    BY <1>7 DEF LoginByRow, Finds
  <2>2. \A e \in Email : byEmail'[e] \in {byEmail[e], a}
    BY <1>7 DEF LoginByRow, Typed, TypeOK
  <2>3. \A p \in Phone : byPhone'[p] \in {byPhone[p], a}
    BY <1>7 DEF LoginByRow, Typed, TypeOK
  <2>4. a \in users'
    BY RowsStay
  <2>. QED BY <1>1, <1>2, <2>1, <2>2, <2>3, <2>4
<1>8. CASE UNCHANGED memory
  <2>1. ASSUME NEW a, Waits(a)
        PROVE  WaitsNext(a) \/ a \in users' \cup unsaved' \/ Restart
               \/ \E c \in calls : Undo(c)
    <3>1. ASSUME NEW c \in calls, Insert(c)
          PROVE  \A x : Waits(x) => WaitsNext(x) \/ x \in users' \cup unsaved'
      <4>1. \A x \in calls : x \in calls' \/ x = c
        BY <3>1 DEF Insert, Goes
      <4>2. c.account \in users' \cup unsaved' \/ Goes(c, "undo")
        BY <3>1 DEF Insert
      <4>3. Goes(c, "undo") => WaitsNext(c.account)
        BY <1>3
      <4>. QED BY <4>1, <4>2, <4>3
    <3>2. ASSUME NEW c \in calls, calls \ {c} \subseteq calls',
                 c.step \notin {"insert", "undo"}
          PROVE  \A x : Waits(x) => WaitsNext(x)
      BY <3>2
    <3>3. ASSUME NEW c \in calls, Reserve(c) \/ Registered(c) \/ RegisterDriver(c)
                                 \/ AnswerLost(c) \/ Welcome(c)
          PROVE  \A x : Waits(x) => WaitsNext(x)
      BY <3>2, <3>3 DEF Reserve, Registered, RegisterDriver, AnswerLost, Welcome,
                        Goes, EndsInError
    <3>4. ASSUME NEW c \in calls, NEW v \in Invented, Onboarded(c, v)
          PROVE  \A x : Waits(x) => WaitsNext(x)
      BY <3>2, <3>4 DEF Onboarded
    <3>5. ASSUME calls \subseteq calls'
          PROVE  \A x : Waits(x) => WaitsNext(x)
      BY <3>5
    <3>. QED
      BY <2>1, <3>1, <3>3, <3>4, <3>5, StepCases
         DEF handleSignup, PersonalStep, VehicleStep, Back, handleSubmit, Asks, Finds,
             LoginByRow, LoginByMemory, SignOut, ToggleOnline, vars
  <2>2. (\A e \in Email : Known(byEmail'[e])) \/ Restart \/ \E c \in calls : Undo(c)
    BY <1>1, <1>8, <2>1 DEF memory
  <2>3. (\A p \in Phone : Known(byPhone'[p])) \/ Restart \/ \E c \in calls : Undo(c)
    BY <1>2, <1>8, <2>1 DEF memory
  <2>. QED BY <1>4, <1>5, <2>2, <2>3
<1>. QED BY <1>4, <1>5, <1>6, <1>7, <1>8, MemorySteps

\* A session is given for an account a call has accounted for.
LEMMA SessionsStep ==
  Typed /\ CallsAccounted /\ SessionsAccounted /\ [Next]_vars => SessionsAccounted'
<1> SUFFICES ASSUME Typed, CallsAccounted, SessionsAccounted, [Next]_vars
             PROVE  SessionsAccounted'
  OBVIOUS
<1> DEFINE Good(x, r) ==
      /\ x.account \in users' \cup unsaved' \cup early'
      /\ r = "DRIVER" /\ x.new =>
           \E p \in profiles' : p.email = x.account.email /\ p.phone = x.account.phone
<1>1. ASSUME NEW r \in Role, session[r] # None
      PROVE  Good(session[r], r)
  BY <1>1, RowsStay DEF SessionsAccounted
<1>2. ASSUME NEW r \in Role, NEW id, NEW a, NEW n, setStoredSession(r, id, a, n),
             Good([id |-> id, account |-> a, new |-> n], r)
      PROVE  SessionsAccounted'
  BY <1>1, <1>2 DEF setStoredSession, SessionsAccounted, Typed
<1>3. ASSUME NEW c \in calls, Registered(c)
      PROVE  SessionsAccounted'
  <2>1. c.account \in users' \cup unsaved'
    BY <1>3, RowsStay DEF Registered, CallsAccounted
  <2>2. session' = session \/ setStoredSession("RIDER", UserId(c.account), c.account, TRUE)
    BY <1>3 DEF Registered
  <2>. QED BY <1>1, <1>2, <2>1, <2>2 DEF Role, SessionsAccounted
<1>4. ASSUME NEW c \in calls, NEW v \in Invented, Onboarded(c, v)
      PROVE  SessionsAccounted'
  <2>1. c.account \in users' \cup unsaved'
    BY <1>4, RowsStay DEF Onboarded, CallsAccounted
  <2>2. \E p \in profiles' : p.email = c.account.email /\ p.phone = c.account.phone
    BY <1>4, RowsStay DEF Onboarded, CallsAccounted, HasProfile
  <2>3. setStoredSession("DRIVER", DrawnId(v), c.account, TRUE)
    BY <1>4 DEF Onboarded
  <2>. QED BY <1>2, <2>1, <2>2, <2>3 DEF Role
<1>5. ASSUME NEW c \in calls, Welcome(c)
      PROVE  SessionsAccounted'
  <2>1. c.account \in users' \cup early'
    BY <1>5, RowsStay DEF Welcome, CallsAccounted
  <2>2. setStoredSession(c.role, UserId(c.account), c.account, FALSE)
    BY <1>5 DEF Welcome
  <2>. QED BY <1>2, <2>1, <2>2, CallAccount
<1>6. ASSUME NEW r \in Role, SignOut(r)
      PROVE  SessionsAccounted'
  BY <1>1, <1>6 DEF SignOut, SessionsAccounted, Typed
<1>7. CASE session' = session
  BY <1>1, <1>7 DEF SessionsAccounted
<1>. QED
  BY <1>3, <1>4, <1>5, <1>6, <1>7, StepCases
     DEF handleSignup, PersonalStep, VehicleStep, Back, handleSubmit, Restart, Reserve,
         Insert, Undo, RegisterDriver, AnswerLost, LoginByRow, LoginByMemory, Finds,
         ToggleOnline, vars

-----------------------------------------------------------------------------
(* The properties *)

Safe ==
  /\ Typed /\ Keyed /\ CallsAccounted /\ OneRowPerEmail
  /\ MemoryAgrees /\ SessionsAccounted /\ ProfilesStayOffline

LEMMA SafeAlways == Spec => []Safe
<1>1. Init => Safe
  <2>1. Init => Typed
    BY PortalAssumption DEF Init, Typed, TypeOK, Role, EmptyForm
  <2>. QED
    BY <2>1 DEF Init, Safe, Keyed, CallsAccounted, OneRowPerEmail, MemoryAgrees,
                SessionsAccounted, ProfilesStayOffline
<1>2. Safe /\ [Next]_vars => Safe'
  BY TypedStep, KeyedStep, CallsStep, OneRowStep, MemoryStep, SessionsStep, OfflineStep
     DEF Safe
<1>. QED BY <1>1, <1>2, PTL DEF Spec

\* A session is of an account with a row, one whose insert failed, or one found before its
\* row, and the session of a driver who has just signed up has a profile: see
\* SessionsAccounted.
THEOREM SessionsCorrect == Spec => []SessionsAccounted
<1>1. Safe => SessionsAccounted
  BY DEF Safe
<1>. QED BY <1>1, SafeAlways, PTL

\* The memory of the auth service bars no email and no phone for nobody: see MemoryAgrees.
THEOREM MemoryCorrect == Spec => []MemoryAgrees
<1>1. Safe => MemoryAgrees
  BY DEF Safe
<1>. QED BY <1>1, SafeAlways, PTL

\* No driver who signs up ever becomes available: see ProfilesStayOffline.
THEOREM NobodyAvailable == Spec => []ProfilesStayOffline
<1>1. Safe => ProfilesStayOffline
  BY DEF Safe
<1>. QED BY <1>1, SafeAlways, PTL

\* The action of HalfStaysHalf.
HalfStays ==
  \A a \in users :
     /\ \A p \in profiles : p.email # a.email
     /\ \A c \in calls : c.account = a => c.step = "welcome"
     => \A p \in profiles' : p.email = a.email => \E x \in unsaved : p.id = ProfileId(x)

\* An account whose sign-up ended without a profile never gets one: see HalfStaysHalf.  The
\* profile of a step is that of the account its call registered, and no other account
\* with a row has its email.
THEOREM HalfForGood == Spec => HalfStaysHalf
<1>1. Safe /\ [Next]_vars => [HalfStays]_vars
  <2> SUFFICES ASSUME Safe, [Next]_vars,
                      NEW a \in users,
                      \A p \in profiles : p.email # a.email,
                      \A c \in calls : c.account = a => c.step = "welcome",
                      NEW p \in profiles', p.email = a.email
               PROVE  \E x \in unsaved : p.id = ProfileId(x)
    BY DEF HalfStays
  <2>1. PICK c \in calls :
          /\ RegisterDriver(c)
          /\ p = [id |-> ProfileId(c.account), email |-> c.account.email,
                  phone |-> c.account.phone, status |-> "OFFLINE"]
    BY ProfilesStep DEF Safe
  <2>2. c.account \in users \cup unsaved /\ c.account # a
    BY <2>1 DEF RegisterDriver, Safe, CallsAccounted
  <2>3. c.account \in unsaved
    BY <2>1, <2>2 DEF Safe, OneRowPerEmail
  <2>. QED BY <2>1, <2>3
<1>2. HalfStaysHalf <=> [][HalfStays]_vars
  BY DEF HalfStaysHalf, HalfStays
<1>. QED BY <1>1, <1>2, SafeAlways, PTL DEF Spec
===============================================================================
