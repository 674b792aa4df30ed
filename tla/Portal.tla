-------------------------------- MODULE Portal --------------------------------
(***************************************************************************)
(* Signing up and in: the login and sign-up pages, the API client that     *)
(* makes a browser session of the answers, the auth service that keeps an  *)
(* account in its memory and in its database, and the driver service's     *)
(* profiles.                                                               *)
(*                                                                         *)
(* A registration reserves its email and phone in the auth service's       *)
(* memory under a lock, and inserts its row after the lock is released.  A *)
(* duplicate row takes the reservation back; any other database error is   *)
(* ignored, and the account lives in memory until the service restarts.    *)
(* A driver's sign-up then creates a profile at the driver service; no     *)
(* step takes the account back when this one fails.                        *)
(*                                                                         *)
(* A login finds the row, or what the memory holds: its password is taken  *)
(* to be right, since a wrong one changes nothing.                         *)
(***************************************************************************)
EXTENDS Integers

CONSTANTS
  Email, Phone,
  Invented,      \* the driver ids a browser may draw: four digits of its clock
  None,          \* nothing in a field
  MaxSignups,    \* bound: registrations asked for
  MaxLogins,     \* bound: logins that find an account
  MaxFaults      \* bound: database errors, lost answers and restarts

ASSUME PortalAssumption ==
  /\ MaxSignups \in Nat /\ MaxLogins \in Nat /\ MaxFaults \in Nat
  /\ None \notin [id : Nat, email : Email, phone : Phone]
  /\ None \notin Email /\ None \notin Phone

VARIABLES
  users,     \* the rows of the auth service's database
  byEmail, byPhone,   \* its memory
  profiles,  \* the rows of the driver service's database
  session,   \* the browser's session of each role
  calls,     \* registrations and logins under way
  form,      \* the driver's sign-up page
  online,    \* the switch of the driver's cockpit
  unsaved,   \* ghost: accounts answered for without a row
  early,     \* ghost: accounts a login found before their row
  signups, logins, faults

memory == <<byEmail, byPhone>>
ghosts == <<unsaved, early>>
bounds == <<signups, logins, faults>>
vars == <<users, memory, profiles, session, calls, form, online, ghosts, bounds>>

Role == {"RIDER", "DRIVER"}
Account == [id : 1 .. MaxSignups, email : Email, phone : Phone]

\* The ids of the auth service, of the driver service and of a browser's clock.
UserId(a) == <<"user", a.id>>
ProfileId(a) == <<"driver", a.id>>
DrawnId(v) == <<"drawn", v>>

EmptyForm == [step |-> 1, email |-> None, phone |-> None, busy |-> FALSE]

Faulty == faults < MaxFaults /\ faults' = faults + 1

-----------------------------------------------------------------------------
(* The browser's sessions *)

Init ==
  /\ users = {} /\ profiles = {} /\ calls = {}
  /\ byEmail = [e \in Email |-> None] /\ byPhone = [p \in Phone |-> None]
  /\ session = [r \in Role |-> None]
  /\ form = EmptyForm /\ online = TRUE
  /\ unsaved = {} /\ early = {}
  /\ signups = 0 /\ logins = 0 /\ faults = 0

setStoredSession(r, id, a, new) ==
  session' = [session EXCEPT ![r] = [id |-> id, account |-> a, new |-> new]]

\* The driver service sets the status of the profile with this id; it answers an
\* unknown one with an error, which the page logs.
UpdateDriverStatus(id, s) ==
  profiles' = {IF p.id = id THEN [p EXCEPT !.status = s] ELSE p : p \in profiles}

\* The cockpit opens online, and says so.
OpenCockpit(id) == online' = TRUE /\ UpdateDriverStatus(id, "AVAILABLE")

ToggleOnline ==
  /\ session["DRIVER"] # None
  /\ online' = ~ online
  /\ UpdateDriverStatus(session["DRIVER"].id, IF online THEN "OFFLINE" ELSE "AVAILABLE")
  /\ UNCHANGED <<users, memory, session, calls, form, ghosts, bounds>>

SignOut(r) ==
  /\ session[r] # None
  /\ session' = [session EXCEPT ![r] = None]
  /\ UNCHANGED <<users, memory, profiles, calls, form, online, ghosts, bounds>>

-----------------------------------------------------------------------------
(* The pages *)

\* A sign-up asks for an account of its email and phone.
Asks(r, e, p) ==
  /\ signups < MaxSignups /\ signups' = signups + 1
  /\ calls' = calls \cup {[role |-> r, step |-> "register",
                           account |-> [id |-> signups + 1, email |-> e, phone |-> p]]}

handleSignup(e, p) ==
  /\ Asks("RIDER", e, p)
  /\ UNCHANGED <<users, memory, profiles, session, form, online, ghosts, logins, faults>>

\* The driver's page has three steps; its button is disabled while a sign-up is under
\* way, its way back is not.  Only when it is opened does the page look for a session:
\* another tab may sign in while it is filled.
PersonalStep(e, p) ==
  /\ form.step = 1 /\ ~ form.busy
  /\ form' = [form EXCEPT !.step = 2, !.email = e, !.phone = p]
  /\ UNCHANGED <<users, memory, profiles, session, calls, online, ghosts, bounds>>

VehicleStep ==
  /\ form.step = 2 /\ ~ form.busy
  /\ form' = [form EXCEPT !.step = 3]
  /\ UNCHANGED <<users, memory, profiles, session, calls, online, ghosts, bounds>>

\* Mutant: the way back does not end at the first step.
BackAnyway ==
  /\ form' = [form EXCEPT !.step = @ - 1]
  /\ UNCHANGED <<users, memory, profiles, session, calls, online, ghosts, bounds>>

Back ==
  /\ form.step > 1
  /\ form' = [form EXCEPT !.step = @ - 1]
  /\ UNCHANGED <<users, memory, profiles, session, calls, online, ghosts, bounds>>

handleSubmit ==
  /\ form.step = 3 /\ ~ form.busy
  /\ form' = [form EXCEPT !.busy = TRUE]
  /\ Asks("DRIVER", form.email, form.phone)
  /\ UNCHANGED <<users, memory, profiles, session, online, ghosts, logins, faults>>

\* A call ends with an error message: the page can be used again.
EndsInError(c) ==
  /\ calls' = calls \ {c}
  /\ form' = IF c.role = "DRIVER" THEN [form EXCEPT !.busy = FALSE] ELSE form

-----------------------------------------------------------------------------
(* Registration at the auth service *)

Goes(c, step) == calls' = (calls \ {c}) \cup {[c EXCEPT !.step = step]}

\* Mutant: an email that is taken is answered as if it had just been registered.
ReserveAgain(c) ==
  /\ c \in calls /\ c.step = "register"
  /\ LET a == c.account IN
     IF byEmail[a.email] = None /\ byPhone[a.phone] = None
     THEN /\ byEmail' = [byEmail EXCEPT ![a.email] = a]
          /\ byPhone' = [byPhone EXCEPT ![a.phone] = a]
          /\ Goes(c, "insert")
          /\ UNCHANGED form
     ELSE Goes(c, "answer") /\ UNCHANGED <<memory, form>>
  /\ UNCHANGED <<users, profiles, session, online, ghosts, bounds>>

\* The email and the phone are reserved in memory, under the lock.
Reserve(c) ==
  /\ c \in calls /\ c.step = "register"
  /\ LET a == c.account IN
     IF byEmail[a.email] = None /\ byPhone[a.phone] = None
     THEN /\ byEmail' = [byEmail EXCEPT ![a.email] = a]
          /\ byPhone' = [byPhone EXCEPT ![a.phone] = a]
          /\ Goes(c, "insert")
          /\ UNCHANGED form
     ELSE EndsInError(c) /\ UNCHANGED memory
  /\ UNCHANGED <<users, profiles, session, online, ghosts, bounds>>

Duplicate(a) == \E u \in users : u.email = a.email \/ u.phone = a.phone

\* Mutant: a duplicate row is ignored like any other database error.
InsertAnyway(c) ==
  /\ c \in calls /\ c.step = "insert"
  /\ users' = IF Duplicate(c.account) THEN users ELSE users \cup {c.account}
  /\ Goes(c, "answer")
  /\ UNCHANGED <<memory, profiles, session, form, online, ghosts, bounds>>

\* The row is inserted: a duplicate is refused, and no other error is looked at.
Insert(c) ==
  /\ c \in calls /\ c.step = "insert"
  /\ \/ /\ IF Duplicate(c.account)
           THEN Goes(c, "undo") /\ UNCHANGED users
           ELSE Goes(c, "answer") /\ users' = users \cup {c.account}
        /\ UNCHANGED <<unsaved, faults>>
     \/ /\ Faulty
        /\ Goes(c, "answer")
        /\ unsaved' = unsaved \cup {c.account}
        /\ UNCHANGED users
  /\ UNCHANGED <<memory, profiles, session, form, online, early, signups, logins>>

\* Mutant: the reservation of the phone is kept.
UndoEmail(c) ==
  /\ c \in calls /\ c.step = "undo"
  /\ byEmail' = [byEmail EXCEPT ![c.account.email] = None]
  /\ EndsInError(c)
  /\ UNCHANGED <<users, byPhone, profiles, session, online, ghosts, bounds>>

\* The reservation is taken back, whatever has been cached over it since.
Undo(c) ==
  /\ c \in calls /\ c.step = "undo"
  /\ byEmail' = [byEmail EXCEPT ![c.account.email] = None]
  /\ byPhone' = [byPhone EXCEPT ![c.account.phone] = None]
  /\ EndsInError(c)
  /\ UNCHANGED <<users, profiles, session, online, ghosts, bounds>>

\* The auth service restarts without its memory; what it was working on ends in errors.
Restart ==
  LET dead == {c \in calls : c.step \in {"insert", "undo"}} IN
  /\ Faulty
  /\ byEmail' = [e \in Email |-> None] /\ byPhone' = [p \in Phone |-> None]
  /\ calls' = calls \ dead
  /\ form' = IF \E c \in dead : c.role = "DRIVER" THEN [form EXCEPT !.busy = FALSE]
             ELSE form
  /\ UNCHANGED <<users, profiles, session, online, ghosts, signups, logins>>

-----------------------------------------------------------------------------
(* The rest of a sign-up *)

\* The account is answered for: a rider is signed in, a driver's profile is asked for.
Registered(c) ==
  /\ c \in calls /\ c.step = "answer"
  /\ IF c.role = "RIDER"
     THEN /\ setStoredSession("RIDER", UserId(c.account), c.account, TRUE)
          /\ calls' = calls \ {c}
     ELSE Goes(c, "profile") /\ UNCHANGED session
  /\ UNCHANGED <<users, memory, profiles, form, online, ghosts, bounds>>

\* The driver service makes a profile under an id of its own, unless the phone has one.
RegisterDriver(c) ==
  /\ c \in calls /\ c.step = "profile"
  /\ IF \E p \in profiles : p.phone = c.account.phone
     THEN EndsInError(c) /\ UNCHANGED profiles
     ELSE /\ profiles' = profiles \cup
               {[id |-> ProfileId(c.account), email |-> c.account.email,
                 phone |-> c.account.phone, status |-> "OFFLINE"]}
          /\ Goes(c, "profiled")
          /\ UNCHANGED form
  /\ UNCHANGED <<users, memory, session, online, ghosts, bounds>>

\* Mutant: the session is known by the driver service's id.
OnboardedById(c, v) ==
  /\ c \in calls /\ c.step = "profiled"
  /\ setStoredSession("DRIVER", ProfileId(c.account), c.account, TRUE)
  /\ OpenCockpit(ProfileId(c.account))
  /\ calls' = calls \ {c} /\ form' = EmptyForm
  /\ UNCHANGED <<users, memory, ghosts, bounds>>

\* The driver is signed in under an id the browser drew, and the cockpit opens.
Onboarded(c, v) ==
  /\ c \in calls /\ c.step = "profiled"
  /\ setStoredSession("DRIVER", DrawnId(v), c.account, TRUE)
  /\ OpenCockpit(DrawnId(v))
  /\ calls' = calls \ {c} /\ form' = EmptyForm
  /\ UNCHANGED <<users, memory, ghosts, bounds>>

\* An answer does not reach the browser, or the driver service fails.
AnswerLost(c) ==
  /\ c \in calls /\ c.step \in {"register", "answer", "profile", "profiled"}
  /\ Faulty
  /\ EndsInError(c)
  /\ UNCHANGED <<users, memory, profiles, session, online, ghosts, signups, logins>>

-----------------------------------------------------------------------------
(* Logins *)

\* A login is answered with the account a.
Finds(r, a) ==
  /\ a # None
  /\ logins < MaxLogins /\ logins' = logins + 1
  /\ calls' = calls \cup {[role |-> r, step |-> "welcome", account |-> a]}
  /\ early' = IF a \in users THEN early ELSE early \cup {a}
  /\ UNCHANGED <<users, profiles, session, form, online, unsaved, signups>>

\* The row of an email is found and cached.
LoginByRow(r, a) ==
  /\ a \in users
  /\ Finds(r, a)
  /\ byEmail' = [byEmail EXCEPT ![a.email] = a]
  /\ byPhone' = [byPhone EXCEPT ![a.phone] = a]
  /\ UNCHANGED faults

\* Without a row, or with a database error, the memory is asked.
LoginByMemory(r, e) ==
  /\ Finds(r, byEmail[e])
  /\ IF \E u \in users : u.email = e THEN Faulty ELSE UNCHANGED faults
  /\ UNCHANGED memory

\* The session's role is that of the page.
Welcome(c) ==
  /\ c \in calls /\ c.step = "welcome"
  /\ setStoredSession(c.role, UserId(c.account), c.account, FALSE)
  /\ calls' = calls \ {c}
  /\ IF c.role = "DRIVER" THEN OpenCockpit(UserId(c.account))
     ELSE UNCHANGED <<online, profiles>>
  /\ UNCHANGED <<users, memory, form, ghosts, bounds>>

Next ==
  \/ \E e \in Email, p \in Phone : handleSignup(e, p) \/ PersonalStep(e, p)
  \/ VehicleStep \/ Back \/ handleSubmit
  \/ \E c \in calls : Reserve(c) \/ Insert(c) \/ Undo(c) \/ Registered(c)
                      \/ RegisterDriver(c) \/ AnswerLost(c) \/ Welcome(c)
  \/ \E c \in calls, v \in Invented : Onboarded(c, v)
  \/ Restart
  \/ \E r \in Role : \/ \E a \in users : LoginByRow(r, a)
                     \/ \E e \in Email : LoginByMemory(r, e)
                     \/ SignOut(r)
  \/ ToggleOnline

Spec == Init /\ [][Next]_vars

-----------------------------------------------------------------------------
(* Properties *)

\* Rows, reservations, calls, sessions and the sign-up page have their types.
TypeOK ==
  /\ users \subseteq Account
  /\ byEmail \in [Email -> Account \cup {None}]
  /\ byPhone \in [Phone -> Account \cup {None}]
  /\ \A p \in profiles : p.email \in Email /\ p.phone \in Phone
                         /\ p.status \in {"OFFLINE", "AVAILABLE"}
  /\ \A r \in Role : session[r] # None => session[r].account \in Account
  /\ calls \subseteq [role : Role, account : Account,
                      step : {"register", "insert", "undo", "answer", "profile",
                              "profiled", "welcome"}]
  /\ form \in [step : 1 .. 3, email : Email \cup {None}, phone : Phone \cup {None},
               busy : BOOLEAN]
  /\ online \in BOOLEAN /\ unsaved \subseteq Account /\ early \subseteq Account
  /\ signups \in 0 .. MaxSignups /\ logins \in Nat /\ faults \in Nat

\* A session is of an account with a row, unless the insert failed in another way than by
\* a duplicate or a login found the reservation before its row.  The session of a
\* driver who has just signed up has a profile of that account too.
SessionsAccounted ==
  \A r \in Role : session[r] # None =>
    LET a == session[r].account IN
    /\ a \in users \cup unsaved \cup early
    /\ r = "DRIVER" /\ session[r].new =>
         \E p \in profiles : p.email = a.email /\ p.phone = a.phone

\* What the memory holds is a row, or an account answered for without one, or is about to
\* be inserted or taken back: no order of registrations, logins and rollbacks leaves
\* a reservation that bars an email or a phone nobody has.
MemoryAgrees ==
  LET Known(a) == \/ a = None
                  \/ a \in users \cup unsaved
                  \/ \E c \in calls : c.account = a /\ c.step \in {"insert", "undo"}
  IN  /\ \A e \in Email : Known(byEmail[e])
      /\ \A p \in Phone : Known(byPhone[p])

\* No sign-up, login or switch ever makes a registered driver available: the cockpit
\* speaks for the auth service's id or for one its browser drew, and the profile has a
\* third.
ProfilesStayOffline == \A p \in profiles : p.status = "OFFLINE"

\* A driver's account whose sign-up ended without a profile never gets one: a later
\* sign-up with its email is refused, unless the insert's error is not looked at.
HalfStaysHalf ==
  [][ \A a \in users :
        /\ \A p \in profiles : p.email # a.email
        /\ \A c \in calls : c.account = a => c.step = "welcome"
        => \A p \in profiles' : p.email = a.email =>
             \E x \in unsaved : p.id = ProfileId(x) ]_vars
===============================================================================
