------------------------------ MODULE Accounts ------------------------------
(***************************************************************************)
(* Accounts and login sessions in the control database:                    *)
(*                                                                         *)
(*   - AuthService (authorization/auth_service.py): login with its lock    *)
(*     after wrong passwords, sliding sessions, logout, password change,   *)
(*     recovery of an administrator;                                       *)
(*   - the user page of the admin console and its guard of the last        *)
(*     administrator (chatbi_control/admin.py);                            *)
(*   - create-admin, which installs the first administrator                *)
(*     (chatbi_control/bootstrap.py).                                      *)
(*                                                                         *)
(* A call is one transaction under READ COMMITTED.  It reads the clock     *)
(* when it begins, takes the row lock of its user (SELECT ... FOR UPDATE), *)
(* decides on the row it has read and commits; a call that takes away      *)
(* administrator rights also locks the admin role and counts.  Audit       *)
(* records are not kept here, but writing one shares the row of the user   *)
(* who acts (its foreign key), and a new member of the admin role shares   *)
(* the row of the role: who writes them waits for who has locked the row.  *)
(* Both are written by the flush of the commit, one after the other; a     *)
(* commit that has the first share and waits for the second is only in the *)
(* way of calls that have locked nothing yet, so the two are one step.     *)
(* A password is its version: the n-th password of an account is n, and 0  *)
(* is none of them.                                                        *)
(***************************************************************************)
EXTENDS Integers

CONSTANTS
    User,         \* usernames
    Installed,    \* the accounts that are there at the start, administrators
    Session,      \* session tokens
    Call,         \* transactions that can be open at the same time
    Null,         \* SQL NULL
    MaxFailed,    \* MAX_FAILED_LOGIN_ATTEMPTS
    LockTime,     \* FAILED_LOGIN_LOCK_DURATION
    IdleTime,     \* IDLE_TTL
    AbsoluteTime, \* ABSOLUTE_TTL
    Operations,   \* bound: the operations that are called
    Forms,        \* bound: what is entered on the user page
    MaxTime,      \* bound: ticks of the clock
    MaxPassword   \* bound: passwords an account can have

ASSUME AccountsAssumption ==
    /\ Installed \subseteq User
    /\ Null \notin User \cup Session
    /\ MaxFailed \in Nat \ {0} /\ LockTime \in Nat \ {0}
    /\ IdleTime \in Nat \ {0} /\ AbsoluteTime \in Nat \ {0}
    /\ MaxTime \in Nat /\ MaxPassword \in Nat \ {0}
    /\ Forms \subseteq [active : BOOLEAN, admin : BOOLEAN, must : BOOLEAN, reset : BOOLEAN]
    /\ Operations \subseteq {"login", "auth", "logout", "change", "edit", "create",
                             "recover", "first"}

VARIABLES
    users,     \* table users, with membership of the admin role
    sess,      \* table sessions, with the password each was opened with
    call,      \* the open transactions
    now,       \* the clock
    given,     \* history variable: the last password somebody else set for a user
    wrong,     \* history variable: wrong passwords tried since the counter was cleared
    installs   \* history variable: first administrators created

accountVars == <<users, sess, call, now, given, wrong, installs>>
history == <<given, wrong, installs>>

NoUser == [exists |-> FALSE, active |-> FALSE, admin |-> FALSE, must |-> FALSE,
           pw |-> 0, failed |-> 0, locked |-> 0]
Account(active, admin, must) ==
    [exists |-> TRUE, active |-> active, admin |-> admin, must |-> must,
     pw |-> 1, failed |-> 0, locked |-> 0]
NoSession == [user |-> Null, pw |-> 0, expires |-> 0, absolute |-> 0, revoked |-> FALSE]

\* The fields of the user page: enabled, administrator, must change, new password.
Form == [active : BOOLEAN, admin : BOOLEAN, must : BOOLEAN, reset : BOOLEAN]
NoForm == [active |-> TRUE, admin |-> TRUE, must |-> FALSE, reset |-> FALSE]
Idle == [pc |-> "idle", op |-> Null, user |-> Null, sess |-> Null, guess |-> 0, at |-> 0,
         form |-> NoForm, seen |-> NoUser]

IsAdmin(u) == users[u].exists /\ users[u].active /\ users[u].admin
-----------------------------------------------------------------------------
(***************************************************************************)
(* Locks.  They are released with the transaction.                         *)
(***************************************************************************)

Holding == {"locked", "role", "counted"}
Holds(c, u) == call[c].pc \in Holding /\ call[c].user = u

\* Mutant: the row is read without FOR UPDATE.
UserReadable(u) == TRUE

UserFree(u) == \A c \in Call : ~Holds(c, u)

\* Mutant: the admin role is read without FOR UPDATE.
RoleReadable == TRUE

HoldsRole(c) == call[c].pc \in {"role", "counted"}
RoleFree == \A c \in Call : ~HoldsRole(c)

\* Mutant: no advisory lock.
InstallReadable == TRUE

InstallFree == \A c \in Call : call[c].pc \notin {"first", "empty"}

Begin(c, op, u, s, g, f) ==
    /\ op \in Operations
    /\ call[c].pc = "idle"
    /\ call' = [call EXCEPT ![c] = [pc |-> "begun", op |-> op, user |-> u, sess |-> s,
                                    guess |-> g, at |-> now, form |-> f, seen |-> NoUser]]
    /\ UNCHANGED <<users, sess, now, history>>

Go(c, pc) == call' = [call EXCEPT ![c].pc = pc]
Leave(c) == call' = [call EXCEPT ![c] = Idle]

\* select(User).with_for_update(), populate_existing.
LockUser(c) ==
    /\ call[c].pc = "begun" /\ call[c].op # "first"
    /\ UserFree(call[c].user)
    /\ call' = [call EXCEPT ![c].pc = "locked", ![c].seen = users[call[c].user]]
    /\ UNCHANGED <<users, sess, now, history>>

\* The database or the audit sink fails: everything is rolled back.
Fail(c) ==
    /\ call[c].pc # "idle"
    /\ Leave(c)
    /\ UNCHANGED <<users, sess, now, history>>
-----------------------------------------------------------------------------
(***************************************************************************)
(* Sessions.                                                               *)
(***************************************************************************)

\* _valid_record.  The revocation it writes for an expired session is rolled back
\* with the refusal.
Valid(s, t) ==
    /\ sess[s].user # Null
    /\ ~sess[s].revoked
    /\ users[sess[s].user].active
    /\ t < sess[s].expires
    /\ t < sess[s].absolute

\* _revoke_user_sessions.
Revoked(u) == [s \in Session |-> IF sess[s].user = u THEN [sess[s] EXCEPT !.revoked = TRUE]
                                 ELSE sess[s]]

\* Tokens not yet drawn; bound: with none left a login is refused.
Free == {s \in Session : sess[s].user = Null}

Earlier(a, b) == IF a < b THEN a ELSE b

BeginLogin(c, u, g) == users[u].exists /\ Begin(c, "login", u, Null, g, NoForm)

\* login: refused, a wrong password, or a new session.
CommitLogin(c) ==
    LET u == call[c].user
        old == call[c].seen
        at == call[c].at
        tries == old.failed + 1
    IN /\ call[c].pc = "locked" /\ call[c].op = "login"
       /\ \/ /\ ~old.active \/ old.locked > at \/ Free = {}
             /\ UNCHANGED <<users, sess, wrong>>
          \/ /\ old.active /\ old.locked <= at
             /\ call[c].guess # old.pw
             /\ users' = [users EXCEPT ![u].failed = tries,
                                       ![u].locked = IF tries >= MaxFailed THEN at + LockTime ELSE @]
             /\ wrong' = [wrong EXCEPT ![u] = @ + 1]
             /\ UNCHANGED sess
          \/ /\ old.active /\ old.locked <= at
             /\ call[c].guess = old.pw
             /\ users' = [users EXCEPT ![u].failed = 0, ![u].locked = 0]
             /\ wrong' = [wrong EXCEPT ![u] = 0]
             /\ \E s \in Free :
                   sess' = [sess EXCEPT ![s] =
                         [user |-> u, pw |-> old.pw, revoked |-> FALSE,
                          expires |-> at + IdleTime, absolute |-> at + AbsoluteTime]]
       /\ Leave(c)
       /\ UNCHANGED <<now, given, installs>>

\* authenticate_session reads the session ...
ReadSession(c, s) ==
    /\ "auth" \in Operations
    /\ call[c].pc = "idle"
    /\ Valid(s, now)
    /\ call' = [call EXCEPT ![c] = [Idle EXCEPT !.pc = "auth", !.op = "auth", !.sess = s,
                                                !.at = now]]
    /\ UNCHANGED <<users, sess, now, history>>

\* Mutant: the whole row is written back as it was read.
SlideWholeRow(c) ==
    LET s == call[c].sess
        at == call[c].at
    IN /\ call[c].pc = "auth"
       /\ sess' = [sess EXCEPT ![s].expires = Earlier(at + IdleTime, sess[s].absolute),
                               ![s].revoked = FALSE]
       /\ Leave(c)
       /\ UNCHANGED <<users, now, history>>

\* ... and writes its new expiry; no lock is held in between.
SlideSession(c) ==
    LET s == call[c].sess
        at == call[c].at
    IN /\ call[c].pc = "auth"
       /\ sess' = [sess EXCEPT ![s].expires = Earlier(at + IdleTime, sess[s].absolute)]
       /\ Leave(c)
       /\ UNCHANGED <<users, now, history>>

\* logout: unknown and revoked tokens are left alone.  Its audit record names the user.
Logout(s) ==
    /\ "logout" \in Operations
    /\ sess[s].user # Null
    /\ UserFree(sess[s].user)
    /\ sess' = [sess EXCEPT ![s].revoked = TRUE]
    /\ UNCHANGED <<users, call, now, history>>
-----------------------------------------------------------------------------
(***************************************************************************)
(* Passwords.                                                              *)
(***************************************************************************)

\* Bound: the account can have one more password; without it the call is refused.
More(u) == users[u].pw < MaxPassword

\* A new password, and every session opened with the old one revoked.
NewPassword(u, must) ==
    /\ users' = [users EXCEPT ![u].pw = @ + 1, ![u].must = must,
                              ![u].failed = 0, ![u].locked = 0]
    /\ wrong' = [wrong EXCEPT ![u] = 0]
    /\ sess' = Revoked(u)

\* change_password finds its session valid before it waits for the user ...
BeginChange(c, s, g) ==
    /\ Valid(s, now)
    /\ Begin(c, "change", sess[s].user, s, g, NoForm)

\* Mutant: the session is not looked at again.
CommitChangeUnchecked(c) ==
    LET u == call[c].user IN
    /\ call[c].pc = "locked" /\ call[c].op = "change"
    /\ IF More(u) THEN NewPassword(u, FALSE) ELSE UNCHANGED <<users, sess, wrong>>
    /\ Leave(c)
    /\ UNCHANGED <<now, given, installs>>

\* ... and again when it has the lock.
CommitChange(c) ==
    LET u == call[c].user IN
    /\ call[c].pc = "locked" /\ call[c].op = "change"
    /\ IF Valid(call[c].sess, call[c].at) /\ call[c].guess = call[c].seen.pw /\ More(u)
       THEN NewPassword(u, FALSE) ELSE UNCHANGED <<users, sess, wrong>>
    /\ Leave(c)
    /\ UNCHANGED <<now, given, installs>>

BeginRecover(c, u) == Begin(c, "recover", u, Null, 0, NoForm)

\* recover_admin: an enabled administrator only.
CommitRecover(c) ==
    LET u == call[c].user
        old == call[c].seen
    IN /\ call[c].pc = "locked" /\ call[c].op = "recover"
       /\ IF old.exists /\ old.active /\ old.admin /\ More(u)
          THEN NewPassword(u, TRUE) /\ given' = [given EXCEPT ![u] = users[u].pw + 1]
          ELSE UNCHANGED <<users, sess, wrong, given>>
       /\ Leave(c)
       /\ UNCHANGED <<now, installs>>
-----------------------------------------------------------------------------
(***************************************************************************)
(* The admin console.                                                      *)
(***************************************************************************)

\* authenticate of the console: a session of an administrator who has chosen a
\* password.
ConsoleOpen(s) == Valid(s, now) /\ IsAdmin(sess[s].user) /\ ~users[sess[s].user].must

BeginEdit(c, s, u, f) == ConsoleOpen(s) /\ users[u].exists /\ Begin(c, "edit", u, s, 0, f)

\* validate_user_mutation has nothing to protect.
StaysAdmin(f) == f.active /\ f.admin

\* select(Role).with_for_update().
LockRole(c) ==
    /\ call[c].pc = "locked" /\ call[c].op = "edit" /\ ~StaysAdmin(call[c].form)
    /\ RoleFree
    /\ Go(c, "role")
    /\ UNCHANGED <<users, sess, now, history>>

\* Mutant: a refusal leaves its transaction open.
CountAdminsOpen(c) ==
    /\ call[c].pc = "role"
    /\ \E u \in User \ {call[c].user} : IsAdmin(u)
    /\ Go(c, "counted")
    /\ UNCHANGED <<users, sess, now, history>>

\* remaining_admins, LastAdminError.
CountAdmins(c) ==
    /\ call[c].pc = "role"
    /\ IF \E u \in User \ {call[c].user} : IsAdmin(u) THEN Go(c, "counted") ELSE Leave(c)
    /\ UNCHANGED <<users, sess, now, history>>

\* The form has passed validate_user_mutation.
Approved(c) == call[c].op = "edit" /\ (call[c].pc = "counted"
                                      \/ (call[c].pc = "locked" /\ StaysAdmin(call[c].form)))

\* _mark_admin_audit has something to record, in the name of the console's user.
Audited(c) ==
    LET old == users[call[c].user]
        f == call[c].form
    IN f.reset \/ f.active # old.active \/ f.admin # old.admin
Actor(c) == sess[call[c].sess].user

\* The flush of c shares a row that d has locked: the acting user's for the audit
\* record, the role's for a new membership.
WaitsForShare(c, d) ==
    /\ c # d /\ Approved(c)
    /\ \/ Audited(c) /\ Holds(d, Actor(c))
       \/ call[c].form.admin /\ ~users[call[c].user].admin /\ HoldsRole(d)

\* on_model_change and the commit of the form.
CommitEdit(c) ==
    LET u == call[c].user
        f == call[c].form
    IN /\ Approved(c)
       /\ \A d \in Call : ~WaitsForShare(c, d)
       /\ IF f.reset => More(u)
          THEN /\ users' = [users EXCEPT ![u].active = f.active, ![u].admin = f.admin,
                                         ![u].must = f.must \/ f.reset,
                                         ![u].pw = IF f.reset THEN @ + 1 ELSE @]
               /\ given' = [given EXCEPT ![u] = IF f.reset THEN users[u].pw + 1 ELSE @]
               /\ sess' = IF f.reset \/ ~f.active THEN Revoked(u) ELSE sess
          ELSE UNCHANGED <<users, sess, given>>
       /\ Leave(c)
       /\ UNCHANGED <<now, wrong, installs>>

\* A new account, whose password must be changed.
Create(s, u, f) ==
    /\ "create" \in Operations
    /\ ConsoleOpen(s)
    /\ UserFree(sess[s].user)
    /\ f.admin => RoleFree
    /\ ~users[u].exists
    /\ users' = [users EXCEPT ![u] = Account(f.active, f.admin, TRUE)]
    /\ given' = [given EXCEPT ![u] = 1]
    /\ UNCHANGED <<sess, call, now, wrong, installs>>
-----------------------------------------------------------------------------
(***************************************************************************)
(* create-admin.                                                           *)
(***************************************************************************)

BeginFirst(c, u) == Begin(c, "first", u, Null, 0, NoForm)

\* pg_advisory_xact_lock.
LockFirst(c) ==
    /\ call[c].pc = "begun" /\ call[c].op = "first"
    /\ InstallFree
    /\ Go(c, "first")
    /\ UNCHANGED <<users, sess, now, history>>

\* existing_admin: enabled or not.
CheckFirst(c) ==
    /\ call[c].pc = "first"
    /\ IF \E u \in User : users[u].exists /\ users[u].admin THEN Leave(c) ELSE Go(c, "empty")
    /\ UNCHANGED <<users, sess, now, history>>

\* The new row; the unique username refuses a second one.
CommitFirst(c) ==
    LET u == call[c].user IN
    /\ call[c].pc = "empty"
    /\ IF users[u].exists THEN UNCHANGED <<users, given, installs>>
       ELSE /\ users' = [users EXCEPT ![u] = Account(TRUE, TRUE, TRUE)]
            /\ given' = [given EXCEPT ![u] = 1]
            /\ installs' = installs + 1
    /\ Leave(c)
    /\ UNCHANGED <<sess, now, wrong>>
-----------------------------------------------------------------------------
Tick ==
    /\ now < MaxTime
    /\ now' = now + 1
    /\ UNCHANGED <<users, sess, call, history>>

AccountsInit ==
    /\ users = [u \in User |-> IF u \in Installed THEN Account(TRUE, TRUE, FALSE) ELSE NoUser]
    /\ sess = [s \in Session |-> NoSession]
    /\ call = [c \in Call |-> Idle]
    /\ now = 0
    /\ given = [u \in User |-> 0]
    /\ wrong = [u \in User |-> 0]
    /\ installs = IF Installed = {} THEN 0 ELSE 1

\* What an open transaction does next.
Step(c) ==
    \/ LockUser(c) \/ LockRole(c) \/ LockFirst(c)
    \/ CountAdmins(c) \/ CheckFirst(c)
    \/ CommitLogin(c) \/ CommitChange(c) \/ CommitRecover(c) \/ CommitEdit(c) \/ CommitFirst(c)
    \/ SlideSession(c)

Arrive(c) ==
    \/ \E u \in User : \/ \E g \in 0..users[u].pw : BeginLogin(c, u, g)
                       \/ BeginRecover(c, u)
                       \/ BeginFirst(c, u)
                       \/ \E s \in Session, f \in Forms : BeginEdit(c, s, u, f)
    \/ \E s \in Session : \/ ReadSession(c, s)
                          \/ \E g \in 0..MaxPassword : BeginChange(c, s, g)

AccountsNext ==
    \/ \E c \in Call : Arrive(c) \/ Step(c) \/ Fail(c)
    \/ \E s \in Session : Logout(s)
    \/ \E s \in Session, u \in User, f \in Forms : Create(s, u, f)
    \/ Tick

AccountsSpec == AccountsInit /\ [][AccountsNext]_accountVars

(***************************************************************************)
(* Calls that wait for each other.  A call that has locked nothing yet     *)
(* keeps nobody waiting.                                                   *)
(***************************************************************************)

WaitsFor(c, d) ==
    \/ call[c].pc = "locked" /\ call[c].op = "edit" /\ ~StaysAdmin(call[c].form) /\ HoldsRole(d)
    \/ WaitsForShare(c, d)

\* Every call of S waits for one of S.
Stuck(S) == S # {} /\ \A c \in S : \E d \in S : WaitsFor(c, d)

\* A cycle of waiting calls: no part of it is one.
Cycle(S) == Stuck(S) /\ \A T \in SUBSET S : Stuck(T) => T = S

\* PostgreSQL aborts a transaction that it finds in a cycle; it is one way to Fail.
Abort(c) == (\E S \in SUBSET Call : c \in S /\ Cycle(S)) /\ Fail(c)

\* PostgreSQL grants a lock to its waiters in turn and breaks a cycle, and an open
\* transaction goes on.
AccountsFairSpec ==
    AccountsSpec /\ (\A c \in Call : SF_accountVars(Step(c))) /\ WF_accountVars(\E c \in Call : Abort(c))
-----------------------------------------------------------------------------
(***************************************************************************)
(* Properties.                                                             *)
(***************************************************************************)

UserType == [exists : BOOLEAN, active : BOOLEAN, admin : BOOLEAN, must : BOOLEAN,
             pw : Nat, failed : Nat, locked : Nat]
SessionType == [user : User \cup {Null}, pw : Nat, expires : Nat, absolute : Nat,
                revoked : BOOLEAN]
CallType == [pc : {"idle", "begun", "auth", "first", "empty"} \cup Holding,
             op : {Null, "login", "auth", "change", "edit", "recover", "first"},
             user : User \cup {Null}, sess : Session \cup {Null}, guess : Nat, at : Nat,
             form : Form, seen : UserType]

\* Every variable has its type, and there is nothing where there is no row.
AccountsTypeOK ==
    /\ users \in [User -> UserType]
    /\ \A u \in User : ~users[u].exists => users[u] = NoUser
    /\ sess \in [Session -> SessionType]
    /\ call \in [Call -> CallType]
    /\ now \in Nat
    /\ given \in [User -> Nat]
    /\ wrong \in [User -> Nat]
    /\ installs \in Nat

\* An installed system always has an enabled administrator, however many consoles
\* demote and disable administrators at the same time.
AdminRemains == (\E u \in User : users[u].exists) => \E u \in User : IsAdmin(u)

\* create-admin succeeds at most once, and never beside existing accounts.
InstalledOnce == installs <= 1 /\ (installs = 0 => \A u \in User : ~users[u].exists)

\* A session that is not revoked belongs to an enabled account and was opened with
\* its current password: no login slips in beside a change, a reset or a disabling.
SessionsFresh ==
    \A s \in Session : (sess[s].user # Null /\ ~sess[s].revoked) =>
        users[sess[s].user].active /\ sess[s].pw = users[sess[s].user].pw

\* A password set by an administrator is replaced by its user only after a login
\* with it: a password change that was on its way does not undo the reset.
ResetHolds ==
    \A u \in User : (users[u].exists /\ given[u] > 0 /\ users[u].pw > given[u]) =>
        \E s \in Session : sess[s].user = u /\ sess[s].pw = given[u]

\* Concurrent logins together try at most MaxFailed wrong passwords, and then one
\* for every time the account was locked.
GuessesBounded == \A u \in User : wrong[u] <= MaxFailed + (now \div LockTime)

\* No call waits for ever: whoever it waits for ends, and a cycle of calls, which two
\* administrators who edit each other can close, is broken by the database.
CallsReturn == \A c \in Call : call[c].pc # "idle" ~> call[c].pc = "idle"
=============================================================================
