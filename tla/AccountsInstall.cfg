\* Two create-admin commands on an empty system, then logins, guesses and new accounts
\* while time passes.
SPECIFICATION AccountsSpec
CONSTANTS
    Null = Null
    u1 = u1
    u2 = u2
    s1 = s1
    s2 = s2
    c1 = c1
    c2 = c2
    User = {u1, u2}
    Installed = {}
    Session = {s1, s2}
    Call = {c1, c2}
    MaxFailed = 2
    LockTime = 2
    IdleTime = 2
    AbsoluteTime = 3
    MaxTime = 2
    MaxPassword = 2
    Operations = {"first", "login", "change", "create", "recover"}
    Forms <- RoleForms
SYMMETRY Everything
INVARIANTS InstalledOnce GuessesBounded
