\* Logins, changes, resets, disabling and logout of an account at the same time.
SPECIFICATION AccountsSpec
CONSTANTS
    Null = Null
    u1 = u1
    u2 = u2
    s1 = s1
    s2 = s2
    c1 = c1
    c2 = c2
    User = {u1, u2}
    Installed = {u1, u2}
    Session = {s1, s2}
    Call = {c1, c2}
    MaxFailed = 1
    LockTime = 2
    IdleTime = 2
    AbsoluteTime = 3
    MaxTime = 0
    MaxPassword = 3
    Operations = {"login", "auth", "logout", "change", "edit", "recover"}
    Forms <- ResetForms
SYMMETRY Everything
INVARIANTS SessionsFresh ResetHolds AdminRemains
