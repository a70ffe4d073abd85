SPECIFICATION Spec
CONSTANTS
    Token = {t1, t2, t3}
    Password = {p1, p2, p3}
    Request = {r1, r2}
    Limit = 2
    MaxChanges = 3
    None = None
SYMMETRY Symmetry
INVARIANTS
    LinkSetsOnePassword
    LiveLinksWereIssuedTogether
    RecentPasswordsAreRefused
