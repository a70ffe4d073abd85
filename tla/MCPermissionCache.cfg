SPECIFICATION FairSpec
CONSTANTS
    User = {u1}
    Role = {admin, editor}
    SystemRole = {admin}
    Permission = {p1}
    Request = {r1, r2}
    None = None
INVARIANTS
    StaleOnlyIfRaced
    ChangesOutdateTokens
PROPERTIES
    ChangesTakeEffect
