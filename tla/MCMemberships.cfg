SPECIFICATION MCSpec
CONSTANTS
    u1 = u1
    u2 = u2
    User = {u1, u2}
    Role = {admin, own}
    Admin = admin
    AdminRole = {admin, own}
    Invitation = {i1}
    Request = {r1, r2}
    None = None
    MaxPermissions = 3
    MaxAttributes = 2
    MaxTokens = 1
SYMMETRY Symmetry
INVARIANTS
    PassingTokenNamesRoles
    DeletedRoleGrantsNothing
PROPERTIES
    ImplementsLiveRoles
    OutdatedStaysOutdated
    LastAdminLostOnlyIfMiscounted
