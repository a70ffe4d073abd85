SPECIFICATION SmallSpec
CONSTANTS
    User = {u1, u2}
    Session = {s1, s2}
    Token = {t1, t2, t3}
    Request = {r1, r2}
    None = None
    u2 = u2
    MaxVersion = 1
    MaxEpoch = 1
SYMMETRY Symmetry
INVARIANTS
    TypeOK
    EndedSessionsGrantNothing
    
PROPERTIES
    RevocationTakesTokens
    OwnerRevokes
    DeadTokensStayDead
    ImplementsLifecycle
