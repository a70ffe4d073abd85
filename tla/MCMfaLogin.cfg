SPECIFICATION Spec
CONSTANTS
    User = {u1, u2}
    Challenge = {c1, c2}
    Secret = {x1, x2}
    BackupCode = {b1, b2}
    Request = {r1, r2}
    None = None
    MaxAttempts = 2
SYMMETRY Symmetry
INVARIANTS
    SessionNeedsOwnFactor
    AttemptsBounded
    ChallengeLoginsBounded
    CodeLoginsBounded
PROPERTIES
    EnrolmentSettles
