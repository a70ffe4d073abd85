SPECIFICATION CalmSpec
CONSTANTS
    User = {u1}
    Session = {s1, s2}
    Token = {t1, t2}
    Request = {r1, r2}
    None = None
    u2 = u1
    MaxVersion = 1
    MaxEpoch = 1
PROPERTIES
    RevocationConcludes
