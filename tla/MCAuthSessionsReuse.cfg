SPECIFICATION Spec
CONSTANTS
    User = {u1}
    Session = {s1}
    Token = {t1, t2, t3}
    Request = {r1, r2}
    None = None
    u2 = u1
    MaxVersion = 1
    MaxEpoch = 1
SYMMETRY Symmetry
PROPERTIES
    ReuseKillsFamily
