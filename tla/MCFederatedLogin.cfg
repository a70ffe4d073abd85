SPECIFICATION MCSpec
CONSTANTS
    None = None
    Nil = Nil
    u1 = u1
    u2 = u2
    i1 = i1
    i2 = i2
    g = g
    h = h
    s1 = s1
    s2 = s2
    q1 = q1
    q2 = q2
    a1 = a1
    a2 = a2
    t1 = t1
    r1 = r1
    r2 = r2
    User = {u1, u2}
    Identity = {i1, i2}
    Provider = {g, h}
    ProviderOf <- MCProviderOf
    Email <- MCEmail
    State = {s1, s2}
    SocialRequest = {q1, q2}
    Assertion = {a1, a2}
    Unnamed = {a2}
    Relay = {t1}
    SamlRequest = {r1, r2}
SYMMETRY Symmetry
INVARIANTS
    StateStartsOneFlow
    SessionsFollowLinks
    AssertionOpensOneSession
    EverySessionWasAskedFor
