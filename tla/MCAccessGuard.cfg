SPECIFICATION GuardFairSpec
CONSTANTS
    Policy = {p1}
    System = {}
    Scope <- MCScope
    Slug <- MCSlug
    Concerns <- MCConcerns
    Fact = {suspended}
    Inactive = {suspended}
    Route <- MCRoute
    Resource <- MCResource
    Ids = {o2}
    Active = o1
    Caller = u1
    Request = {r1, r2}
    Written <- MCWritten
    Nil = Nil
INVARIANTS
    StandingDenyRefuses
PROPERTIES
    AttributesTakeEffect
