SPECIFICATION Spec
CONSTANTS
    Policies <- MCPolicies
    Members <- MCMembers
    Resources <- MCResources
    Surroundings <- MCSurroundings
    Asked <- MCAsked
    PermissionSets <- MCPermissionSets
    MaxRows = 3
    None = None
    Spelled <- MCSpelled
    Numeral <- MCNumeral
    Instant <- MCInstant
    Like <- MCLike
INVARIANTS
    DenyOverrides
    SuspendedMembersAreRefused
    MissingAttributeSatisfiesLittle
    RefusalIsExplained
