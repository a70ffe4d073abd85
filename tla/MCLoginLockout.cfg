SPECIFICATION Spec
CONSTANTS
    Request = {r1, r2, r3}
    MaxAttempts = 3
    MaxCount = 5
INVARIANTS
    NoLockWithoutFailures
PROPERTIES
    OnlySuccessRewinds
    GuessesGetAhead
    LoginGuessesEnd
