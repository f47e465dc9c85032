\* A turn and dispatches of the page side by side.
CONSTANTS
    Calls = {1, 2}
    Offered <- MCOffered
    Platforms = {p1}
    Turns = {t1}
    MaxToolRounds = 1
    MaxCalls = 2
    CallerRoles <- MCCallerRoles
    NoTurn = NoTurn
    NoCall = 0
SPECIFICATION FairSpec
INVARIANTS TypeOK GatedButForTheWizard ChargedWasCarriedThrough
PROPERTIES TurnsEnd
CHECK_DEADLOCK FALSE
