\* Three commands contend for one output: both limits of the ledger are reached, and
\* a command of time 1 comes after the rows of time 0 have passed Retention, so that it
\* prunes them and may use their keys again.
CONSTANTS
    Ids = {i1, i2, i3}
    Outputs = {front}
    FavoritesLane = favorites
    Keys = {k1, k2, k3}
    Actions = {"set_tunein_station"}
    Capacity = 2
    LedgerLimit = 2
    Deadline = 1
    Retention = 0
    MaxTime = 2
    MaxControl = 0
    MaxConfig = 1
    NoOp = NoOp
    NoRequest = NoRequest
SPECIFICATION Spec
SYMMETRY IdSymmetry
INVARIANTS TypeOK KeyIdentifiesOneOperation WithinLimits
PROPERTIES NewerTargetWins
CHECK_DEADLOCK FALSE
