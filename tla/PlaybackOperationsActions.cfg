\* Two commands of every kind on an output and the favorites lane, with contention,
\* crashes and restarts, under fairness.
CONSTANTS
    Ids = {i1, i2}
    Outputs = {front}
    FavoritesLane = favorites
    Keys = {k1}
    Actions = {"stop", "set_tunein_station", "set_gain", "add_favorite"}
    Capacity = 2
    LedgerLimit = 2
    Deadline = 1
    Retention = 1
    MaxTime = 2
    MaxControl = 1
    MaxConfig = 0
    NoOp = NoOp
    NoRequest = NoRequest
SPECIFICATION FairSpec
INVARIANTS LedgerTellsTheTruth OneCommitPerRevision
PROPERTIES WritesWhatWasSeen ImplementsLifecycle EveryCommandEnds
CHECK_DEADLOCK FALSE
