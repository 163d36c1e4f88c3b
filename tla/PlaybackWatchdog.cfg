CONSTANTS
    front = front  rear = rear
    Outputs = {front, rear}
    ProbeInterval = 1
    Threshold = 2
    UnresponsiveProbes = 2
    RestartLimit = 1
    RestartWindow = 4
    RestartGrace = 1
    EscalationWindow = 6
    MaxDelay = 2
    MaxFaults = 2
    MaxFailures = 1
    MaxCommands = 2
    Never = Never
SPECIFICATION FairSpec
INVARIANT TypeOK RestartsAreLimited
PROPERTY StallsAreObserved PlaybackReturns
