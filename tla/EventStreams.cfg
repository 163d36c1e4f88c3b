CONSTANTS
    s1 = s1  s2 = s2
    Streams = {s1, s2}
    MaxStreams = 2
    Capacity = 2
    MaxState = 2
    MaxPlayback = 2
    Nothing = Nothing
SPECIFICATION FairSpec
INVARIANT TypeOK PendingIsUnderWay
PROPERTY CatchesUp SlotsReturn
