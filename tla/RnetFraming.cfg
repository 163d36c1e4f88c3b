\* Three frames, an overrun and a lost connection, with every division into reads.
CONSTANTS
    MaxFrames = 3
    MaxOverruns = 1
    MaxCuts = 1
SPECIFICATION FramingSpec
INVARIANT StreamIsUnderstood HeardAsSent
