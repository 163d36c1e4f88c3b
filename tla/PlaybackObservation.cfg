\* Any two changes of the files or of MPD, commands and faults, under fairness.
CONSTANTS
    None = None
    MaxEvents = 2
SPECIFICATION FairSpec
INVARIANT TypeOK EditsSawTheirTick
PROPERTY Settles
