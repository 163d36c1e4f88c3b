\* A zone of the same number on each of two controllers, a command, and two keypad
\* changes, late answers or failures, under fairness.
CONSTANTS
    NumZones = 2
    Number <- SameNumber
    MaxSets = 1
    MaxEvents = 2
SPECIFICATION FairSpec
INVARIANT Orderly
PROPERTY Converges
