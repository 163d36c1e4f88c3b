\* Any two of: two changes of one setting, a shared command, a change in the background;
\* with a silent change or a restart between their steps, or both and one of them.
CONSTANTS
    u1 = u1  u2 = u2  c1 = c1  b1 = b1  b2 = b2
    Nobody = Nobody
    ZoneUpdates = {u1, u2}
    SharedCommands = {c1}
    Background = {b1}
    MaxSilent = 1
    MaxRestarts = 1
    MaxJobs = 2
    MaxEvents = 3
SPECIFICATION FairSpec
INVARIANT TypeOK AnnouncedIsPublished PendingValueShows RevisionsOrderPayloads
PROPERTY NeverBackInTime Converges
