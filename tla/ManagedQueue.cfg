\* A configured and a TuneIn station, failing calls, a rotating URL, a restart of MPD
\* and a foreign entry, under fairness.
CONSTANTS
    UrlStations = {front}
    TuneInStations = {t1}
    MaxCommands = 2
    MaxFaults = 3
    MaxRotations = 1
    MaxRestarts = 1
    MaxForeign = 1
    NoStation = NoStation
    NoUrl = NoUrl
    NoSong = NoSong
    ForeignUrl = ForeignUrl
SPECIFICATION FairSpec
INVARIANTS TypeOK OneManagedEntry
PROPERTIES SoundStartsRight ForeignEntriesSurvive RestoredOrRefused
