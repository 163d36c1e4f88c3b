\* One TuneIn station whose URL changes once, and one failure.
CONSTANTS
    UrlStations = {}
    TuneInStations = {t1}
    MaxCommands = 1
    MaxFaults = 1
    MaxRotations = 1
    MaxRestarts = 0
    MaxForeign = 0
    NoStation = NoStation
    NoUrl = NoUrl
    NoSong = NoSong
    ForeignUrl = ForeignUrl
SPECIFICATION FairSpec
PROPERTIES PlayIsRestored
