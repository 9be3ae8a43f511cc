SPECIFICATION LibrarySpec
CONSTANTS
    Path = {p, q}
    Audio = {a, b}
    Scanner = {s1}
    Client = {c1}
    NoSong = NoSong
    MaxSongs = 3
    MaxActs = 3
SYMMETRY Symmetry
CHECK_DEADLOCK FALSE
INVARIANTS
    ScanIsComplete
    DescribedByOwnFile
