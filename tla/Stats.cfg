SPECIFICATION MCSpec
CONSTANTS
    Mount = {m1}
    Slot = {s1, s2}
    Value = {1}
    Count = {1, 2}
    Full = 2
    Limit = 1
    Global = Global
    None = None
    Askers = 3
    Sheet = {f1, f2, f3}
    Edited = {f1}
    CacheSize = 2
    MaxUpdating = 2
    Recheck = 1
    MaxAsked = 3
    EndTime = 1
    MaxChanges = 1
    OggAddr = {b1, b2}
    NoAddr = NoAddr
    Kind = {"vorbis", "theora"}
    MaxCodecs = 1
    QueueLen = 2
    PageHeaders = {2}
    MaxStreams = 3
    MaxPages = 2
    MaxTags = 1
    MaxMoves = 1
    MaxInputs = 6
    Key = {1, 2, 3, 4}
    MaxNodes = 6
INVARIANTS
    StatsFaithful
    TreeSound
    SheetsCurrent
    HeadersFirst
CHECK_DEADLOCK FALSE
