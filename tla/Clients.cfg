SPECIFICATION MCSpec
CONSTANTS
    Client = {c1, c2}
    Handler = {t1, t2}
    None = None
    Backoff = 1
    MaxTime = 2
    MaxHeaders = 2
    MaxEvents = 1
    Addr = {b1, b2, b3}
    NoAddr = NoAddr
    Title = {1, 2}
    Interval = 3
    BlockLen = 2
    QueueLen = 2
    MaxBlocks = 3
    MaxTags = 2
    InlineInterval = 5
    FrameLen = 3
    Payload = {0, 1, 5}
    QBlock = 4
    Slack = 2
    More = 3
    TooMuch = 4
    MaxAudio = 24
    Adder = {c1, c2}
    Samples = 2
    Amount = {0, 1}
    Reduce = 1
    Lag = 1
    FirstTime = 4
    Final = 7
    MaxAdds = 4
    Ip = {"a", "b"}
    Wild = {"b"}
    Files = {{"a"}, {"*"}}
    WildLine = "*"
    NoData = NoData
    Duration <- Durations
    Period = 1
    Hold = 1
    Extension = 2
    LastTime = 3
    MaxEntries = 2
    MaxHolders = 1
    MaxEdits = 1
INVARIANTS
    BansExact
    AnswersOwn
    RatesExact
    MetadataFramed
SYMMETRY Symmetry
CHECK_DEADLOCK FALSE
