SPECIFICATION MCSpec
CONSTANTS
    RClient = {r1, r2}
    Details = {d1, d2}
    Host <- OneHost
    RListener = {l1}
    ConnectLimit = 0
    MaxUpdates = 3
    MaxClock = 1
    Nil = Nil
    User = {"a", "a:b"}
    Stem <- Stems
    Auth = {a1, a2}
    Thread = {t1, t2}
    None = None
    MaxSecond = 2
    MaxCalls = 3
    Url = {u1}
    Station = {a}
    PassLimit = 1
    MaxDelay = 1
    MaxAsks = 2
    MaxConfigs = 2
    RunLimit = 3
    CloseRuns = 2
    Keeps = {0, 2}
    MaxLines = 3
    MaxOpens = 2
    MaxReopens = 2
INVARIANTS
    RelaysAccounted
    DirectoryTrue
    LogKept
    UsersKept
SYMMETRY Symmetry
CHECK_DEADLOCK FALSE
