SPECIFICATION MCSpec
CONSTANTS
    Client = {c1, c2}
    Mount = {m1}
    Handle = {h1, h2}
    NoFile = NoFile
    None = None
    Listener = {n1, n2, n3}
    Port = {p1, p2}
    Low = {p2}
    Icy = {p1}
    ClientLimit = 1
    MaxReloads = 2
    Server = {"a", "b", "c"}
    Conf <- ConfOne
    Master = "b"
    MaxRedirects = 2
    Interval = {1}
    MasterInterval = 1
    Grace = 0
    StartTime = 2
    EndTime = 4
    Walker = {c1, c2}
INVARIANTS
    HandlesOwned
    PortsKept
    RedirectorsKept
SYMMETRY Symmetry
CHECK_DEADLOCK FALSE
