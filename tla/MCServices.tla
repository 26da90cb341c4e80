----------------------------- MODULE MCServices -----------------------------
(***************************************************************************)
(* What the server does beside serving, for TLC: relays, the stream        *)
(* directories, the logs and the password file. They share no variable, so *)
(* a behaviour is one of a single part, which part says. Relay, which this *)
(* module extends, stays in an initial state over the behaviours of other  *)
(* parts; the others have no state in those of other parts.                *)
(***************************************************************************)
EXTENDS Relay, TLC

CONSTANTS
    Url, Station, PassLimit, MaxDelay, MaxAsks, MaxConfigs, RunLimit, CloseRuns, Keeps,
    MaxLines, MaxOpens, MaxReopens, User, Stem, Auth, Thread, None, MaxSecond, MaxCalls

OneHost == 1 .. 1
(* one of the names has a colon *)
Stems == [u \in User |-> IF u = "a:b" THEN "a" ELSE u]

VARIABLES
    part,           \* the component this behaviour is about
    active, pending, dropped, mounts, newMounts, update, counter, client, twice, stop,
    pass, at, failed, leftY, changes, list, changer, public, running, down, missed,
    swallowed, asks, configs,
    held, inUse, lines, badTail, written, keep, file, due, made, out, lock, pc, stack,
    line, loop, tries, signal, fault, overlap, noOpen, opens, reopens,
    fileP, tmp, users, mtime, writer, pcP, onP, op, nameP, seen, readP, second, calls,
    stamped, reused, overlapP, crossed, wanted, gone, cut, lost

Y == INSTANCE Directory WITH left <- leftY
L == INSTANCE Logs
P == INSTANCE PasswordFile WITH file <- fileP, pc <- pcP, on <- onP, name <- nameP,
        read <- readP, overlap <- overlapP

ASSUME RelaySettings == Settings
ASSUME DirectorySettings == Y!Settings
ASSUME LogSettings == L!Settings
ASSUME PasswordSettings == P!Settings

relayVars == vars
directoryVars == <<active, pending, dropped, mounts, newMounts, update, counter,
        client, twice, stop, pass, at, failed, leftY, changes, list, changer, public,
        running, down, missed, swallowed, asks, configs>>
logsVars == <<held, inUse, lines, badTail, written, keep, file, due, made, out, lock,
        pc, stack, line, loop, tries, signal, fault, overlap, noOpen, opens, reopens>>
passwordVars == <<fileP, tmp, users, mtime, writer, pcP, onP, op, nameP, seen, readP,
        second, calls, stamped, reused, overlapP, crossed, wanted, gone, cut, lost>>
allVars == <<part, relayVars, directoryVars, logsVars, passwordVars>>

NoRelay == Init /\ ~ondemand
NoDirectory == active = 0 /\ pending = 0 /\ dropped = 0 /\ mounts = 0 /\ newMounts = 0
    /\ update = 0 /\ counter = 0 /\ client = 0 /\ twice = 0 /\ stop = 0 /\ pass = 0
    /\ at = 0 /\ failed = 0 /\ leftY = 0 /\ changes = 0 /\ list = 0 /\ changer = 0
    /\ public = 0 /\ running = 0 /\ down = 0 /\ missed = 0 /\ swallowed = 0 /\ asks = 0
    /\ configs = 0
NoLogs == held = 0 /\ inUse = 0 /\ lines = 0 /\ badTail = 0 /\ written = 0 /\ keep = 0
    /\ file = 0 /\ due = 0 /\ made = 0 /\ out = 0 /\ lock = 0 /\ pc = 0 /\ stack = 0
    /\ line = 0 /\ loop = 0 /\ tries = 0 /\ signal = 0 /\ fault = 0 /\ overlap = 0
    /\ noOpen = 0 /\ opens = 0 /\ reopens = 0
NoPassword == fileP = 0 /\ tmp = 0 /\ users = 0 /\ mtime = 0 /\ writer = 0 /\ pcP = 0
    /\ onP = 0 /\ op = 0 /\ nameP = 0 /\ seen = 0 /\ readP = 0 /\ second = 0
    /\ calls = 0 /\ stamped = 0 /\ reused = 0 /\ overlapP = 0 /\ crossed = 0
    /\ wanted = 0 /\ gone = 0 /\ cut = 0 /\ lost = 0

MCInit ==
    \/ part = "relay" /\ Init /\ NoDirectory /\ NoLogs /\ NoPassword
    \/ part = "directory" /\ Y!Init /\ NoRelay /\ NoLogs /\ NoPassword
    \/ part = "logs" /\ L!Init /\ NoRelay /\ NoDirectory /\ NoPassword
    \/ part = "password" /\ P!Init /\ NoRelay /\ NoDirectory /\ NoLogs

OnlyRelay == UNCHANGED <<part, directoryVars, logsVars, passwordVars>>
OnlyDirectory == UNCHANGED <<part, relayVars, logsVars, passwordVars>>
OnlyLogs == UNCHANGED <<part, relayVars, directoryVars, passwordVars>>
OnlyPassword == UNCHANGED <<part, relayVars, directoryVars, logsVars>>

MCNext ==
    \/ part = "relay" /\ (\E t \in 0 .. MaxClock : UpdateRelays(t)) /\ OnlyRelay
    \/ part = "relay" /\ (\E t \in 0 .. MaxClock : UpdateWithout(t)) /\ OnlyRelay
    \/ part = "relay" /\ (\E t \in 0 .. MaxClock, listed, ok \in BOOLEAN : StreamList(t, listed, ok)) /\ OnlyRelay
    \/ part = "relay" /\ (\E on \in BOOLEAN : ManageRelay(on)) /\ OnlyRelay
    \/ part = "relay" /\ Halt /\ OnlyRelay
    \/ part = "relay" /\ (\E c \in RClient : GetDetails(c)) /\ OnlyRelay
    \/ part = "relay" /\ (\E c \in RClient : InitialiseWaits(c)) /\ OnlyRelay
    \/ part = "relay" /\ (\E c \in RClient : Initialise(c)) /\ OnlyRelay
    \/ part = "relay" /\ (\E c \in RClient : StartupStops(c)) /\ OnlyRelay
    \/ part = "relay" /\ (\E c \in RClient : StartupWaits(c)) /\ OnlyRelay
    \/ part = "relay" /\ (\E c \in RClient : Startup(c)) /\ OnlyRelay
    \/ part = "relay" /\ (\E c \in RClient : ThreadBegin(c)) /\ OnlyRelay
    \/ part = "relay" /\ (\E c \in RClient : HostConnects(c)) /\ OnlyRelay
    \/ part = "relay" /\ (\E c \in RClient : ThreadFails(c)) /\ OnlyRelay
    \/ part = "relay" /\ (\E c \in RClient : ReadOn(c)) /\ OnlyRelay
    \/ part = "relay" /\ (\E c \in RClient : ReadStops(c)) /\ OnlyRelay
    \/ part = "relay" /\ (\E c \in RClient : ReadWaits(c)) /\ OnlyRelay
    \/ part = "relay" /\ (\E c \in RClient : ReadRechecks(c)) /\ OnlyRelay
    \/ part = "relay" /\ (\E c \in RClient : ReadEnds(c)) /\ OnlyRelay
    \/ part = "relay" /\ (\E c \in RClient : ReadRestarts(c)) /\ OnlyRelay
    \/ part = "relay" /\ (\E c \in RClient : Release(c)) /\ OnlyRelay
    \/ part = "relay" /\ (\E c \in RClient, skip \in BOOLEAN : HostFails(c, skip)) /\ OnlyRelay
    \/ part = "relay" /\ (\E l \in RListener : Join(l)) /\ OnlyRelay
    \/ part = "relay" /\ (\E l \in RListener : Listen(l)) /\ OnlyRelay
    \/ part = "relay" /\ (\E l \in RListener : Processed(l)) /\ OnlyRelay
    \/ part = "relay" /\ (\E l \in RListener : MoveBegins(l)) /\ OnlyRelay
    \/ part = "relay" /\ (\E l \in RListener : MoveEnds(l)) /\ OnlyRelay
    \/ part = "relay" /\ (\E l \in RListener : Resume(l)) /\ OnlyRelay
    \/ part = "relay" /\ (\E l \in RListener : Tired(l)) /\ OnlyRelay
    \/ part = "directory" /\ (\E urls \in SUBSET Url : Y!RecheckConfig(urls)) /\ OnlyDirectory
    \/ part = "directory" /\ Y!DirectoryStarts /\ OnlyDirectory
    \/ part = "directory" /\ Y!DirectoryLeaves /\ OnlyDirectory
    \/ part = "directory" /\ Y!PassBegins /\ OnlyDirectory
    \/ part = "directory" /\ Y!Visit /\ OnlyDirectory
    \/ part = "directory" /\ Y!NextServer /\ OnlyDirectory
    \/ part = "directory" /\ Y!PassEnds /\ OnlyDirectory
    \/ part = "directory" /\ Y!Update /\ OnlyDirectory
    \/ part = "directory" /\ Y!ThreadEnds /\ OnlyDirectory
    \/ part = "directory" /\ (\E m \in Station : Y!SettingsPublic(m)) /\ OnlyDirectory
    \/ part = "directory" /\ (\E m \in Station : Y!SettingsPrivate(m)) /\ OnlyDirectory
    \/ part = "directory" /\ (\E m \in Station : Y!RelayFails(m)) /\ OnlyDirectory
    \/ part = "directory" /\ (\E m \in Station : Y!NewTitle(m)) /\ OnlyDirectory
    \/ part = "directory" /\ Y!Detach /\ OnlyDirectory
    \/ part = "directory" /\ Y!Apply /\ OnlyDirectory
    \/ part = "directory" /\ Y!ChangesDone /\ OnlyDirectory
    \/ part = "directory" /\ Y!Tick /\ OnlyDirectory
    \/ part = "directory" /\ Y!Halt /\ OnlyDirectory
    \/ part = "directory" /\ Y!Stop /\ OnlyDirectory
    \/ part = "directory" /\ Y!Shutdown /\ OnlyDirectory
    \/ part = "logs" /\ fault = "no" /\ L!Open /\ OnlyLogs
    \/ part = "logs" /\ fault = "no" /\ L!Write /\ OnlyLogs
    \/ part = "logs" /\ fault = "no" /\ L!Reload /\ OnlyLogs
    \/ part = "logs" /\ fault = "no" /\ L!Close /\ OnlyLogs
    \/ part = "logs" /\ fault = "no" /\ L!Commit /\ OnlyLogs
    \/ part = "logs" /\ fault = "no" /\ (\E r \in L!Runner : L!Begin(r)) /\ OnlyLogs
    \/ part = "logs" /\ fault = "no" /\ (\E r \in L!Runner : L!RunOver(r)) /\ OnlyLogs
    \/ part = "logs" /\ fault = "no" /\ (\E r \in L!Runner : L!PrintStarts(r)) /\ OnlyLogs
    \/ part = "logs" /\ fault = "no" /\ (\E r \in L!Runner : L!OpenFails(r)) /\ OnlyLogs
    \/ part = "logs" /\ fault = "no" /\ (\E r \in L!Runner : L!PrintEnds(r)) /\ OnlyLogs
    \/ part = "logs" /\ fault = "no" /\ (\E r \in L!Runner : L!EndCloses(r)) /\ OnlyLogs
    \/ part = "logs" /\ fault = "no" /\ (\E r \in L!Runner : L!EndReturns(r)) /\ OnlyLogs
    \/ part = "logs" /\ fault = "no" /\ (\E r \in L!Runner : L!CloseAgain(r)) /\ OnlyLogs
    \/ part = "logs" /\ fault = "no" /\ (\E r \in L!Runner : L!CloseEnds(r)) /\ OnlyLogs
    \/ part = "password" /\ (\E t \in Thread, a \in Auth, o \in {"add", "delete"}, u \in User : P!Call(t, a, o, u)) /\ OnlyPassword
    \/ part = "password" /\ (\E t \in Thread, a \in Auth, o \in {"auth", "list"} : P!Call(t, a, o, None)) /\ OnlyPassword
    \/ part = "password" /\ (\E t \in Thread : P!RecheckStat(t)) /\ OnlyPassword
    \/ part = "password" /\ (\E t \in Thread : P!RecheckOpenFails(t)) /\ OnlyPassword
    \/ part = "password" /\ (\E t \in Thread : P!RecheckRead(t)) /\ OnlyPassword
    \/ part = "password" /\ (\E t \in Thread : P!RecheckInstall(t)) /\ OnlyPassword
    \/ part = "password" /\ (\E t \in Thread : P!Lookup(t)) /\ OnlyPassword
    \/ part = "password" /\ (\E t \in Thread, whole \in BOOLEAN : P!AddUser(t, whole)) /\ OnlyPassword
    \/ part = "password" /\ (\E t \in Thread : P!AddFails(t)) /\ OnlyPassword
    \/ part = "password" /\ (\E t \in Thread : P!DeleteCheck(t)) /\ OnlyPassword
    \/ part = "password" /\ (\E t \in Thread : P!DeleteCopy(t)) /\ OnlyPassword
    \/ part = "password" /\ (\E t \in Thread : P!DeleteRemove(t)) /\ OnlyPassword
    \/ part = "password" /\ (\E t \in Thread, moved \in BOOLEAN : P!DeleteRename(t, moved)) /\ OnlyPassword
    \/ part = "password" /\ (\E a \in Auth, readable \in BOOLEAN : P!Configure(a, readable)) /\ OnlyPassword
    \/ part = "password" /\ P!Restart /\ OnlyPassword
    \/ part = "password" /\ P!Tick /\ OnlyPassword

MCSpec == MCInit /\ [][MCNext]_allVars

----------------------------------------------------------------------------
(* The directory client forgets no update and sleeps through no time, lists the public mounts *)
(* and no others once all changes are applied, and is not freed while its thread runs.        *)
DirectoryTrue == part = "directory" => Y!DirectoryTrue

(* A log is written once and in order, no line is dropped before it was written, and no freed *)
(* line is used, while lines are added, trimmed, and the log reopened or closed by others.    *)
LogKept == part = "logs" => L!LogKept

(* A table of users that counts as current is, and the file loses no user that was not deleted *)
(* and regains none that was, through failures of remove, rename and open and restarts of the  *)
(* server; a line that a failed write lost is excused, and names with a colon.                 *)
UsersKept == part = "password" => P!UsersKept

Symmetry == Permutations(Auth) \cup Permutations(Thread)
=============================================================================
