------------------------------ MODULE MCServer ------------------------------
(***************************************************************************)
(* What takes connections in and hands them on, for TLC: connections, file *)
(* serving and redirectors. They share no variable, so a behaviour is one  *)
(* of a single part, which part says. FileServe, which this module         *)
(* extends, stays in an initial state over the behaviours of other parts;  *)
(* the others have no state in those of other parts.                       *)
(***************************************************************************)
EXTENDS FileServe, SequencesExt, TLC

CONSTANTS
    Listener, Port, Low, Icy, ClientLimit,
    MaxReloads, Server, Conf, Master, MaxRedirects, Interval, MasterInterval, Grace,
    StartTime, EndTime, Walker

ConfOne == <<"a">>

VARIABLES
    part,           \* the component this behaviour is about
    lst, cfg, oldC, held, sock, conn, first, thr, crun, polled, ctl, reloads, redo,
    runningC, early, failed, cl,
    redirectors, redirect_count, walk, clock, reloading, turned, between,
    overcounted, freed, refused

C == INSTANCE Connections WITH old <- oldC, running <- runningC
D == INSTANCE Redirectors WITH Host <- Server

ASSUME FileSettings == Settings
ASSUME ConnectionSettings == C!Settings
ASSUME RedirectorSettings == D!Settings

filesVars == vars
connectionsVars == <<lst, cfg, oldC, held, sock, conn, first, thr, crun, polled, ctl,
        reloads, redo, runningC, early, failed, cl>>
redirectorsVars == <<redirectors, redirect_count, walk, clock, reloading, turned,
        between, overcounted, freed, refused>>
allVars == <<part, filesVars, connectionsVars, redirectorsVars>>

NoFiles == Init
NoConnections == lst = 0 /\ cfg = 0 /\ oldC = 0 /\ held = 0 /\ sock = 0 /\ conn = 0
    /\ first = 0 /\ thr = 0 /\ crun = 0 /\ polled = 0 /\ ctl = 0 /\ reloads = 0
    /\ redo = 0 /\ runningC = 0 /\ early = 0 /\ failed = 0 /\ cl = 0
NoRedirectors == redirectors = 0 /\ redirect_count = 0 /\ walk = 0 /\ clock = 0
    /\ reloading = 0 /\ turned = 0 /\ between = 0 /\ overcounted = 0 /\ freed = 0
    /\ refused = 0

MCInit ==
    \/ part = "files" /\ Init /\ NoConnections /\ NoRedirectors
    \/ part = "connections" /\ C!Init /\ NoFiles /\ NoRedirectors
    \/ part = "redirectors" /\ D!Init /\ NoFiles /\ NoConnections

OnlyFiles == UNCHANGED <<part, connectionsVars, redirectorsVars>>
OnlyConnections == UNCHANGED <<part, filesVars, redirectorsVars>>
OnlyRedirectors == UNCHANGED <<part, filesVars, connectionsVars>>

MCNext ==
    \/ part = "files" /\ (\E c \in Client, m \in Mount : RequestFile(c, m)) /\ OnlyFiles
    \/ part = "files" /\ (\E c \in Client : RequestResponse(c)) /\ OnlyFiles
    \/ part = "files" /\ (\E c \in Client : JoinSource(c)) /\ OnlyFiles
    \/ part = "files" /\ (\E c \in Client, m \in Mount : JoinFallback(c, m)) /\ OnlyFiles
    \/ part = "files" /\ (\E c \in Client, m \in Mount : FallBack(c, m)) /\ OnlyFiles
    \/ part = "files" /\ (\E c \in Client : LeaveSource(c)) /\ OnlyFiles
    \/ part = "files" /\ (\E c \in Client : ReleaseCount(c)) /\ OnlyFiles
    \/ part = "files" /\ (\E c \in Client : ReleaseHandle(c)) /\ OnlyFiles
    \/ part = "files" /\ (\E c \in Client : StartFile(c)) /\ OnlyFiles
    \/ part = "files" /\ (\E c \in Client : ConnectionError(c)) /\ OnlyFiles
    \/ part = "files" /\ (\E c \in Client : MoveToSource(c)) /\ OnlyFiles
    \/ part = "files" /\ (\E c \in Client : LeaveOld(c)) /\ OnlyFiles
    \/ part = "files" /\ (\E c \in Client : MoveFails(c)) /\ OnlyFiles
    \/ part = "files" /\ (\E c \in Client, m \in Mount : MoveToFile(c, m)) /\ OnlyFiles
    \/ part = "files" /\ (\E m \in Mount : QueryCount(m)) /\ OnlyFiles
    \/ part = "files" /\ (\E m \in Mount : SetOverride(m)) /\ OnlyFiles
    \/ part = "files" /\ (\E h \in AllHandles : Scan(h)) /\ OnlyFiles
    \/ part = "files" /\ (\E h \in AllHandles : ShutdownUnused(h)) /\ OnlyFiles
    \/ part = "files" /\ Reload /\ OnlyFiles
    \/ part = "files" /\ Shutdown /\ OnlyFiles
    \/ part = "files" /\ ShutdownFree /\ OnlyFiles
    \/ part = "connections" /\ C!ClearRead /\ OnlyConnections
    \/ part = "connections" /\ C!ClearWrite /\ OnlyConnections
    \/ part = "connections" /\ C!Shutdown("reload", "join reload", "close") /\ OnlyConnections
    \/ part = "connections" /\ C!Joined("join reload", "close") /\ OnlyConnections
    \/ part = "connections" /\ C!Shutdown("halt", "join halt", "end") /\ OnlyConnections
    \/ part = "connections" /\ C!Joined("join halt", "end") /\ OnlyConnections
    \/ part = "connections" /\ C!Startup /\ OnlyConnections
    \/ part = "connections" /\ C!Restart /\ OnlyConnections
    \/ part = "connections" /\ C!Joined("join restart", "start") /\ OnlyConnections
    \/ part = "connections" /\ (\E ports \in (SUBSET Port) \ {{}} : C!Reload(SetToSeq(ports), SetToSeq(Listener \ C!Referred))) /\ OnlyConnections
    \/ part = "connections" /\ C!CloseSockets /\ OnlyConnections
    \/ part = "connections" /\ C!ReloadEnds /\ OnlyConnections
    \/ part = "connections" /\ C!Halt /\ OnlyConnections
    \/ part = "connections" /\ (\E ok \in SUBSET cfg : C!SetupSockets(ok)) /\ OnlyConnections
    \/ part = "connections" /\ C!SetRunning /\ OnlyConnections
    \/ part = "connections" /\ C!LoopEnds /\ OnlyConnections
    \/ part = "connections" /\ C!Signal /\ OnlyConnections
    \/ part = "connections" /\ C!SignalFails /\ OnlyConnections
    \/ part = "connections" /\ C!AcceptDrops /\ OnlyConnections
    \/ part = "connections" /\ (\E i \in DOMAIN sock : C!Poll(i)) /\ OnlyConnections
    \/ part = "connections" /\ (\E i \in DOMAIN sock : C!SocketFails(i)) /\ OnlyConnections
    \/ part = "connections" /\ (\E c \in Client : C!AcceptClient(c)) /\ OnlyConnections
    \/ part = "connections" /\ (\E c \in Client : C!IcyPassword(c)) /\ OnlyConnections
    \/ part = "connections" /\ (\E c \in Client : C!IcyReply(c)) /\ OnlyConnections
    \/ part = "connections" /\ (\E c \in Client : C!DispatchListen(c)) /\ OnlyConnections
    \/ part = "connections" /\ (\E c \in Client : C!DispatchOther(c)) /\ OnlyConnections
    \/ part = "connections" /\ (\E c \in Client : C!Drop(c)) /\ OnlyConnections
    \/ part = "connections" /\ (\E c \in Client : C!KeepAlive(c)) /\ OnlyConnections
    \/ part = "redirectors" /\ ~freed /\ (\E w \in Walker : D!RedirectClient(w)) /\ OnlyRedirectors
    \/ part = "redirectors" /\ ~freed /\ (\E w \in Walker : D!Expires(w)) /\ OnlyRedirectors
    \/ part = "redirectors" /\ ~freed /\ (\E w \in Walker : D!Unlinks(w)) /\ OnlyRedirectors
    \/ part = "redirectors" /\ ~freed /\ (\E w \in Walker : D!CountRead(w)) /\ OnlyRedirectors
    \/ part = "redirectors" /\ ~freed /\ (\E w \in Walker : D!CountWrite(w)) /\ OnlyRedirectors
    \/ part = "redirectors" /\ ~freed /\ (\E w \in Walker : D!Passes(w)) /\ OnlyRedirectors
    \/ part = "redirectors" /\ ~freed /\ (\E w \in Walker : D!Ends(w)) /\ OnlyRedirectors
    \/ part = "redirectors" /\ ~freed /\ D!RedirectorClearall /\ OnlyRedirectors
    \/ part = "redirectors" /\ ~freed /\ D!RedirectorSetup /\ OnlyRedirectors
    \/ part = "redirectors" /\ ~freed /\ (\E h \in Server, n \in Interval : D!RedirectorUpdate(h, n)) /\ OnlyRedirectors
    \/ part = "redirectors" /\ ~freed /\ D!UpdateMasterAsSlave /\ OnlyRedirectors
    \/ part = "redirectors" /\ ~freed /\ D!Tick /\ OnlyRedirectors

MCSpec == MCInit /\ [][MCNext]_allVars

----------------------------------------------------------------------------
(* Over reloads, restarts of the accepting thread and clients that outlive their socket, a      *)
(* listener_t in use is not freed, a client has the settings of the port it came to, the client *)
(* limit holds, and a thread that is told to stop hears it.                                     *)
PortsKept == part = "connections" => C!PortsKept

(* The count of redirectors is that of the list but for a lost count-down; the list has the   *)
(* configured servers and each server once, no more slaves than allowed, and redirects a      *)
(* client if it can, while clients drop entries under the read lock and slaves and reloads    *)
(* add them.                                                                                  *)
RedirectorsKept == part = "redirectors" => D!RedirectorsKept

Symmetry == Permutations(Client)
=============================================================================
