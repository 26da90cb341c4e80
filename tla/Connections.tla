---------------------------- MODULE Connections ----------------------------
(***************************************************************************)
(* Connections and requests (connection.c, with the reload of event.c and  *)
(* the loop of the slave thread that drive it): the thread that accepts    *)
(* connections, its start and stop, the listening sockets and the counted  *)
(* listener_t structures behind them, and a client from its connection to  *)
(* the dispatch of its request.                                            *)
(*                                                                         *)
(* Three kinds of threads take steps: the slave thread (ctl), which        *)
(* reloads the configuration and starts and stops the connection thread,   *)
(* the connection thread (thr) and the workers that run the clients.  A    *)
(* listening socket is known by its port.                                  *)
(***************************************************************************)
EXTENDS Integers, Sequences, SequencesExt, FiniteSets

CONSTANTS
    Listener,   \* memory for listener_t
    Port,       \* ports a configuration can ask for
    Low,        \* those below 1024, which stay open over a reload
    Icy,        \* those with shoutcast-compat
    Client,     \* clients connected at a time
    ClientLimit,\* config->client_limit
    MaxReloads, \* bound on reloads, and restarts for a broken signal descriptor
    None

VARIABLES
    lst,        \* listener_t structures: port and refcount
    cfg,        \* config->listen_sock
    old,        \* structures config_clear_listener has still to be called on
    held,       \* one that it has read the refcount of, and what it read
    sock,       \* global.serversock: the port each socket is bound to
    conn,       \* global.server_conn
    first,      \* sockets_setup: the next setup is the one to skip
    thr,        \* connection thread
    crun,       \* connection_running
    polled,     \* port of the socket that wait_for_serversock returned
    ctl,        \* slave thread
    reloads,    \* number of these so far
    redo,       \* restart_connection_thread
    running,    \* global.running is ICE_RUNNING
    early,      \* the thread was told to stop before it set connection_running
    failed,     \* wait_for_serversock has removed a socket
    cl          \* clients

lvars == <<lst, cfg, old, held>>
svars == <<sock, conn, first, failed>>
tvars == <<thr, crun, polled>>
kvars == <<ctl, reloads, redo, early>>
vars == <<lst, cfg, old, held, sock, conn, first, thr, crun, polled, ctl, reloads, redo,
          running, early, failed, cl>>

(* what the proofs need of the constants *)
Settings ==
    /\ IsFiniteSet(Listener) /\ Listener # {} /\ IsFiniteSet(Port) /\ IsFiniteSet(Client)
    /\ None \notin Listener \cup Port
    /\ ClientLimit \in Nat /\ MaxReloads \in Nat

NoListener == [port |-> None, refs |-> 0]
NoClient == [st |-> "none", l |-> None, port |-> None]

(* icy, reply: a shoutcast source sends its password and is answered;      *)
(* header: the request is read; listen: it was dispatched to a stream or a *)
(* file; other: to administration, a source login or the stats feed, which *)
(* the limit does not apply to, or it was answered with an error           *)
Stages == {"none", "icy", "reply", "header", "listen", "other"}

TypeOK ==
    /\ lst \in [Listener -> [port : Port \cup {None}, refs : Nat]]
    /\ cfg \subseteq Listener
    /\ old \in Seq(Listener)
    /\ held \in [l : Listener \cup {None}, n : Nat]
    /\ sock \in Seq(Port) /\ conn \in Seq(Listener) /\ Len(sock) = Len(conn)
    /\ first \in BOOLEAN /\ failed \in BOOLEAN /\ early \in BOOLEAN
    /\ thr \in {"none", "new", "ready", "loop", "accept", "done"}
    /\ crun \in BOOLEAN /\ redo \in BOOLEAN /\ running \in BOOLEAN
    /\ reloads \in 0 .. MaxReloads
    /\ polled \in Port \cup {None}
    /\ ctl \in {"start", "idle", "reload", "join reload", "close", "clear",
                "join restart", "halt", "join halt", "end"}
    /\ cl \in [Client -> [st : Stages, l : Listener \cup {None},
                          port : Port \cup {None}]]

(* main has read the configuration and opened its sockets as root *)
Init ==
    /\ \E p \in Port : LET l == CHOOSE l \in Listener : TRUE IN
          /\ lst = [x \in Listener |-> IF x = l THEN [port |-> p, refs |-> 2] ELSE NoListener]
          /\ cfg = {l} /\ sock = <<p>> /\ conn = <<l>>
    /\ old = <<>> /\ held = [l |-> None, n |-> 0]
    /\ first = TRUE /\ failed = FALSE
    /\ thr = "none" /\ crun = FALSE /\ polled = None
    /\ ctl = "start" /\ reloads = 0 /\ redo = FALSE /\ early = FALSE
    /\ running = TRUE
    /\ cl = [c \in Client |-> NoClient]

(***************************************************************************)
(* listener_t                                                              *)
(***************************************************************************)
Referred == cfg \cup ToSet(old) \cup {held.l} \cup ToSet(conn) \cup {cl[c].l : c \in Client}

(* config_clear_listener with global_lock *)
Cleared(e) == IF e.refs = 1 THEN NoListener ELSE [e EXCEPT !.refs = @ - 1]

(* The reload calls it without the lock, while a worker may be calling it  *)
(* for a client: the count is read in one step and written in the next     *)
ClearRead ==
    /\ ctl \in {"close", "clear"} /\ held.l = None /\ old # <<>>
    /\ held' = [l |-> Head(old), n |-> lst[Head(old)].refs]
    /\ old' = Tail(old)
    /\ UNCHANGED <<lst, cfg, svars, tvars, kvars, running, cl>>

ClearWrite ==
    /\ held.l # None
    /\ lst' = [lst EXCEPT ![held.l] = Cleared([@ EXCEPT !.refs = held.n])]
    /\ held' = [l |-> None, n |-> 0]
    /\ UNCHANGED <<cfg, old, svars, tvars, kvars, running, cl>>

(***************************************************************************)
(* The slave thread                                                        *)
(***************************************************************************)

(* connection_thread_shutdown tells the thread *)
Stop == crun' = FALSE /\ early' = (thr \in {"new", "ready"})

(* and waits in thread_join when there is a thread *)
Shutdown(from, join, next) ==
    /\ ctl = from
    /\ IF thr = "none"
       THEN ctl' = next /\ UNCHANGED <<crun, early>>
       ELSE ctl' = join /\ Stop
    /\ UNCHANGED <<lvars, svars, thr, polled, reloads, redo, running, cl>>

Joined(join, next) ==
    /\ ctl = join /\ thr = "done"
    /\ thr' = "none" /\ ctl' = next /\ early' = FALSE
    /\ UNCHANGED <<lvars, svars, crun, polled, reloads, redo, running, cl>>

(* connection_thread_startup, at the start or for restart_connection_thread *)
Startup ==
    /\ ctl = "start" /\ thr = "none"
    /\ thr' = "new" /\ ctl' = "idle"
    /\ UNCHANGED <<lvars, svars, crun, polled, reloads, redo, early, running, cl>>

Restart ==
    /\ ctl = "idle" /\ redo /\ running
    /\ redo' = FALSE
    /\ IF thr = "none"
       THEN ctl' = "start" /\ UNCHANGED <<crun, early>>
       ELSE ctl' = "join restart" /\ Stop
    /\ UNCHANGED <<lvars, svars, thr, polled, reloads, running, cl>>

(* event_config_read: a configuration of one or more ports was parsed and  *)
(* is the current one from here on                                         *)
Reload(ports, new) ==
    /\ ctl = "idle" /\ running /\ Len(ports) <= Len(new)
    /\ reloads < MaxReloads /\ reloads' = reloads + 1
    /\ cfg' = {new[i] : i \in DOMAIN ports}
    /\ lst' = [l \in Listener |->
                  IF l \in cfg' THEN [port |-> ports[CHOOSE i \in DOMAIN ports : new[i] = l],
                                      refs |-> 1]
                  ELSE lst[l]]
    /\ old' = SetToSeq(cfg)
    /\ ctl' = "reload"
    /\ UNCHANGED <<held, svars, tvars, redo, early, running, cl>>

(* connection_listen_sockets_close: a low port of the new configuration    *)
(* stays open, with the structure of the old one                           *)
Keeps(i) == lst[conn[i]].port \in Low /\ \E l \in cfg : lst[l].port = lst[conn[i]].port

(* mutant of KeptConn: server_conn is not compacted with the sockets *)
KeptConnUnmoved(kept) == SubSeq(conn, 1, Len(kept))

KeptConn(kept) == [i \in DOMAIN kept |-> conn[kept[i]]]

(* places in the list of sockets, in their order *)
Places(S) ==
    CHOOSE p \in [1 .. Cardinality(S) -> S] : \A i, j \in DOMAIN p : i < j => p[i] < p[j]

CloseSockets ==
    /\ ctl = "close" /\ held.l = None
    /\ LET kept == Places({i \in DOMAIN sock : Keeps(i)})
           shut == Places({i \in DOMAIN sock : ~Keeps(i)})
       IN /\ sock' = [i \in DOMAIN kept |-> sock[kept[i]]]
          /\ conn' = KeptConn(kept)
          /\ old' = [i \in DOMAIN shut |-> conn[shut[i]]] \o old
    /\ redo' = TRUE
    /\ ctl' = "clear"
    /\ UNCHANGED <<lst, cfg, held, first, failed, tvars, reloads, early, running, cl>>

(* the end of config_clear *)
ReloadEnds ==
    /\ ctl = "clear" /\ old = <<>> /\ held.l = None
    /\ ctl' = "idle"
    /\ UNCHANGED <<lvars, svars, tvars, reloads, redo, early, running, cl>>

(* global.running is no longer ICE_RUNNING: the loop of the thread ends *)
Halt ==
    /\ ctl = "idle" /\ ~running
    /\ ctl' = "halt"
    /\ UNCHANGED <<lvars, svars, tvars, reloads, redo, early, running, cl>>

(***************************************************************************)
(* The connection thread                                                   *)
(***************************************************************************)

(* connection_setup_sockets: a port that is open already, or that cannot   *)
(* be bound, loses its place in the configuration                          *)
SetupSockets(ok) ==
    /\ thr = "new"
    /\ thr' = "ready"
    /\ IF first THEN first' = FALSE /\ UNCHANGED <<lst, cfg, sock, conn>>
       ELSE LET add == SetToSeq(ok) IN
            /\ \A l \in ok : lst[l].port \notin ToSet(sock)
            /\ sock' = sock \o [i \in DOMAIN add |-> lst[add[i]].port]
            /\ conn' = conn \o add
            /\ cfg' = ok
            /\ lst' = [l \in Listener |-> IF l \in ok THEN [lst[l] EXCEPT !.refs = @ + 1]
                                          ELSE IF l \in cfg THEN Cleared(lst[l]) ELSE lst[l]]
            /\ UNCHANGED first
    /\ UNCHANGED <<old, held, failed, crun, polled, kvars, running, cl>>

(* connection_thread sets the flag itself, whatever it was *)
SetRunning ==
    /\ thr = "ready"
    /\ thr' = "loop" /\ crun' = TRUE
    /\ UNCHANGED <<lvars, svars, polled, kvars, running, cl>>

LoopEnds ==
    /\ thr = "loop" /\ ~crun
    /\ thr' = "done"
    /\ UNCHANGED <<lvars, svars, crun, polled, kvars, running, cl>>

(* wait_for_serversock: a connection on one of the sockets *)
Poll(i) ==
    /\ thr = "loop" /\ crun
    /\ polled' = sock[i] /\ thr' = "accept"
    /\ UNCHANGED <<lvars, svars, crun, kvars, running, cl>>

(* an error on a socket: it is taken out of serversock, while server_conn  *)
(* keeps its places.  The bound is one such error in a behaviour           *)
SocketFails(i) ==
    /\ thr = "loop" /\ crun /\ ~failed
    /\ sock' = RemoveAt(sock, i)
    /\ conn' = Front(conn)
    /\ failed' = TRUE
    /\ UNCHANGED <<lvars, first, tvars, kvars, running, cl>>

(* SIGTERM or SIGINT through the signal descriptor *)
Signal ==
    /\ thr = "loop" /\ crun
    /\ crun' = FALSE /\ running' = FALSE
    /\ UNCHANGED <<lvars, svars, thr, polled, kvars, cl>>

(* the signal descriptor became invalid: slave_restart *)
SignalFails ==
    /\ thr = "loop" /\ crun
    /\ redo' = TRUE
    /\ reloads < MaxReloads /\ reloads' = reloads + 1
    /\ UNCHANGED <<lvars, svars, tvars, ctl, early, running, cl>>

Accepted(e) == [e EXCEPT !.refs = @ + 1]

(* accept_client: the structure is looked up by the socket *)
AcceptClient(c) ==
    /\ thr = "accept" /\ cl[c].st = "none"
    /\ \E i \in DOMAIN sock :
          /\ sock[i] = polled
          /\ lst' = [lst EXCEPT ![conn[i]] = Accepted(@)]
          /\ cl' = [cl EXCEPT ![c] =
                       [st |-> IF lst[conn[i]].port \in Icy THEN "icy" ELSE "header",
                        l |-> conn[i], port |-> polled]]
    /\ thr' = "loop" /\ polled' = None
    /\ UNCHANGED <<cfg, old, held, svars, crun, kvars, running>>

(* accept fails, the address is banned or not allowed, options are refused *)
AcceptDrops ==
    /\ thr = "accept"
    /\ thr' = "loop" /\ polled' = None
    /\ UNCHANGED <<lvars, svars, crun, kvars, running, cl>>

(***************************************************************************)
(* Clients                                                                 *)
(***************************************************************************)
Clients == Cardinality({c \in Client : cl[c].st # "none"})

Now(c, from, to) ==
    /\ cl[c].st \in from
    /\ cl' = [cl EXCEPT ![c].st = to]
    /\ UNCHANGED <<lvars, svars, tvars, kvars, running>>

(* shoutcast_source_client: the password line, then the answer *)
IcyPassword(c) == running /\ Now(c, {"icy"}, "reply")
IcyReply(c) == Now(c, {"reply"}, "header")

(* _handle_get_request *)
WithinLimit == Clients <= ClientLimit

(* http_client_request with a whole request, and the handler of its type  *)
DispatchListen(c) == running /\ WithinLimit /\ Now(c, {"header"}, "listen")
DispatchOther(c) == running /\ Now(c, {"header"}, "other")

(* client_destroy: the structure of the port is let go, with global_lock *)
Release(c) ==
    /\ lst' = [lst EXCEPT ![cl[c].l] = Cleared(@)]
    /\ cl' = [cl EXCEPT ![c] = NoClient]
    /\ UNCHANGED <<cfg, old, held, svars, tvars, kvars, running>>

(* the deadline of the header, an error, a full buffer, a request that is  *)
(* refused without an answer; or the end of the request                    *)
Drop(c) == cl[c].st # "none" /\ Release(c)

(* a keep-alive connection waits for its next request *)
KeepAlive(c) == running /\ Now(c, {"listen", "other"}, "header")

Next ==
    \/ ClearRead \/ ClearWrite
    \/ Shutdown("reload", "join reload", "close") \/ Joined("join reload", "close")
    \/ Shutdown("halt", "join halt", "end") \/ Joined("join halt", "end")
    \/ Startup \/ Restart \/ Joined("join restart", "start")
    \/ \E ports \in (SUBSET Port) \ {{}} : Reload(SetToSeq(ports), SetToSeq(Listener \ Referred))
    \/ CloseSockets \/ ReloadEnds \/ Halt
    \/ \E ok \in SUBSET cfg : SetupSockets(ok)
    \/ SetRunning \/ LoopEnds \/ Signal \/ SignalFails \/ AcceptDrops
    \/ \E i \in DOMAIN sock : Poll(i) \/ SocketFails(i)
    \/ \E c \in Client :
          \/ AcceptClient(c) \/ IcyPassword(c) \/ IcyReply(c)
          \/ DispatchListen(c) \/ DispatchOther(c) \/ Drop(c) \/ KeepAlive(c)

Spec == Init /\ [][Next]_vars

(***************************************************************************)
(* Properties                                                              *)
(***************************************************************************)
Uses(l) ==
    Cardinality({c \in Client : cl[c].l = l}) + Cardinality({i \in DOMAIN conn : conn[i] = l})
    + Cardinality({i \in DOMAIN old : old[i] = l})
    + (IF l \in cfg THEN 1 ELSE 0) + (IF l = held.l THEN 1 ELSE 0)

(* A listener_t is there for as long as the configuration, a socket, a     *)
(* client or a reload under way refers to it: its refcount never falls     *)
(* below their number, although the reload counts down without a lock.     *)
ListenerAlive ==
    \A l \in Listener : Uses(l) > 0 => lst[l].port # None /\ lst[l].refs >= Uses(l)

(* A client is handled with the settings (ssl, shoutcast-compat, mount) of *)
(* the port it connected to, over any number of reloads that keep some     *)
(* sockets and close others, as long as no listening socket has failed.    *)
PortMatches ==
    ~failed => \A c \in Client : cl[c].st # "none" => lst[cl[c].l].port = cl[c].port

(* Of the clients that ask for a stream or file with GET no more than      *)
(* client_limit are let in, whatever connects while they are checked.      *)
ListenBounded == Cardinality({c \in Client : cl[c].st = "listen"}) <= ClientLimit

(* While the slave thread waits in thread_join the connection thread sees  *)
(* that it has to end, unless it was told so before it got to set its own  *)
(* flag; then it goes on and the slave thread waits for it.                *)
StopHeard ==
    ctl \in {"join reload", "join restart", "join halt"} => ~crun \/ early

(* Over reloads, restarts of the accepting thread and clients that outlive their socket, a      *)
(* listener_t in use is not freed, a client has the settings of the port it came to, the client *)
(* limit holds, and a thread that is told to stop hears it.                                     *)
PortsKept == TypeOK /\ ListenerAlive /\ PortMatches /\ ListenBounded /\ StopHeard
=============================================================================
