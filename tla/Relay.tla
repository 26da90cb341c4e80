------------------------------- MODULE Relay -------------------------------
(***************************************************************************)
(* Relays (slave.c): the relays of one mountpoint, each a client of a      *)
(* worker with relay_server details, through relay_initialise,             *)
(* relay_startup, the relay thread (start_relay_stream) and relay_read;    *)
(* the updates of the tree of relays by a configuration reload and by the  *)
(* stream list of a master; the pause of listeners over a restart.         *)
(*                                                                         *)
(* A process call of a relay client is two steps: get_relay_details under  *)
(* the lock of the tree, and the rest under the lock of the source.  The   *)
(* relay thread is a step per host, as it drops the source lock for each   *)
(* connection.  Times are left open: any timeout may have passed.          *)
(***************************************************************************)
EXTENDS Integers, FiniteSets

CONSTANTS
    RClient,        \* relay clients
    Details,        \* memory for relay_server structures
    Host,           \* servers to relay from: 1 .. n, in the order they are tried
    RListener,      \* listeners on the mountpoint
    ConnectLimit,   \* relays_connecting may not be above this to start (3)
    MaxUpdates,     \* bound on the updates of the relay tree
    MaxClock,       \* bound on the time of an update
    Nil

VARIABLES
    ops,        \* client->ops, "thread" while the relay thread has the client
    det,        \* client->shared_data
    polled,     \* get_relay_details was called, the rest of the routine is due
    rs,         \* relay_server structures
    tree,       \* global.relays: the details listed for the mountpoint
    barrier,    \* relay_barrier_xml and relay_barrier_master
    clock,      \* time of the last update
    updates,    \* number of updates done
    src,        \* the source of the mountpoint
    lst,        \* listeners of the source
    contime,    \* clients with connection.con_time
    left,       \* hosts the relay thread has not come to
    sources,    \* global.sources
    connecting, \* relays_connecting
    up,         \* global.running is ICE_RUNNING
    ondemand    \* the relay is configured RELAY_ON_DEMAND

vars == <<ops, det, polled, rs, tree, barrier, clock, updates, src, lst, contime,
          left, sources, connecting, up, ondemand>>
updvars == <<tree, barrier, clock, updates>>

(* what is asked of the constants; a run evaluates it *)
Settings ==
    /\ IsFiniteSet(RClient) /\ IsFiniteSet(RListener)
    /\ Host \subseteq Nat
    /\ MaxUpdates \in Nat /\ MaxClock \in Nat
    /\ Nil \notin RClient \cup Details \cup Host

NewDetails(master, t) ==
    [st |-> "live", run |-> TRUE, cleanup |-> FALSE, listed |-> TRUE,
     master |-> master, new |-> Nil, updated |-> t, src |-> FALSE,
     host |-> Nil, skip |-> {}]
FreeDetails == [NewDetails(FALSE, 0) EXCEPT !.st = "free"]

NoSource == [owner |-> Nil, run |-> FALSE, pause |-> FALSE, term |-> FALSE,
             sync |-> FALSE, demand |-> FALSE, fallback |-> FALSE, tc |-> 0]

TypeOK ==
    /\ ops \in [RClient -> {"none", "init", "startup", "thread", "client", "release"}]
    /\ det \in [RClient -> Details \cup {Nil}]
    /\ polled \in [RClient -> BOOLEAN]
    /\ rs \in [Details -> [st : {"live", "free"}, run : BOOLEAN, cleanup : BOOLEAN,
                           listed : BOOLEAN, master : BOOLEAN, new : Details \cup {Nil},
                           updated : 0 .. MaxClock, src : BOOLEAN,
                           host : Host \cup {Nil}, skip : SUBSET Host]]
    /\ tree \subseteq Details
    /\ barrier \in [{"xml", "master"} -> 0 .. MaxClock + 1]
    /\ clock \in 0 .. MaxClock /\ updates \in 0 .. MaxUpdates
    /\ src \in [owner : RClient \cup {Nil}, run : BOOLEAN, pause : BOOLEAN,
                term : BOOLEAN, sync : BOOLEAN, demand : BOOLEAN,
                fallback : BOOLEAN, tc : 0 .. Cardinality(RListener)]
    /\ lst \in [RListener -> [st : {"off", "on", "paused", "wait", "moving"}, pos : BOOLEAN]]
    /\ contime \subseteq RClient
    /\ left \in [RClient -> SUBSET Host]
    /\ sources \in 0 .. Cardinality(RClient) /\ connecting \in 0 .. Cardinality(RClient)
    /\ up \in BOOLEAN /\ ondemand \in BOOLEAN

Init ==
    /\ ops = [c \in RClient |-> "none"]
    /\ det = [c \in RClient |-> Nil]
    /\ polled = [c \in RClient |-> FALSE]
    /\ rs = [d \in Details |-> FreeDetails]
    /\ tree = {}
    /\ barrier = [b \in {"xml", "master"} |-> 0]
    /\ clock = 0 /\ updates = 0
    /\ src = NoSource
    /\ lst = [l \in RListener |-> [st |-> "off", pos |-> FALSE]]
    /\ contime = {}
    /\ left = [c \in RClient |-> {}]
    /\ sources = 0 /\ connecting = 0
    /\ up = TRUE /\ ondemand \in BOOLEAN

(***************************************************************************)
(* Operators                                                               *)
(***************************************************************************)
(* those source->listeners counts: not one that is being moved *)
Listeners == {l \in RListener : lst[l].st \in {"on", "paused", "wait"}}
Count == Cardinality(Listeners)

Referenced(d) == \/ \E c \in RClient : det[c] = d
                 \/ \E e \in Details : rs[e].st = "live" /\ rs[e].new = d
                 \/ d \in tree
(* one of them, as it makes no difference which one the allocator returns *)
AnyOf(S) == {x \in S : x = CHOOSE y \in S : TRUE}
Unused == AnyOf({d \in Details : rs[d].st = "free" /\ ~Referenced(d)})
UnusedClients == AnyOf({c \in RClient : ops[c] = "none"})

(* detach_master_relay: the details are no longer listed, and the relay is *)
(* to end when cleanup is given                                            *)
Detach(r, cleanup) == [r EXCEPT !.listed = FALSE, !.cleanup = @ \/ cleanup]

(* relay_expired *)
Expired(r) == r.updated < barrier[IF r.master THEN "master" ELSE "xml"]

(* relay_has_source: the source is reserved unless another owns the mount  *)
CanReserve == src.owner = Nil

(***************************************************************************)
(* Updates of the tree                                                     *)
(***************************************************************************)

(* relay_installed: a relay client for new details, with the source if it  *)
(* can be reserved                                                         *)
Install(base, c, d, master, t) ==
    /\ rs' = [base EXCEPT ![d] = [NewDetails(master, t) EXCEPT !.src = CanReserve]]
    /\ src' = IF CanReserve THEN [src EXCEPT !.owner = c] ELSE src
    /\ tree' = {d}
    /\ ops' = [ops EXCEPT ![c] = "init"]
    /\ det' = [det EXCEPT ![c] = d]

(* details that end or have no source yet are dropped by update_relays     *)
CanReplace == tree # {} /\ \A e \in tree : ~rs[e].cleanup /\ rs[e].src

(* update_relays with the relay configured: dropped details are replaced   *)
(* by a new relay, others are given the new details, which their client    *)
(* will take up                                                            *)
UpdateRelays(t) ==
    /\ up /\ updates < MaxUpdates /\ t \in {clock, clock + 1}
    /\ \E d \in Unused :
          IF CanReplace
          THEN /\ rs' = [e \in Details |->
                            CASE e = d -> NewDetails(FALSE, t)
                              [] e \in tree -> [Detach(rs[e], FALSE) EXCEPT !.new = d]
                              [] OTHER -> rs[e]]
               /\ tree' = {d}
               /\ UNCHANGED <<ops, det, src>>
          ELSE \E c \in UnusedClients :
                  Install([e \in Details |-> IF e \in tree THEN Detach(rs[e], FALSE) ELSE rs[e]],
                          c, d, FALSE, t)
    /\ barrier' = [barrier EXCEPT !["xml"] = t]
    /\ clock' = t /\ updates' = updates + 1
    /\ UNCHANGED <<polled, lst, contime, left, sources, connecting, up, ondemand>>

(* update_relays when the relay is not in the configuration                *)
UpdateWithout(t) ==
    /\ up /\ updates < MaxUpdates /\ t \in {clock, clock + 1}
    /\ barrier' = [barrier EXCEPT !["xml"] = t]
    /\ clock' = t /\ updates' = updates + 1
    /\ UNCHANGED <<ops, det, polled, rs, tree, src, lst, contime, left, sources, connecting, up, ondemand>>

(* add_master_relay: a mountpoint that the master lists is installed, or   *)
(* one that is there already is marked as listed now                       *)
AddMasterRelay(t) ==
    \/ /\ tree = {} \/ \E e \in tree : rs[e].cleanup
       /\ \E d \in Unused, c \in UnusedClients :
             Install([e \in Details |-> IF e \in tree THEN Detach(rs[e], FALSE) ELSE rs[e]],
                     c, d, TRUE, t)
    \/ /\ tree # {} /\ \A e \in tree : ~rs[e].cleanup
       /\ rs' = [e \in Details |-> IF e \in tree THEN [rs[e] EXCEPT !.updated = t] ELSE rs[e]]
       /\ UNCHANGED <<ops, det, tree, src>>

(* streamlist_thread: the master lists the mountpoint or does not, and the *)
(* list came to its end or was cut off                                     *)
StreamList(t, listed, ok) ==
    /\ up /\ updates < MaxUpdates /\ t \in {clock, clock + 1}
    /\ IF listed THEN AddMasterRelay(t) ELSE UNCHANGED <<ops, det, rs, tree, src>>
    /\ barrier' = IF ok THEN [barrier EXCEPT !["master"] = t] ELSE barrier
    /\ clock' = t /\ updates' = updates + 1
    /\ UNCHANGED <<polled, lst, contime, left, sources, connecting, up, ondemand>>

(* command_manage_relay: enable or disable; details without a source are   *)
(* outside this action, the code takes the lock of a source that is NULL   *)
ManageRelay(on) ==
    /\ up
    /\ \E e \in tree : /\ rs[e].src /\ rs[e].run # on
                       /\ rs' = [rs EXCEPT ![e].run = on]
    /\ UNCHANGED <<ops, det, polled, updvars, src, lst, contime, left, sources, connecting, up, ondemand>>

(* the end of _slave_thread: all relays have expired                       *)
Halt ==
    /\ up /\ up' = FALSE
    /\ barrier' = [b \in {"xml", "master"} |-> MaxClock + 1]
    /\ UNCHANGED <<ops, det, polled, rs, tree, clock, updates, src, lst, contime, left,
                   sources, connecting, ondemand>>

(***************************************************************************)
(* The relay client                                                        *)
(***************************************************************************)

(* get_relay_details: the client takes up new details with the source and  *)
(* frees the old; an expired relay is to end                               *)
GetDetails(c) ==
    LET old == det[c]
        cur == IF rs[old].new # Nil THEN rs[old].new ELSE old
        moved == IF cur = old THEN rs[old] ELSE [rs[cur] EXCEPT !.src = rs[old].src]
        ends == moved.cleanup \/ Expired(moved)
    IN
    /\ ops[c] \in {"init", "startup", "client"} /\ ~polled[c]
    /\ rs' = [e \in Details |->
                 CASE e = cur -> [moved EXCEPT !.cleanup = ends, !.run = @ /\ ~ends]
                   [] e = old /\ e # cur -> FreeDetails
                   [] OTHER -> rs[e]]
    /\ det' = [det EXCEPT ![c] = cur]
    /\ polled' = [polled EXCEPT ![c] = TRUE]
    /\ UNCHANGED <<ops, updvars, src, lst, contime, left, sources, connecting, up, ondemand>>

Now(c, o) == ops[c] = o /\ polled[c]
Done(c) == polled' = [polled EXCEPT ![c] = FALSE]

(* relay_initialise when the mountpoint is in use: wait *)
InitialiseWaits(c) ==
    /\ Now(c, "init") /\ ~rs[det[c]].src /\ ~CanReserve
    /\ Done(c)
    /\ UNCHANGED <<ops, det, rs, updvars, src, lst, contime, left, sources, connecting, up, ondemand>>

(* relay_initialise, with relay_has_source: on to relay_startup when the   *)
(* relay is to run, to relay_read when it is to end                        *)
Initialise(c) ==
    LET r == rs[det[c]]
        s == IF r.src THEN src ELSE [NoSource EXCEPT !.owner = c]
    IN
    /\ Now(c, "init") /\ (r.src \/ CanReserve)
    /\ rs' = [rs EXCEPT ![det[c]].src = TRUE]
    /\ src' = IF r.run /\ ondemand THEN [s EXCEPT !.demand = TRUE] ELSE s
    /\ ops' = [ops EXCEPT ![c] = IF r.run THEN "startup"
                                 ELSE IF r.cleanup THEN "client" ELSE "init"]
    /\ Done(c)
    /\ UNCHANGED <<det, updvars, lst, contime, left, sources, connecting, up, ondemand>>

(* relay_startup: a relay that is not to run goes to relay_read; otherwise *)
(* the relay thread is started, for an on-demand relay when a listener     *)
(* waits for it, here or on its fallback (fallback_count), and not above   *)
(* the limit on relays that are connecting                                 *)
StartupStops(c) ==
    /\ Now(c, "startup") /\ ~rs[det[c]].run
    /\ ops' = [ops EXCEPT ![c] = "client"]
    /\ Done(c)
    /\ UNCHANGED <<det, rs, updvars, src, lst, contime, left, sources, connecting, up, ondemand>>

StartupWaits(c) ==
    /\ Now(c, "startup") /\ rs[det[c]].run
    /\ ~up \/ (ondemand /\ Listeners = {}) \/ connecting > ConnectLimit
    /\ src' = IF ondemand /\ up THEN [src EXCEPT !.demand = TRUE] ELSE src
    /\ Done(c)
    /\ UNCHANGED <<ops, det, rs, updvars, lst, contime, left, sources, connecting, up, ondemand>>

Startup(c) ==
    /\ Now(c, "startup") /\ rs[det[c]].run /\ up
    /\ connecting <= ConnectLimit
    /\ src' = IF ondemand THEN [src EXCEPT !.demand = TRUE] ELSE src
    /\ connecting' = connecting + 1
    /\ ops' = [ops EXCEPT ![c] = "thread"]
    /\ left' = [left EXCEPT ![c] = {}]
    /\ Done(c)
    /\ UNCHANGED <<det, rs, updvars, lst, contime, sources, up, ondemand>>

(* start_relay_stream: the source is counted, listeners are to be paused   *)
(* at its end; without hosts left, or above the limit on sources, it fails *)
ThreadBegin(c) ==
    /\ ops[c] = "thread" /\ c \notin contime
    /\ sources' = sources + 1
    /\ contime' = contime \cup {c}
    /\ src' = [src EXCEPT !.pause = TRUE]
    /\ \E hosts \in {{}, Host \ rs[det[c]].skip} : left' = [left EXCEPT ![c] = hosts]
    /\ UNCHANGED <<ops, det, polled, rs, updvars, lst, connecting, up, ondemand>>

(* the next host of open_relay: the connection fails and the host is to be *)
(* skipped, or the format cannot be set up                                 *)
HostFails(c, skip) ==
    /\ ops[c] = "thread" /\ c \in contime /\ left[c] # {}
    /\ LET h == CHOOSE x \in left[c] : \A y \in left[c] : x <= y IN
       /\ rs' = [rs EXCEPT ![det[c]].host = h,
                           ![det[c]].skip = IF skip THEN @ \cup {h} ELSE @]
       /\ left' = [left EXCEPT ![c] = IF up THEN @ \ {h} ELSE {}]
    /\ UNCHANGED <<ops, det, polled, updvars, src, lst, contime, sources, connecting, up, ondemand>>

(* ... or the source runs *)
HostConnects(c) ==
    /\ ops[c] = "thread" /\ c \in contime /\ left[c] # {}
    /\ LET h == CHOOSE x \in left[c] : \A y \in left[c] : x <= y IN
       rs' = [rs EXCEPT ![det[c]].host = h]
    /\ src' = [src EXCEPT !.run = TRUE, !.demand = FALSE]
    /\ ops' = [ops EXCEPT ![c] = "client"]
    /\ connecting' = connecting - 1
    /\ left' = [left EXCEPT ![c] = {}]
    /\ UNCHANGED <<det, polled, updvars, lst, contime, sources, up, ondemand>>

(* mutant of ThreadFails: relays_connecting is not brought down *)
ThreadFailsCounted(c) ==
    /\ ops[c] = "thread" /\ c \in contime /\ left[c] = {}
    /\ rs' = [rs EXCEPT ![det[c]].host = Nil]
    /\ src' = [src EXCEPT !.pause = FALSE, !.run = FALSE]
    /\ ops' = [ops EXCEPT ![c] = "client"]
    /\ UNCHANGED <<det, polled, updvars, lst, contime, left, sources, connecting, up, ondemand>>

(* the end of start_relay_stream when no host could be used *)
ThreadFails(c) ==
    /\ ops[c] = "thread" /\ c \in contime /\ left[c] = {}
    /\ rs' = [rs EXCEPT ![det[c]].host = Nil]
    /\ src' = [src EXCEPT !.pause = FALSE, !.run = FALSE]
    /\ ops' = [ops EXCEPT ![c] = "client"]
    /\ connecting' = connecting - 1
    /\ UNCHANGED <<det, polled, updvars, lst, contime, left, sources, up, ondemand>>

(***************************************************************************)
(* relay_read                                                              *)
(***************************************************************************)

(* data is read and the source goes on *)
ReadOn(c) ==
    /\ Now(c, "client") /\ src.run /\ rs[det[c]].run
    /\ Done(c)
    /\ UNCHANGED <<ops, det, rs, updvars, src, lst, contime, left, sources, connecting, up, ondemand>>

(* The source stops, by source_read, by an on-demand relay without         *)
(* listeners, or as the relay is not to run; source_shutdown starts the    *)
(* processing of its listeners.  They stay for a relay that is retried.    *)
(* The server is skipped when it was no good, or all are to be retried.    *)
ReadStops(c) ==
    LET r == rs[det[c]]
        retried == c \in contime /\ up /\ r.run /\ r.host # Nil
        here == IF r.host = Nil THEN {} ELSE {r.host}
    IN
    /\ Now(c, "client") /\ ~src.term
    /\ \E fb \in BOOLEAN :      \* the mountpoint may have a fallback
          /\ fb => up /\ ~retried
          /\ src' = [src EXCEPT !.run = FALSE, !.term = TRUE, !.sync = TRUE,
                                !.demand = FALSE, !.tc = Count, !.fallback = fb,
                                !.pause = @ /\ r.run]
    /\ IF c \in contime /\ up
       THEN \E skip \in {r.skip \cup here, {}} : rs' = [rs EXCEPT ![det[c]].skip = skip]
       ELSE rs' = rs
    /\ UNCHANGED <<ops, det, polled, updvars, lst, contime, left, sources, connecting, up, ondemand>>

(* listeners are still to be processed; after 1.5 seconds they are told    *)
(* again                                                                   *)
Processing == src.term /\ src.tc > 0 /\ src.tc <= Count
ReadWaits(c) ==
    /\ Now(c, "client") /\ Processing
    /\ src' \in {src, [src EXCEPT !.term = FALSE]}
    /\ Done(c)
    /\ UNCHANGED <<ops, det, rs, updvars, lst, contime, left, sources, connecting, up, ondemand>>

(* All listeners have been checked.  A relay that ends rechecks the ones   *)
(* left, or leaves the tree and is released; another is started again, at  *)
(* once with the queue kept, or later with the source cleared.             *)
Checked(c) == Now(c, "client") /\ src.term /\ ~Processing
Settled == [src EXCEPT !.term = FALSE, !.sync = FALSE, !.demand = FALSE, !.fallback = FALSE]

(* the connection is closed, and the source no longer counted *)
Disconnect(c) ==
    /\ sources' = IF c \in contime THEN sources - 1 ELSE sources
    /\ contime' = contime \ {c}

ReadRechecks(c) ==
    /\ Checked(c) /\ rs[det[c]].cleanup /\ Count > 0
    /\ src' = [Settled EXCEPT !.tc = Count, !.pause = FALSE, !.sync = TRUE]
    /\ Disconnect(c) /\ Done(c)
    /\ UNCHANGED <<ops, det, rs, updvars, lst, left, connecting, up, ondemand>>

ReadEnds(c) ==
    /\ Checked(c) /\ rs[det[c]].cleanup /\ Count = 0
    /\ IF rs[det[c]].listed
       THEN rs' = [rs EXCEPT ![det[c]] = Detach(@, TRUE)] /\ tree' = {}
       ELSE UNCHANGED <<rs, tree>>
    /\ src' = Settled
    /\ ops' = [ops EXCEPT ![c] = "release"]
    /\ Disconnect(c) /\ Done(c)
    /\ UNCHANGED <<det, barrier, clock, updates, lst, left, connecting, up, ondemand>>

Restarts(c) == rs[det[c]].run /\ c \in contime /\ rs[det[c]].host # Nil

(* the source is cleared over a restart when it is on demand, has no       *)
(* listeners and another server to go to                                   *)
ReadRestarts(c) ==
    LET r == rs[det[c]] IN
    /\ Checked(c) /\ ~r.cleanup
    /\ rs' = [rs EXCEPT ![det[c]].skip =
                  IF \/ ~Restarts(c)
                     \/ ondemand /\ Count = 0 /\ (r.host + 1) \in Host
                  THEN {} ELSE @]
    /\ src' = Settled
    /\ ops' = [ops EXCEPT ![c] = "init"]
    /\ Disconnect(c) /\ Done(c)
    /\ UNCHANGED <<det, updvars, lst, left, connecting, up, ondemand>>

(* relay_release: the source and the details are freed *)
Release(c) ==
    /\ ops[c] = "release"
    /\ src' = IF rs[det[c]].src THEN NoSource ELSE src
    /\ rs' = [rs EXCEPT ![det[c]] = FreeDetails]
    /\ det' = [det EXCEPT ![c] = Nil]
    /\ ops' = [ops EXCEPT ![c] = "none"]
    /\ UNCHANGED <<polled, updvars, lst, contime, left, sources, connecting, up, ondemand>>

(***************************************************************************)
(* Listeners of the source                                                 *)
(***************************************************************************)
(* termination_count less one.  It is signed and compared with an unsigned *)
(* number: below zero it is above any count of listeners, and like 0.      *)
CheckedOff == IF src.tc = 0 THEN 0 ELSE src.tc - 1

SetListener(l, st, pos) == lst' = [lst EXCEPT ![l] = [st |-> st, pos |-> pos]]

Join(l) ==
    /\ up /\ lst[l].st = "off"
    /\ src.run \/ src.demand
    /\ ~src.sync
    /\ SetListener(l, "on", FALSE)
    /\ UNCHANGED <<ops, det, polled, rs, updvars, src, contime, left, sources, connecting, up, ondemand>>

(* send_listener: a listener is on a block of the queue, or it leaves *)
Listen(l) ==
    /\ lst[l].st = "on" /\ ~src.sync /\ src.run
    /\ SetListener(l, "on", TRUE) \/ SetListener(l, "off", FALSE)
    /\ UNCHANGED <<ops, det, polled, rs, updvars, src, contime, left, sources, connecting, up, ondemand>>

(* listener_waiting_on_source: the listener is paused, held with the       *)
(* others, or it leaves                                                    *)
Processed(l) ==
    /\ lst[l].st = "on" /\ src.sync /\ ~src.fallback
    /\ \/ SetListener(l, "off", FALSE)
       \/ src.term /\ src.pause /\ up /\ SetListener(l, "paused", FALSE)
       \/ ~src.term /\ SetListener(l, "wait", lst[l].pos)
    /\ src' = [src EXCEPT !.tc = CheckedOff]
    /\ UNCHANGED <<ops, det, polled, rs, updvars, contime, left, sources, connecting, up, ondemand>>

(* ... or it is moved to the fallback: the source is unlocked for that,    *)
(* with the listener not counted and still to be checked off               *)
MoveBegins(l) ==
    /\ lst[l].st = "on" /\ src.sync /\ src.fallback
    /\ SetListener(l, "moving", FALSE)
    /\ UNCHANGED <<ops, det, polled, rs, updvars, src, contime, left, sources, connecting, up, ondemand>>
MoveEnds(l) ==
    /\ lst[l].st = "moving"
    /\ SetListener(l, "off", FALSE)
    /\ src' = [src EXCEPT !.tc = CheckedOff]
    /\ UNCHANGED <<ops, det, polled, rs, updvars, contime, left, sources, connecting, up, ondemand>>

(* wait_for_restart, wait_for_other_listeners: back to sending.  A paused  *)
(* listener is dropped after 15 seconds.                                   *)
Resume(l) ==
    /\ \/ lst[l].st = "paused" /\ (src.run \/ ~src.pause \/ src.term \/ src.sync)
       \/ lst[l].st = "wait" /\ ~(src.sync /\ ~src.term)
    /\ SetListener(l, "on", lst[l].pos)
    /\ UNCHANGED <<ops, det, polled, rs, updvars, src, contime, left, sources, connecting, up, ondemand>>
Tired(l) ==
    /\ lst[l].st = "paused" /\ ~src.sync
    /\ SetListener(l, "off", FALSE)
    /\ UNCHANGED <<ops, det, polled, rs, updvars, src, contime, left, sources, connecting, up, ondemand>>

(***************************************************************************)
(* Specification                                                           *)
(***************************************************************************)
Next ==
    \/ \E t \in 0 .. MaxClock : UpdateRelays(t) \/ UpdateWithout(t)
    \/ \E t \in 0 .. MaxClock, listed, ok \in BOOLEAN : StreamList(t, listed, ok)
    \/ \E on \in BOOLEAN : ManageRelay(on)
    \/ Halt
    \/ \E c \in RClient :
          \/ GetDetails(c) \/ InitialiseWaits(c) \/ Initialise(c)
          \/ StartupStops(c) \/ StartupWaits(c) \/ Startup(c)
          \/ ThreadBegin(c) \/ HostConnects(c) \/ ThreadFails(c)
          \/ \E skip \in BOOLEAN : HostFails(c, skip)
          \/ ReadOn(c) \/ ReadStops(c) \/ ReadWaits(c)
          \/ ReadRechecks(c) \/ ReadEnds(c) \/ ReadRestarts(c) \/ Release(c)
    \/ \E l \in RListener :
          \/ Join(l) \/ Listen(l) \/ Processed(l) \/ MoveBegins(l) \/ MoveEnds(l)
          \/ Resume(l) \/ Tired(l)

Spec == Init /\ [][Next]_vars

(***************************************************************************)
(* Properties                                                              *)
(***************************************************************************)

(* global.sources counts the relays that are starting or streaming: each   *)
(* is taken off again once, "on all failures", through retries, rechecks   *)
(* and the end of the relay.                                               *)
SourcesBalance == sources = Cardinality(contime)

(* relays_connecting is the number of relay threads: were one left in the  *)
(* count at each failure, no relay could start any more after a few.       *)
ConnectingMatches == connecting = Cardinality({c \in RClient : ops[c] = "thread"})

(* No relay client, and nothing in the tree, refers to freed details.      *)
DetailsAlive ==
    /\ \A c \in RClient : det[c] # Nil => rs[det[c]].st = "live"
    /\ \A d \in tree : rs[d].st = "live" /\ rs[d].listed

(* A listed relay is served: by its client, or by one that has still to    *)
(* take up the new details.                                                *)
ListedServed ==
    \A d \in tree : \E c \in RClient :
        det[c] # Nil /\ (det[c] = d \/ rs[det[c]].new = d)

(* The source of the mountpoint has one relay client, the one that it      *)
(* names: two relays of a mount never feed it together.                    *)
OneRelayRuns ==
    \A c \in RClient :
        /\ det[c] # Nil /\ rs[det[c]].src => src.owner = c
        /\ ops[c] \in {"thread", "client"} => src.owner = c

(* Relays through failures, retries, reloads and updates from a master: the global counts are *)
(* taken back once on every path, no freed details are used, a listed relay has a client, and *)
(* one relay at a time feeds the source.                                                      *)
RelaysAccounted == 
    /\ TypeOK
    /\ SourcesBalance
    /\ ConnectingMatches
    /\ DetailsAlive
    /\ ListedServed
    /\ OneRelayRuns
=============================================================================
