----------------------------- MODULE Directory -----------------------------
(***************************************************************************)
(* The stream directory client (yp.c): the list of directory servers, the  *)
(* entries of the mounts listed on each, the queue of changes that sources *)
(* ask for, and the two detached threads: "YP change" applies the queue,   *)
(* "YP Thread" talks to the servers and updates the lists.                 *)
(*                                                                         *)
(* yp_lock is held for reading through a pass of the YP thread, so that    *)
(* each entry is a step of its own there; what is done under the write     *)
(* lock is one step.  Times are relative to now: Tick brings every one of  *)
(* them a unit closer, and a delay is any number of units, as the          *)
(* intervals come from the settings and the answers of the servers.        *)
(***************************************************************************)
EXTENDS Integers, Sequences, SequencesExt, FiniteSets

CONSTANTS
    Url,            \* directory servers
    Station,        \* mounts
    PassLimit,      \* within_limit of yp_process_server, 20 in the code
    MaxDelay,       \* units of the longest delay
    MaxAsks,        \* bound: changes asked for by sources
    MaxConfigs      \* bound: configurations read after the first

VARIABLES
    active,         \* active_yps
    pending,        \* pending_yps
    dropped,        \* servers with remove set
    mounts,         \* server->mounts
    newMounts,      \* server->pending_mounts
    update,         \* yp_update
    counter,        \* ypclient.counter, Never for (uint64_t)-1
    client,         \* ypclient: not on a worker, on one and active, or not active
    twice,          \* ypclient was given to a worker while it was on one
    stop,           \* ypclient.connection.error
    pass,           \* the YP thread
    at,             \* server and entry it has come to
    failed,         \* error is -2
    left,           \* within_limit
    changes,        \* yp_changes_head
    list,           \* changes taken off by the YP change thread
    changer,        \* the YP change thread: yp_pending_thread is set or not
    public,         \* source->yp_public of the source in the tree: 1, 0 or -1
    running,        \* global.running is ICE_RUNNING
    down,           \* yp_shutdown is done
    missed,         \* mounts whose removal found their entry still pending
    swallowed,      \* mounts whose addition found an entry on its way out
    asks, configs   \* uses of the bounds

serverVars == <<active, pending, dropped>>
entryVars == <<mounts, newMounts>>
passVars == <<pass, at, failed, left>>
changeVars == <<changes, list, changer, asks>>
ghosts == <<missed, swallowed>>
vars == <<active, pending, dropped, mounts, newMounts, update, counter, client,
          twice, stop, pass, at, failed, left, changes, list, changer, public,
          running, down, missed, swallowed, asks, configs>>

Never == MaxDelay + 1
Delay == 1 .. MaxDelay

(* what is assumed of the constants *)
Settings ==
    /\ IsFiniteSet(Url) /\ IsFiniteSet(Station)
    /\ PassLimit \in Nat /\ MaxDelay \in Nat /\ MaxAsks \in Nat /\ MaxConfigs \in Nat

Earlier(a, b) == IF a < b THEN a ELSE b

(* a set of numbers as a list, the least first *)
Places(S) ==
    CHOOSE p \in [1 .. Cardinality(S) -> S] : \A i, j \in DOMAIN p : i < j => p[i] < p[j]

(* what of a list is at these places, in the same order *)
Only(s, S) == [i \in DOMAIN Places(S) |-> s[Places(S)[i]]]

(* ypdata_t: process is do_yp_add or do_yp_touch between two passes *)
Entry == [mount : Station, process : {"add", "touch"}, release : BOOLEAN,
          remove : BOOLEAN, sid : BOOLEAN, next : 0 .. MaxDelay]

(* create_yp_entry *)
NewEntry(m, d) == [mount |-> m, process |-> "add", release |-> FALSE,
                   remove |-> FALSE, sid |-> FALSE, next |-> d]

Entries(u) == Range(mounts[u]) \cup Range(newMounts[u])
Listed == Range(active)

TypeOK ==
    /\ active \in Seq(Url) /\ pending \in Seq(Url)
    /\ dropped \subseteq Url
    /\ mounts \in [Url -> Seq(Entry)] /\ newMounts \in [Url -> Seq(Entry)]
    /\ update \in BOOLEAN /\ counter \in 0 .. Never
    /\ client \in {"none", "active", "inactive"}
    /\ twice \in BOOLEAN /\ stop \in BOOLEAN
    /\ pass \in {"none", "start", "servers", "update", "end"}
    /\ at \in Nat \X Nat /\ failed \in BOOLEAN /\ left \in 0 .. PassLimit
    /\ changes \in Seq([op : {"add", "remove", "touch"}, mount : Station])
    /\ list \in Seq([op : {"add", "remove", "touch"}, mount : Station])
    /\ changer \in {"none", "sleep", "apply"}
    /\ public \in [Station -> {-1, 0, 1}]
    /\ running \in BOOLEAN /\ down \in BOOLEAN
    /\ missed \subseteq Station /\ swallowed \subseteq Station
    /\ asks \in 0 .. MaxAsks /\ configs \in 0 .. MaxConfigs

(* find_yp_server: a server is in one of the lists, once *)
Unknown(u) == u \notin Range(active) \cup Range(pending)

(* yp_client_add.  A second call while active_yps is still empty hands the *)
(* same client to a worker again: the worker that finds it with another    *)
(* worker aborts the server, so a behaviour ends where twice is set.       *)
ClientAdded(urls) ==
    IF urls = {} \/ active # <<>> \/ ~running
    THEN UNCHANGED <<client, counter, twice, stop>>
    ELSE /\ client' = "active" /\ counter' = 0 /\ stop' = FALSE
         /\ twice' = (client # "none")

(* yp_recheck_config: it holds yp_lock for reading, as a pass does *)
RecheckConfig(urls) ==
    /\ configs < MaxConfigs /\ running /\ ~twice
    /\ configs' = configs + 1
    /\ dropped' = Range(active) \ urls
    /\ pending' = SetToSeq({u \in urls : Unknown(u)}) \o pending
    /\ update' = TRUE
    /\ ClientAdded(urls)
    /\ UNCHANGED <<active, entryVars, passVars, changeVars, public, running, down, ghosts>>

(* directory_recheck, run by the worker of ypclient *)
Due == update \/ (active # <<>> /\ mounts[Head(active)] # <<>> /\ counter = 0)

DirectoryStarts ==
    /\ client = "active" /\ ~twice /\ ~stop /\ Due
    /\ counter' = Never
    /\ client' = "inactive"
    /\ pass' = "start"
    /\ UNCHANGED <<serverVars, entryVars, update, twice, stop, at, failed, left,
                   changeVars, public, running, down, ghosts, configs>>

DirectoryLeaves ==
    /\ client = "active" /\ ~twice
    /\ stop \/ (active = <<>> /\ ~update)
    /\ client' = "none"
    /\ UNCHANGED <<serverVars, entryVars, update, counter, twice, stop, passVars,
                   changeVars, public, running, down, ghosts, configs>>

(* yp_update_thread takes the lock for reading *)
PassBegins ==
    /\ pass = "start" /\ ~twice
    /\ pass' = "servers"
    /\ UNCHANGED <<serverVars, entryVars, update, counter, client, twice, stop, at, failed, left,
                   changeVars, public, running, down, ghosts, configs>>

(* The answers to send_to_yp and what precedes it: each is the entry after *)
(* the call, the time it was given and the value returned.  yp_schedule    *)
(* also lowers the counter.                                                *)
Outcome(e, d, ret) == [e |-> [e EXCEPT !.next = d], d |-> d, ret |-> ret]

(* do_yp_add *)
AddOutcomes(e) ==
    {Outcome(e, d, 0) : d \in Delay}                                     \* no server_name
    \cup {Outcome(e, d, -1) : d \in Delay}                               \* no other stats
    \cup {Outcome([e EXCEPT !.process = "add"], d, -2) : d \in Delay}
    \cup {Outcome([e EXCEPT !.process = "add", !.sid = FALSE], d, -1) : d \in Delay}
    \cup {Outcome([e EXCEPT !.process = "touch", !.sid = s], d, 0) :
              d \in Delay, s \in {e.sid, TRUE}}

(* do_yp_touch: an entry with no sid is touched all the same *)
TouchOutcomes(e) ==
    {Outcome([e EXCEPT !.process = "add"], d, -2) : d \in Delay}
    \cup {Outcome([e EXCEPT !.process = "add", !.sid = FALSE], d, -1) : d \in Delay}
    \cup {Outcome(e, d, 0) : d \in Delay}

(* do_yp_remove, called for a released entry after yp_schedule (yp, 0) *)
RemoveOutcomes(e) ==
    LET gone == [e EXCEPT !.process = "add", !.sid = FALSE, !.remove = TRUE]
    IN IF e.sid
       THEN {Outcome(gone, d, -2) : d \in Delay} \cup {Outcome(gone, 0, r) : r \in {-1, 0}}
       ELSE {Outcome(gone, 0, 0)}

(* process_ypdata *)
ProcessOutcomes(e) ==
    IF e.release THEN RemoveOutcomes(e)
    ELSE IF e.process = "add" THEN AddOutcomes(e) ELSE TouchOutcomes(e)

(* the counter of a pass: the time of every entry that stays *)
CounterWith(c, e) == IF e.remove THEN c ELSE Earlier(c, e.next)

(* mutant of Marks: do_yp_remove leaves yp_update alone *)
MarksNot(e) == FALSE

(* do_yp_remove sets yp_update *)
Marks(e) == e.release

Here == mounts[active[at[1]]][at[2]]

(* an entry of yp_process_server *)
Visit ==
    /\ pass = "servers" /\ ~twice
    /\ at[1] <= Len(active)
    /\ at[2] <= Len(mounts[active[at[1]]])
    /\ LET u == active[at[1]]
           scheduled(d) == IF d = 0 \/ Here.release THEN 0 ELSE Earlier(counter, d)
       IN \/ /\ failed
             /\ \E d \in Delay :
                  /\ mounts' = [mounts EXCEPT ![u][at[2]].process = "add", ![u][at[2]].next = d]
                  /\ counter' = Earlier(counter, d)
             /\ UNCHANGED <<update, failed, left>>
          \/ /\ ~failed /\ left > 0 /\ Here.next = 0
             /\ left' = left - 1
             /\ \E o \in ProcessOutcomes(Here) :
                  /\ mounts' = [mounts EXCEPT ![u][at[2]] = o.e]
                  /\ counter' = CounterWith(scheduled(o.d), o.e)
                  /\ failed' = (o.ret = -2)
             /\ update' = (update \/ Marks(Here))
          \/ /\ ~failed /\ (left = 0 \/ Here.next > 0)
             /\ left' = IF left = 0 THEN 0 ELSE left - 1
             /\ counter' = CounterWith(counter, Here)
             /\ UNCHANGED <<mounts, update, failed>>
    /\ at' = <<at[1], at[2] + 1>>
    /\ UNCHANGED <<serverVars, newMounts, client, twice, stop, pass, changeVars, public,
                   running, down, ghosts, configs>>

NextServer ==
    /\ pass = "servers" /\ ~twice
    /\ at[1] <= Len(active)
    /\ at[2] > Len(mounts[active[at[1]]])
    /\ at' = <<at[1] + 1, 1>> /\ failed' = FALSE /\ left' = PassLimit
    /\ UNCHANGED <<serverVars, entryVars, update, counter, client, twice, stop, pass,
                   changeVars, public, running, down, ghosts, configs>>

PassEnds ==
    /\ pass = "servers" /\ ~twice
    /\ at[1] > Len(active)
    /\ pass' = IF update THEN "update" ELSE "end"
    /\ at' = <<1, 1>> /\ failed' = FALSE /\ left' = PassLimit
    /\ UNCHANGED <<serverVars, entryVars, update, counter, client, twice, stop,
                   changeVars, public, running, down, ghosts, configs>>

Staying(s) == Only(s, {i \in DOMAIN s : ~s[i].remove})

(* check_servers: new servers take the mounts of the public sources; -1 is *)
(* public here *)
ForSources(d) ==
    LET with == SetToSeq({m \in Station : public[m] # 0})
    IN [i \in DOMAIN with |-> NewEntry(with[i], d)]

(* the update under the write lock: check_servers, add_pending_yp and      *)
(* delete_marked_yp for every server.  The entries of a server that is     *)
(* dropped go with it.                                                     *)
Update ==
    /\ pass = "update" /\ ~twice
    /\ \E d \in 0 .. MaxDelay :
         LET kept == Only(active, {i \in DOMAIN active : active[i] \notin dropped})
             now == Reverse(pending) \o kept
             adds == \E u \in Range(now) : newMounts[u] # <<>>
             before(u) == IF u \in Range(kept) THEN mounts[u] ELSE ForSources(d)
             made == pending # <<>> /\ ForSources(d) # <<>>
         IN /\ active' = now
            /\ mounts' = [u \in Url |-> IF u \in Range(now)
                                        THEN Staying(newMounts[u] \o before(u))
                                        ELSE <<>>]
            /\ counter' = IF adds THEN 0 ELSE IF made THEN Earlier(counter, d) ELSE counter
    /\ pending' = <<>> /\ dropped' = {}
    /\ newMounts' = [u \in Url |-> <<>>]
    /\ update' = FALSE
    /\ pass' = "end"
    /\ UNCHANGED <<client, twice, stop, at, failed, left, changeVars, public, running,
                   down, ghosts, configs>>

ThreadEnds ==
    /\ pass = "end" /\ ~twice
    /\ pass' = "none"
    /\ client' = "active"
    /\ UNCHANGED <<serverVars, entryVars, update, counter, twice, stop, at, failed, left,
                   changeVars, public, running, down, ghosts, configs>>

(* yp_queue_change, after yp_add, yp_remove or yp_touch made the change *)
Queued(op, m) ==
    IF running
    THEN /\ changes' = Append(changes, [op |-> op, mount |-> m])
         /\ changer' = IF changer = "none" THEN "sleep" ELSE changer
         /\ UNCHANGED list
    ELSE UNCHANGED <<changes, list, changer>>

(* the calls: source_apply_mount, _free_source, a relay that fails, a  *)
(* new title *)
Ask(op, m, val) ==
    /\ asks < MaxAsks /\ ~twice
    /\ asks' = asks + 1
    /\ Queued(op, m)
    /\ public' = [public EXCEPT ![m] = val]
    /\ UNCHANGED <<serverVars, entryVars, update, counter, client, twice, stop, passVars,
                   running, down, ghosts, configs>>

SettingsPublic(m) == public[m] # 1 /\ Ask("add", m, 1)
SettingsPrivate(m) == public[m] # 0 /\ Ask("remove", m, 0)
RelayFails(m) == public[m] = 1 /\ Ask("remove", m, -1)
NewTitle(m) == public[m] = 1 /\ Ask("touch", m, 1)

(* yp_pending_update takes the queue *)
Detach ==
    /\ changer = "sleep" /\ ~twice
    /\ list' = changes /\ changes' = <<>>
    /\ changer' = "apply"
    /\ UNCHANGED <<serverVars, entryVars, update, counter, client, twice, stop, passVars,
                   asks, public, running, down, ghosts, configs>>

Has(s, m) == \E e \in Range(s) : e.mount = m

(* find_yp_mount finds an entry whatever its state *)
AddSkips(u, m) == Has(mounts[u], m)

(* yp_add_callback *)
AddCallback(m) ==
    /\ newMounts' = [u \in Url |->
           IF u \in Listed /\ ~AddSkips(u, m)
           THEN <<NewEntry(m, MaxDelay)>> \o newMounts[u] ELSE newMounts[u]]
    /\ \E d \in 0 .. MaxDelay :                         \* create_yp_entry schedules
         counter' = IF newMounts' = newMounts THEN counter ELSE Earlier(counter, d)
    /\ update' = (update \/ newMounts' # newMounts)
    /\ swallowed' = IF \E u \in Listed : /\ AddSkips(u, m)
                                         /\ \A e \in Entries(u) :
                                               e.mount = m => e.release \/ e.remove
                    THEN swallowed \cup {m} ELSE swallowed
    /\ UNCHANGED <<mounts, missed>>

Releasable(e, m) == e.mount = m /\ ~e.release /\ ~e.remove

(* yp_remove_callback looks at server->mounts only *)
RemoveCallback(m) ==
    /\ mounts' = [u \in Url |-> [i \in DOMAIN mounts[u] |->
           IF u \in Listed /\ Releasable(mounts[u][i], m)
           THEN [mounts[u][i] EXCEPT !.release = TRUE, !.next = 0] ELSE mounts[u][i]]]
    /\ update' = (update \/ mounts' # mounts)
    /\ missed' = IF \E u \in Listed : Has(newMounts[u], m) THEN missed \cup {m} ELSE missed
    /\ UNCHANGED <<newMounts, counter, swallowed>>

(* yp_touch_callback: the first entry of a server that is not on its way out *)
Touched(s, m) ==
    {i \in DOMAIN s : /\ Releasable(s[i], m)
                      /\ \A j \in 1 .. i - 1 : ~Releasable(s[j], m)}

TouchCallback(m) ==
    /\ \E d \in 0 .. MaxDelay :
         LET moves(u, i) == /\ u \in Listed /\ i \in Touched(mounts[u], m)
                            /\ mounts[u][i].process = "touch" /\ mounts[u][i].next > 0
         IN \/ /\ mounts' = [u \in Url |-> [i \in DOMAIN mounts[u] |->
                      IF moves(u, i) THEN [mounts[u][i] EXCEPT !.next = d] ELSE mounts[u][i]]]
               /\ counter' = IF mounts' = mounts THEN counter ELSE Earlier(counter, d)
            \/ UNCHANGED <<mounts, counter>>               \* within 30 seconds anyway
    /\ UNCHANGED <<newMounts, update, missed, swallowed>>

(* the changes of the list, one after the other, under the write lock      *)
Apply ==
    /\ changer = "apply" /\ pass # "servers" /\ ~twice
    /\ list # <<>>
    /\ list' = Tail(list)
    /\ IF stop THEN UNCHANGED <<entryVars, update, counter, ghosts>>
       ELSE LET c == Head(list)
            IN \/ c.op = "add" /\ AddCallback(c.mount)
               \/ c.op = "remove" /\ RemoveCallback(c.mount)
               \/ c.op = "touch" /\ TouchCallback(c.mount)
    /\ UNCHANGED <<serverVars, client, twice, stop, passVars, changes, changer, asks,
                   public, running, down, configs>>

(* the queue is looked at again before the thread ends *)
ChangesDone ==
    /\ changer = "apply" /\ list = <<>> /\ ~twice
    /\ \/ changes # <<>> /\ list' = changes /\ changes' = <<>> /\ changer' = "apply"
       \/ changes = <<>> /\ changer' = "none" /\ UNCHANGED <<changes, list>>
    /\ UNCHANGED <<serverVars, entryVars, update, counter, client, twice, stop, passVars,
                   asks, public, running, down, ghosts, configs>>

Tick ==
    /\ ~twice
    /\ counter \in 1 .. MaxDelay \/ \E u \in Url, e \in Entry : e \in Entries(u) /\ e.next > 0
    /\ LET sooner(s) == [i \in DOMAIN s |-> [s[i] EXCEPT !.next = IF @ = 0 THEN 0 ELSE @ - 1]]
       IN /\ mounts' = [u \in Url |-> sooner(mounts[u])]
          /\ newMounts' = [u \in Url |-> sooner(newMounts[u])]
    /\ counter' = IF counter \in 1 .. MaxDelay THEN counter - 1 ELSE counter
    /\ UNCHANGED <<serverVars, update, client, twice, stop, passVars, changeVars, public,
                   running, down, ghosts, configs>>

(* global.running is given up, then yp_stop *)
Halt ==
    /\ running /\ ~twice
    /\ running' = FALSE
    /\ UNCHANGED <<serverVars, entryVars, update, counter, client, twice, stop, passVars,
                   changeVars, public, down, ghosts, configs>>

Stop ==
    /\ ~running /\ ~stop /\ client # "none" /\ ~twice
    /\ stop' = TRUE
    /\ UNCHANGED <<serverVars, entryVars, update, counter, client, twice, passVars,
                   changeVars, public, running, down, ghosts, configs>>

(* yp_shutdown, after workers_adjust (0) has waited for the workers, and   *)
(* they for their clients *)
WorkersGone == client = "none"

Shutdown ==
    /\ ~running /\ WorkersGone /\ ~down /\ ~twice
    /\ down' = TRUE
    /\ active' = <<>>
    /\ mounts' = [u \in Url |-> <<>>] /\ newMounts' = [u \in Url |-> <<>>]
    /\ UNCHANGED <<pending, dropped, update, counter, client, twice, stop, passVars,
                   changeVars, public, running, ghosts, configs>>

(* yp_initialize: the first configuration *)
Init ==
    /\ \E urls \in SUBSET Url :
         /\ pending = SetToSeq(urls)
         /\ client = IF urls = {} THEN "none" ELSE "active"
    /\ active = <<>> /\ dropped = {}
    /\ mounts = [u \in Url |-> <<>>] /\ newMounts = [u \in Url |-> <<>>]
    /\ update = TRUE
    /\ counter = 0 /\ twice = FALSE /\ stop = FALSE
    /\ pass = "none" /\ at = <<1, 1>> /\ failed = FALSE /\ left = PassLimit
    /\ changes = <<>> /\ list = <<>> /\ changer = "none"
    /\ public = [m \in Station |-> 0]
    /\ running = TRUE /\ down = FALSE
    /\ missed = {} /\ swallowed = {}
    /\ asks = 0 /\ configs = 0

Next ==
    \/ \E urls \in SUBSET Url : RecheckConfig(urls)
    \/ DirectoryStarts \/ DirectoryLeaves
    \/ PassBegins \/ Visit \/ NextServer \/ PassEnds \/ Update \/ ThreadEnds
    \/ \E m \in Station : \/ SettingsPublic(m) \/ SettingsPrivate(m)
                          \/ RelayFails(m) \/ NewTitle(m)
    \/ Detach \/ Apply \/ ChangesDone
    \/ Tick \/ Halt \/ Stop \/ Shutdown

Spec == Init /\ [][Next]_vars
-----------------------------------------------------------------------------
(* What waits for the update under the write lock (new servers, servers to *)
(* drop, pending entries, entries marked by do_yp_remove) has yp_update    *)
(* set, so the YP thread will come to it: no writer of the flag loses the  *)
(* work of another one.                                                    *)
UpdateFlagged ==
    ~down /\ (\/ pending # <<>> \/ dropped # {}
              \/ \E u \in Listed : newMounts[u] # <<>>
              \/ \E u \in Listed, e \in Entry : e \in Range(mounts[u]) /\ e.remove)
        => update

(* Between two passes ypclient.counter is no later than the time of any    *)
(* entry, or an update is due: no touch or retry is slept through,         *)
(* whichever thread set its time (directory_recheck, yp_schedule).  A      *)
(* released entry is the exception: yp_remove_callback sets its time with  *)
(* no yp_schedule, and the yp_update it sets between a pass and the update *)
(* is cleared before the entry was seen.                                   *)
WakesInTime ==
    pass = "none" /\ ~update /\ ~down =>
        \A u \in Listed : \A i \in DOMAIN mounts[u] :
            mounts[u][i].release \/ counter <= mounts[u][i].next

Settled == changes = <<>> /\ list = <<>> /\ running /\ ~stop

(* When every change has been applied, the entries of a mount that is not  *)
(* public are on their way out of every directory.  The exception is a     *)
(* removal that came while the entry was in pending_mounts, which          *)
(* yp_remove_callback does not search.                                     *)
PrivateReleased ==
    Settled => \A u \in Listed : \A e \in Entries(u) :
                   public[e.mount] = 0 => e.release \/ e.remove \/ e.mount \in missed

(* When every change has been applied, a public mount has an entry to stay *)
(* on every server, also one that a reload added.  The exception is an     *)
(* addition that found an entry on its way out, which yp_add_callback      *)
(* takes for an existing one.                                              *)
PublicKept ==
    Settled => \A u \in Listed, m \in Station :
                   public[m] = 1 /\ m \notin swallowed =>
                       \E e \in Entries(u) : Releasable(e, m)

(* yp_shutdown frees the servers and destroys the lock only when the YP    *)
(* thread, which may be in a request of many seconds, has ended: the       *)
(* worker of ypclient does not end while it is inactive.                   *)
ShutdownQuiet == down => pass = "none"

(* The directory client forgets no update and sleeps through no time, lists the public mounts *)
(* and no others once all changes are applied, and is not freed while its thread runs.        *)
DirectoryTrue == 
    /\ TypeOK
    /\ UpdateFlagged
    /\ WakesInTime
    /\ PrivateReleased
    /\ PublicKept
    /\ ShutdownQuiet
=============================================================================
