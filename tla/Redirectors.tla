---------------------------- MODULE Redirectors ----------------------------
(***************************************************************************)
(* The list of servers that listeners are sent to when this one is full    *)
(* (slave.c: redirect_client and the redirector functions).  Entries come  *)
(* from the configuration, the master setting and slaves that ask for the  *)
(* stream list; an entry with a next_update time is dropped by the client  *)
(* that walks past it once that time has gone by.  Walks share the read    *)
(* side of slaves_lock although they remove entries and count them out, so *)
(* each load and each store of a removal is a step; every other operation  *)
(* takes the write side and is one step here.                              *)
(***************************************************************************)
EXTENDS Integers, Sequences, SequencesExt, FiniteSets

CONSTANTS
    Host,           \* server and port of a redirector
    Conf,           \* config->redirect_hosts, in the order they are added
    Master,         \* config->master_server
    MaxRedirects,   \* config->max_redirects
    Interval,       \* intervals that slaves report
    MasterInterval, \* config->master_update_interval
    Grace,          \* seconds an entry outlives its next_update
    StartTime,      \* time at which the server starts
    EndTime,        \* bound on the clock
    Walker          \* clients looking for a redirector

VARIABLES
    redirectors,    \* the entries, first to last
    redirect_count, \* global.redirect_count
    walk,           \* state of each walk
    clock,          \* time(NULL)
    reloading,      \* between redirector_clearall and redirector_setup
    turned,         \* configured hosts whose entry was given a next_update
    between,        \* a slave was added between the two halves of a reload
    overcounted,    \* a count-down of redirect_count was overwritten
    freed,          \* an entry that is freed is used, by a walk or in the list
    refused         \* a client was refused at the end of a whole list

vars == <<redirectors, redirect_count, walk, clock, reloading, turned, between,
          overcounted, freed, refused>>

(* what the proofs need of the constants: the configuration lists a host once *)
Settings ==
    /\ Conf \in Seq(Host) /\ \A i, j \in DOMAIN Conf : Conf[i] = Conf[j] => i = j
    /\ Master \in Host
    /\ MaxRedirects \in Nat /\ Interval \subseteq Nat /\ MasterInterval \in Nat
    /\ IsFiniteSet(Walker)
    /\ Grace \in Nat /\ StartTime \in Nat /\ EndTime \in Nat /\ StartTime <= EndTime

(* An entry is known by its place in memory, which the model takes to be   *)
(* the host and the time it was added with: upd is next_update, by who     *)
(* added it.                                                               *)
Entry(h, u, b) == [host |-> h, upd |-> u, by |-> b]

(* A walk is "in" the loop, between the load and the store of *trail =     *)
(* checking->next ("unlink"), or of redirect_count-- ("count", "store").   *)
(* at is the place of checking, for the last two that of what comes next;  *)
(* reg is the count it loaded.  loose: trail is in an entry that was taken *)
(* out since.  stale: the checking->next it loaded was taken out since.    *)
NoWalk == [st |-> "out", at |-> 0, which |-> 0, sent |-> FALSE, dropped |-> FALSE,
           reg |-> 0, loose |-> FALSE, stale |-> FALSE]

Init ==
    /\ redirectors = Reverse([i \in DOMAIN Conf |-> Entry(Conf[i], 0, "conf")])
    /\ redirect_count = Len(Conf)
    /\ walk = [w \in Walker |-> NoWalk]
    /\ clock = StartTime
    /\ reloading = FALSE
    /\ turned = {}
    /\ between = FALSE
    /\ overcounted = FALSE
    /\ freed = FALSE
    /\ refused = FALSE

(* find_slave_host *)
Found(h) == {i \in DOMAIN redirectors : redirectors[i].host = h}
Inside == {w \in Walker : walk[w].st # "out"}

(* the walks that took an entry out and have not counted it out *)
Uncounted == {w \in Walker : walk[w].st \in {"count", "store"}}

----------------------------------------------------------------------------
(* redirect_client.  A walk holds its place in the list as an index; a     *)
(* walk that removes an entry shifts those that stand behind it.           *)

(* the random selection: one of the entries, counted from one *)
Selections == 1 .. redirect_count

RedirectClient(w) ==
    /\ walk[w].st = "out"
    /\ \/ redirect_count = 0 /\ UNCHANGED walk
       \/ \E which \in Selections :
             walk' = [walk EXCEPT ![w] = [NoWalk EXCEPT !.st = "in", !.at = 1, !.which = which,
                                                        !.dropped = Uncounted # {}]]
    /\ UNCHANGED <<redirectors, redirect_count, clock, reloading, turned, between,
                   overcounted, freed, refused>>

Expired(e) == e.upd # 0 /\ e.upd + Grace < clock

(* no streamlist request for too long: the entry is to be dropped, and the *)
(* walk loads checking->next                                               *)
Expires(w) ==
    /\ walk[w].st = "in"
    /\ walk[w].at \in DOMAIN redirectors
    /\ Expired(redirectors[walk[w].at])
    /\ walk' = [walk EXCEPT ![w].st = "unlink"]
    /\ UNCHANGED <<redirectors, redirect_count, clock, reloading, turned, between,
                   overcounted, freed, refused>>

(* what the removal of entry i is to the walk v *)
Shifted(v, i) ==
    [walk[v] EXCEPT !.at = IF @ > i THEN @ - 1 ELSE @,
                    !.dropped = TRUE,
                    !.loose = @ \/ walk[v].at = i + 1,
                    !.stale = @ \/ (walk[v].st = "unlink" /\ walk[v].at = i - 1)]

(* The store of the walk w goes to an entry that was taken out, links one  *)
(* that was, or takes out the entry another walk stands on or comes to     *)
(* through an entry that was: both will use or free it.                    *)
Misuses(w, i) ==
    \/ walk[w].loose \/ walk[w].stale
    \/ \E v \in Inside \ {w} : walk[v].at = i /\ (v \in Uncounted => walk[v].loose)

(* *trail = checking->next *)
Unlinks(w) ==
    /\ walk[w].st = "unlink"
    /\ LET i == walk[w].at
       IN  /\ redirectors' = RemoveAt(redirectors, i)
           /\ walk' = [v \in Walker |->
                         IF v = w THEN [walk[w] EXCEPT !.st = "count", !.dropped = TRUE]
                         ELSE IF v \in Inside THEN Shifted(v, i)
                         ELSE walk[v]]
           /\ freed' = Misuses(w, i)
    /\ UNCHANGED <<redirect_count, clock, reloading, turned, between, overcounted, refused>>

(* redirect_count--, its load *)
CountRead(w) ==
    /\ walk[w].st = "count"
    /\ walk' = [walk EXCEPT ![w].st = "store", ![w].reg = redirect_count]
    /\ UNCHANGED <<redirectors, redirect_count, clock, reloading, turned, between,
                   overcounted, freed, refused>>

(* mutant of Counted: redirect_count is left as it was *)
CountedNot(w) == walk[w].reg

Counted(w) == walk[w].reg - 1

(* ... and its store, which may overwrite the one of another walk.  Then   *)
(* the entry is freed and the walk goes on at *trail.                      *)
CountWrite(w) ==
    /\ walk[w].st = "store"
    /\ redirect_count' = Counted(w)
    /\ overcounted' = (overcounted \/ walk[w].reg # redirect_count)
    /\ walk' = [walk EXCEPT ![w].st = "in", ![w].reg = 0,
                            ![w].which = IF @ > 0 THEN @ - 1 ELSE @]
    /\ freed' \in {FALSE, walk[w].loose}
    /\ UNCHANGED <<redirectors, clock, reloading, turned, between, refused>>

(* the selected entry answers the client with its location; the walk goes  *)
(* on to the end of the list.  A selection that was passed stays at 0: the *)
(* code counts on below it, where nothing is selected.                     *)
Passes(w) ==
    /\ walk[w].st = "in"
    /\ walk[w].at \in DOMAIN redirectors
    /\ ~Expired(redirectors[walk[w].at])
    /\ walk' = [walk EXCEPT ![w].at = @ + 1,
                            ![w].which = IF @ > 0 THEN @ - 1 ELSE @,
                            ![w].sent = @ \/ walk[w].which = 1,
                            ![w].loose = FALSE]
    /\ UNCHANGED <<redirectors, redirect_count, clock, reloading, turned, between,
                   overcounted, freed, refused>>

Ends(w) ==
    /\ walk[w].st = "in"
    /\ walk[w].at \notin DOMAIN redirectors
    /\ walk' = [walk EXCEPT ![w] = NoWalk]
    /\ refused' = (refused \/ ~(walk[w].sent \/ walk[w].dropped \/ overcounted))
    /\ UNCHANGED <<redirectors, redirect_count, clock, reloading, turned, between, overcounted, freed>>

----------------------------------------------------------------------------
(* Operations under the write lock: no walk is inside                      *)

(* redirector_add: a new entry is put first *)
Add(es) ==
    /\ redirectors' = es \o redirectors
    /\ redirect_count' = redirect_count + Len(es)

(* redirector_clearall *)
RedirectorClearall ==
    /\ Inside = {}
    /\ ~reloading
    /\ redirectors' = << >>
    /\ redirect_count' = 0
    /\ reloading' = TRUE
    /\ turned' = {}
    /\ between' = FALSE
    /\ overcounted' = FALSE
    /\ UNCHANGED <<walk, clock, freed, refused>>

(* redirector_setup *)
RedirectorSetup ==
    /\ Inside = {}
    /\ reloading
    /\ Add(Reverse([i \in DOMAIN Conf |-> Entry(Conf[i], 0, "conf")]))
    /\ reloading' = FALSE
    /\ UNCHANGED <<walk, clock, turned, between, overcounted, freed, refused>>

Touched(h, u) ==
    /\ redirectors' = [redirectors EXCEPT ![CHOOSE i \in Found(h) : \A j \in Found(h) : i <= j].upd = u]
    /\ turned' = turned \cup {h}

Allowed == redirect_count < MaxRedirects

(* redirector_update: a slave reports its host and how often it will ask *)
RedirectorUpdate(h, n) ==
    /\ Inside = {}
    /\ \/ /\ Found(h) = {}
          /\ Allowed
          /\ Add(<<Entry(h, clock + n, "slave")>>)
          /\ between' = (between \/ reloading)
          /\ UNCHANGED turned
       \/ /\ Found(h) # {}
          /\ Touched(h, clock + n)
          /\ UNCHANGED <<redirect_count, between>>
    /\ UNCHANGED <<walk, clock, reloading, overcounted, freed, refused>>

(* update_master_as_slave, called by the slave thread at every update from *)
(* the master: an entry that is there has the interval added to its time,  *)
(* also one that has no time                                               *)
MasterTurn ==
    \/ /\ Found(Master) = {}
       /\ Add(<<Entry(Master, 0, "master")>>)
       /\ UNCHANGED <<turned, between>>
    \/ /\ Found(Master) # {}
       /\ Touched(Master, redirectors[CHOOSE i \in Found(Master) :
                            \A j \in Found(Master) : i <= j].upd + MasterInterval)
       /\ UNCHANGED <<redirect_count, between>>

UpdateMasterAsSlave ==
    /\ Inside = {}
    /\ ~reloading
    /\ MaxRedirects > 0
    /\ \A e \in ToSet(redirectors) : e.upd <= EndTime
    /\ MasterTurn
    /\ UNCHANGED <<walk, clock, reloading, overcounted, freed, refused>>

Tick ==
    /\ clock < EndTime
    /\ clock' = clock + 1
    /\ UNCHANGED <<redirectors, redirect_count, walk, reloading, turned, between,
                   overcounted, freed, refused>>

Next ==
    /\ ~freed
    /\ \/ \E w \in Walker : \/ RedirectClient(w) \/ Expires(w) \/ Unlinks(w)
                           \/ CountRead(w) \/ CountWrite(w) \/ Passes(w) \/ Ends(w)
       \/ RedirectorClearall
       \/ RedirectorSetup
       \/ \E h \in Host, n \in Interval : RedirectorUpdate(h, n)
       \/ UpdateMasterAsSlave
       \/ Tick

Spec == Init /\ [][Next]_vars

----------------------------------------------------------------------------
TypeOK ==
    /\ \A i \in DOMAIN redirectors :
          redirectors[i] \in [host : Host, upd : Nat, by : {"conf", "slave", "master"}]
    /\ redirect_count \in Nat
    /\ walk \in [Walker -> [st : {"out", "in", "unlink", "count", "store"}, at : Nat,
                            which : Nat, sent : BOOLEAN, dropped : BOOLEAN, reg : Nat,
                            loose : BOOLEAN, stale : BOOLEAN]]
    /\ clock \in StartTime .. EndTime
    /\ turned \subseteq Host
    /\ reloading \in BOOLEAN /\ between \in BOOLEAN /\ overcounted \in BOOLEAN
    /\ freed \in BOOLEAN /\ refused \in BOOLEAN

(* The count the selection is drawn from is never less than the number of  *)
(* entries, so that each can be selected and a list with entries is never  *)
(* taken for an empty one.  It is that number, and one for each entry that *)
(* a walk has still to count out, until two walks count at the same time   *)
(* and one count is lost; a reload makes it right again.                   *)
CountMatches ==
    LET due == Len(redirectors) + Cardinality(Uncounted)
    IN  redirect_count >= due /\ (redirect_count = due \/ overcounted)

(* A client that looked at a list with entries in it is redirected, unless *)
(* an entry was dropped under its walk, by itself or by another, or the    *)
(* count was too large: then the selection can run past the entries that   *)
(* are left, and the client is refused although a server could take it.    *)
RedirectedIfAny == ~refused

(* The number of servers that registered themselves stays within           *)
(* max-redirect-slaves, whatever the interleaving of reports, walks that   *)
(* expire entries and reloads.                                             *)
SlavesBounded ==
    Cardinality({i \in DOMAIN redirectors : redirectors[i].by = "slave"}) <= MaxRedirects

(* A configured redirector stays in the list until a reload: only one that *)
(* was given a next_update, by a slave reporting the same address or by    *)
(* the master setting, can be dropped by a walk.                           *)
ConfiguredKept ==
    ~reloading => \A i \in DOMAIN Conf :
        Conf[i] \in turned \/ \E e \in ToSet(redirectors) : e.host = Conf[i]

(* An address is listed once, unless a slave registered between the two    *)
(* halves of a reload: the second half adds the configured hosts without   *)
(* looking for them.                                                       *)
HostOnce ==
    between \/ \A i, j \in DOMAIN redirectors :
                  redirectors[i].host = redirectors[j].host => i = j

(* The count of redirectors is that of the list but for a lost count-down; the list has the   *)
(* configured servers and each server once, no more slaves than allowed, and redirects a      *)
(* client if it can, while clients drop entries under the read lock and slaves and reloads    *)
(* add them.                                                                                  *)
RedirectorsKept ==
    /\ TypeOK
    /\ CountMatches
    /\ RedirectedIfAny
    /\ SlavesBounded
    /\ ConfiguredKept
    /\ HostOnce
============================================================================
