----------------------------- MODULE SourceLife -----------------------------
(***************************************************************************)
(* The life of one source_t of source.c: a source client starts it, its    *)
(* listeners come and go, the stream ends, the listeners are moved to the  *)
(* fallback mount or dropped, and the structure is released.  Listeners    *)
(* are processed by other worker threads than the source client, under the *)
(* read lock of the source; what they change is done under its write lock, *)
(* which they have to give up the read lock for.  One step is one hold of  *)
(* source->lock, so the states in between are the places of lpc and spc.   *)
(***************************************************************************)
EXTENDS Integers, FiniteSets

CONSTANTS
  Listener,   \* clients that listen to the mount
  SrcClient,  \* clients that send a stream to the mount
  None        \* NULL

ASSUME SourceAssumption == IsFiniteSet(Listener) /\ None \notin SrcClient

VARIABLES
  mem,        \* the structure: "none", "live" or "freed"
  src,        \* its flags, listeners, termination_count and fallback.mount
  clients,    \* source->clients
  owner,      \* source->client
  sop,        \* the ops of a source client, "out" and "gone" at its ends
  spc,        \* where a source client is in its process function
  shared,     \* shared_data of a source client is the source
  lpc,        \* the ops of a listener, or where it is in send_to_listener
  sources,    \* what this mount adds to global.sources
  timer,      \* 1000 ms went by since timer_start of the source client
  syncAge,    \* 1000 ms went by since SOURCE_LISTENERS_SYNC was set
  moved,      \* moveclients set it, and no timer (for SyncGrace alone)
  waitTime,   \* a wait-time is set for the mount
  hasFallback,\* a fallback mount is set for the mount
  halting     \* global.running # ICE_RUNNING

clocks == <<timer, syncAge, moved>>
vars == <<mem, src, clients, owner, sop, spc, shared, lpc, sources, clocks,
          waitTime, hasFallback, halting>>

settings == <<waitTime, hasFallback>>
srcClientVars == <<owner, sop, spc, shared, sources>>

Flags == {"RUNNING", "TERMINATING", "SYNC", "RESERVED"}

Source == [flags : SUBSET Flags, listeners : Nat, term : Int,
           fallback : {"null", "mount"}]

\* The places of a listener that is in source->clients.
Attached == {"send", "wait", "toError", "toMove", "toLeave", "toWait",
             "release"}

TypeOK ==
  /\ mem \in {"none", "live", "freed"}
  /\ src \in Source
  /\ clients \in SUBSET Listener
  /\ owner \in SrcClient \cup {None}
  /\ sop \in [SrcClient -> {"out", "http", "read", "halt", "gone"}]
  /\ spc \in [SrcClient -> {"idle", "entered", "dropping"}]
  /\ shared \in [SrcClient -> BOOLEAN]
  /\ lpc \in [Listener -> Attached \cup {"out", "moving", "gone"}]
  /\ sources \in Int
  /\ timer \in BOOLEAN
  /\ syncAge \in BOOLEAN
  /\ moved \in BOOLEAN
  /\ waitTime \in BOOLEAN
  /\ hasFallback \in BOOLEAN
  /\ halting \in BOOLEAN

Init ==
  /\ mem = "none"
  /\ src = [flags |-> {}, listeners |-> 0, term |-> 0, fallback |-> "null"]
  /\ clients = {}
  /\ owner = None
  /\ sop = [c \in SrcClient |-> "out"]
  /\ spc = [c \in SrcClient |-> "idle"]
  /\ shared = [c \in SrcClient |-> FALSE]
  /\ lpc = [l \in Listener |-> "out"]
  /\ sources = 0
  /\ timer = TRUE
  /\ syncAge = FALSE
  /\ moved = FALSE
  /\ waitTime \in BOOLEAN
  /\ hasFallback \in BOOLEAN
  /\ halting = FALSE

-----------------------------------------------------------------------------
(* The macros of source.h and the ways the structure changes.              *)

source_available(s) == "RUNNING" \in s.flags /\ "SYNC" \notin s.flags
source_running(s) == "RUNNING" \in s.flags /\ "TERMINATING" \notin s.flags

Stop(s) == [s EXCEPT !.flags = @ \ {"RUNNING"}]

\* source_shutdown and source_set_fallback: every listener is to be looked at.
source_shutdown(s) ==
  [s EXCEPT !.flags = @ \cup {"TERMINATING", "SYNC"},
            !.term = s.listeners,
            !.fallback = IF hasFallback /\ ~halting /\ s.listeners # 0
                           THEN "mount" ELSE @]

\* The states source_read can leave the source in: it waits for the listeners
\* to be looked at, or reads, which may end the stream.
source_read(s) ==
  LET h == IF halting THEN Stop(s) ELSE s
      d == [h EXCEPT !.flags = @ \ {"SYNC"},
                     !.fallback = IF "SYNC" \in h.flags THEN "null" ELSE @]
  IN  IF "SYNC" \in h.flags /\ h.term > 0 THEN {h} ELSE {d, Stop(d)}

-----------------------------------------------------------------------------
(* The source client.                                                      *)

\* source_client_callback, with source_init for a source that is not running.
Callback(c, s) ==
  /\ src' = [s EXCEPT !.flags = @ \cup {"RUNNING"}]
  /\ sop' = [sop EXCEPT ![c] = "read"]

\* source_startup reserves the mount.  A shoutcast client starts at once, the
\* others are sent a response first.
Startup(c) ==
  /\ sop[c] = "out"
  /\ mem = "none"
  /\ mem' = "live"
  /\ LET new == [src EXCEPT !.flags = {"RESERVED"}]
     IN  \/ Callback(c, new)
         \/ src' = new /\ sop' = [sop EXCEPT ![c] = "http"]
  /\ owner' = c
  /\ shared' = [shared EXCEPT ![c] = TRUE]
  /\ sources' = sources + 1
  /\ UNCHANGED <<clients, spc, lpc, clocks, settings, halting>>

\* source_startup refuses the client, at the limit of sources or for its
\* content type: the new structure goes at once.
StartupRefused(c) ==
  /\ sop[c] = "out"
  /\ mem = "none"
  /\ mem' = "freed"
  /\ owner' = c
  /\ sop' = [sop EXCEPT ![c] = "gone"]
  /\ UNCHANGED <<src, clients, spc, shared, lpc, sources, clocks, settings, halting>>

\* source_startup for a client allowed to hijack: it replaces the client of a
\* running source (source_swap_client), or takes a source that ended.
Hijack(c) ==
  /\ sop[c] = "out"
  /\ mem = "live"
  /\ "RESERVED" \in src.flags /\ "SYNC" \notin src.flags
  /\ owner' = c
  /\ IF source_running(src)
       THEN /\ shared' = [shared EXCEPT ![owner] = FALSE, ![c] = TRUE]
            /\ UNCHANGED sources
       ELSE /\ shared' = [shared EXCEPT ![c] = TRUE]
            /\ sources' = sources + 1
  /\ sop' = [sop EXCEPT ![c] = "http"]
  /\ UNCHANGED <<mem, src, clients, spc, lpc, clocks, settings, halting>>

\* Mutant of HttpFail: global.sources is not brought down.
HttpFailCounted(c) ==
  /\ sop[c] = "http"
  /\ sop' = [sop EXCEPT ![c] = "gone"]
  /\ src' = [src EXCEPT !.flags = @ \ {"RESERVED", "RUNNING"}]
  /\ mem' = "freed"
  /\ UNCHANGED <<clients, owner, spc, shared, lpc, sources, clocks, settings, halting>>

\* source_client_http_send: the response cannot be sent, so the source goes
\* (drop_source_from_tree, then source_client_release and _free_source).
HttpFail(c) ==
  /\ sop[c] = "http"
  /\ sop' = [sop EXCEPT ![c] = "gone"]
  /\ src' = [src EXCEPT !.flags = @ \ {"RESERVED", "RUNNING"}]
  /\ mem' = "freed"
  /\ sources' = sources - 1
  /\ UNCHANGED <<clients, owner, spc, shared, lpc, clocks, settings, halting>>

HttpDone(c) ==
  /\ sop[c] = "http"
  /\ Callback(c, src)
  /\ UNCHANGED <<mem, clients, owner, spc, shared, lpc, sources, clocks, settings, halting>>

\* source_client_read looks at shared_data before it has the lock.
Enter(c) ==
  /\ sop[c] = "read"
  /\ spc[c] = "idle"
  /\ IF shared[c] THEN /\ spc' = [spc EXCEPT ![c] = "entered"]
                       /\ UNCHANGED sop
                  ELSE /\ sop' = [sop EXCEPT ![c] = "gone"]
                       /\ UNCHANGED spc
  /\ UNCHANGED <<mem, src, clients, owner, shared, lpc, sources, clocks, settings, halting>>

\* The source client waits for its listeners; after a second it starts again
\* from source_shutdown.  fresh: source_shutdown has just set timer_start.
Waiting(c, s, fresh) ==
  /\ s.term # 0 /\ s.term <= s.listeners
  /\ src' = IF timer /\ ~fresh THEN [s EXCEPT !.listeners = Cardinality(clients),
                                              !.flags = @ \ {"TERMINATING"}]
                               ELSE s
  /\ timer' = (timer /\ ~fresh)
  /\ syncAge' = (syncAge /\ ~fresh)
  /\ moved' = (moved /\ ~fresh)
  /\ UNCHANGED <<mem, sop, sources>>

\* All were looked at and some are still there: once more.
Recheck(c, s) ==
  /\ s.term = 0 \/ s.term > s.listeners
  /\ s.listeners # 0
  /\ src' = [s EXCEPT !.term = s.listeners,
                      !.flags = @ \cup {"TERMINATING", "SYNC"}]
  /\ timer' = FALSE
  /\ syncAge' = FALSE
  /\ moved' = FALSE
  /\ UNCHANGED <<mem, sop, sources>>

\* Mutant of Finish: the listeners that were not looked at are forgotten.
FinishUnchecked(c, s, fresh) ==
  /\ s.term = 0 \/ s.term > s.listeners
  /\ sources' = sources - 1
  /\ src' = [s EXCEPT !.fallback = "null", !.flags = @ \ {"SYNC"}]
  /\ IF waitTime /\ ~halting
       THEN /\ sop' = [sop EXCEPT ![c] = "halt"]
            /\ UNCHANGED mem
       ELSE /\ sop' = [sop EXCEPT ![c] = "gone"]
            /\ mem' = "freed"
  /\ timer' = (timer /\ ~fresh)
  /\ syncAge' = (syncAge /\ ~fresh)
  /\ moved' = (moved /\ ~fresh)

\* No listener is left: the source is released, under the same lock, or stays
\* reserved for the wait-time.
Finish(c, s, fresh) ==
  /\ s.term = 0 \/ s.term > s.listeners
  /\ s.listeners = 0
  /\ sources' = sources - 1
  /\ src' = [s EXCEPT !.fallback = "null", !.flags = @ \ {"SYNC"}]
  /\ IF waitTime /\ ~halting
       THEN /\ sop' = [sop EXCEPT ![c] = "halt"]
            /\ UNCHANGED mem
       ELSE /\ sop' = [sop EXCEPT ![c] = "gone"]
            /\ mem' = "freed"
  /\ timer' = (timer /\ ~fresh)
  /\ syncAge' = (syncAge /\ ~fresh)
  /\ moved' = (moved /\ ~fresh)

Drain(c, s, fresh) ==
  /\ Waiting(c, s, fresh) \/ Recheck(c, s) \/ Finish(c, s, fresh)
  /\ spc' = [spc EXCEPT ![c] = "idle"]

sourceFrame == <<clients, owner, shared, lpc, settings, halting>>

\* The source ended with state s.  Without a wait-time the lock is given up
\* for drop_source_from_tree.
EndStream(c, s) ==
  IF waitTime
    THEN Drain(c, source_shutdown(s), TRUE)
    ELSE /\ src' = source_shutdown(s)
         /\ timer' = FALSE
         /\ syncAge' = FALSE
         /\ moved' = FALSE
         /\ spc' = [spc EXCEPT ![c] = "dropping"]
         /\ UNCHANGED <<mem, sop, sources>>

\* source_client_read on a running source that goes on.
ReadOn(c) ==
  /\ spc[c] = "entered"
  /\ source_running(src)
  /\ \E s \in source_read(src) : source_running(s) /\ src' = s
  /\ spc' = [spc EXCEPT ![c] = "idle"]
  /\ UNCHANGED <<mem, sop, sources, clocks, sourceFrame>>

\* The stream ends: its client stops or is out of time, or the server halts;
\* or it was stopped before this call.
ReadEnd(c) ==
  /\ spc[c] = "entered"
  /\ \E s \in {Stop(src)} \cup
             (IF source_running(src) THEN source_read(src) ELSE {src}) :
       /\ ~source_running(s) /\ "TERMINATING" \notin s.flags
       /\ EndStream(c, s)
  /\ UNCHANGED sourceFrame

\* "stopping as sync mode lasted too long": source_read clears both flags and
\* the source is shut down in the same call.
GiveUp(c) ==
  /\ spc[c] = "entered"
  /\ source_running(src)
  /\ "SYNC" \in src.flags /\ src.term > 0 /\ timer
  /\ EndStream(c, [src EXCEPT !.flags = @ \ {"RUNNING", "SYNC"}])
  /\ UNCHANGED sourceFrame

\* drop_source_from_tree: the mount can no longer be found.
Drop(c) ==
  /\ spc[c] = "dropping"
  /\ Drain(c, [src EXCEPT !.flags = @ \ {"RESERVED"}], FALSE)
  /\ UNCHANGED sourceFrame

ReadTerminating(c) ==
  /\ spc[c] = "entered"
  /\ "TERMINATING" \in src.flags
  /\ Drain(c, src, FALSE)
  /\ UNCHANGED sourceFrame

\* source_client_shutdown after the wait-time, then source_client_release.
HaltOver(c) ==
  /\ sop[c] = "halt"
  /\ sop' = [sop EXCEPT ![c] = "gone"]
  /\ src' = [src EXCEPT !.flags = @ \ {"RESERVED", "RUNNING"}]
  /\ mem' = "freed"
  /\ UNCHANGED <<clients, owner, spc, shared, lpc, sources, clocks, settings, halting>>

-----------------------------------------------------------------------------
(* Listeners.                                                              *)

listenerFrame == <<mem, srcClientVars, clocks, settings, halting>>

Moves(l, pc) == lpc' = [lpc EXCEPT ![l] = pc]

\* source_add_listener and source_setup_listener.
AddListener(l) ==
  /\ lpc[l] = "out"
  /\ mem = "live" /\ "RESERVED" \in src.flags
  /\ source_available(src)
  /\ clients' = clients \cup {l}
  /\ src' = [src EXCEPT !.listeners = @ + 1]
  /\ Moves(l, "send")
  /\ UNCHANGED listenerFrame

\* send_listener fails or the listener's time is up.
SendFail(l) ==
  /\ lpc[l] = "send"
  /\ "SYNC" \notin src.flags
  /\ Moves(l, "release")
  /\ UNCHANGED <<src, clients, listenerFrame>>

\* listener_waiting_on_source chooses under the read lock, then waits for the
\* write lock.
SyncError(l) ==
  /\ lpc[l] = "send"
  /\ "SYNC" \in src.flags
  /\ Moves(l, "toError")
  /\ UNCHANGED <<src, clients, listenerFrame>>

SyncListener(l) ==
  /\ lpc[l] = "send"
  /\ "SYNC" \in src.flags
  /\ Moves(l, IF src.fallback = "mount" THEN "toMove"
              ELSE IF "TERMINATING" \in src.flags THEN "toLeave"
              ELSE "toWait")
  /\ UNCHANGED <<src, clients, listenerFrame>>

\* source_listener_detach has the write lock: the listener is taken out.
ErrorDetach(l) ==
  /\ lpc[l] = "toError"
  /\ clients' = clients \ {l}
  /\ src' = [src EXCEPT !.listeners = @ - 1, !.term = @ - 1]
  /\ Moves(l, "gone")
  /\ UNCHANGED listenerFrame

\* Mutant of MoveDetach: the listener is taken out but still counted.
MoveDetachCounted(l) ==
  /\ lpc[l] = "toMove"
  /\ clients' = clients \ {l}
  /\ Moves(l, "moving")
  /\ UNCHANGED <<src, listenerFrame>>

MoveDetach(l) ==
  /\ lpc[l] = "toMove"
  /\ clients' = clients \ {l}
  /\ src' = [src EXCEPT !.listeners = @ - 1]
  /\ Moves(l, "moving")
  /\ UNCHANGED listenerFrame

\* move_listener returned, without a lock on this source: the listener is
\* elsewhere (0) or is dropped (-1), and counts as looked at.  The code puts a
\* listener back when the result is positive, which it never is: for a
\* fallback fserve_setup_client_fb returns 0, -1 or that of a refusal.
MoveDone(l) ==
  /\ lpc[l] = "moving"
  /\ src' = [src EXCEPT !.term = @ - 1]
  /\ Moves(l, "gone")
  /\ UNCHANGED <<clients, listenerFrame>>

LookedAt(l) ==
  /\ lpc[l] \in {"toLeave", "toWait"}
  /\ src' = [src EXCEPT !.term = @ - 1]
  /\ Moves(l, IF lpc[l] = "toLeave" THEN "release" ELSE "wait")
  /\ UNCHANGED <<clients, listenerFrame>>

\* Mutant of WaitOver: only the end of the synchronisation is waited for.
WaitOverSync(l) ==
  /\ lpc[l] = "wait"
  /\ "SYNC" \notin src.flags
  /\ Moves(l, "send")
  /\ UNCHANGED <<src, clients, listenerFrame>>

\* wait_for_other_listeners, without a lock.
WaitOver(l) ==
  /\ lpc[l] = "wait"
  /\ "SYNC" \notin src.flags \/ "TERMINATING" \in src.flags
  /\ Moves(l, "send")
  /\ UNCHANGED <<src, clients, listenerFrame>>

\* source_listener_release.
Release(l) ==
  /\ lpc[l] = "release"
  /\ clients' = clients \ {l}
  /\ src' = [src EXCEPT !.listeners = @ - 1]
  /\ Moves(l, "gone")
  /\ UNCHANGED listenerFrame

-----------------------------------------------------------------------------
(* Other threads.                                                          *)

\* Mutant of Override: timer_start is left as it was.
OverrideUntimed ==
  /\ mem = "live" /\ "RESERVED" \in src.flags /\ source_running(src)
  /\ src.listeners # 0 /\ src.fallback = "null"
  /\ src' = [src EXCEPT !.fallback = "mount", !.term = src.listeners,
                        !.flags = @ \cup {"SYNC"}]
  /\ syncAge' = FALSE
  /\ moved' = FALSE
  /\ UNCHANGED <<mem, clients, srcClientVars, lpc, timer, settings, halting>>

\* source_set_override: a mount that this one is the fallback of starts up and
\* calls the listeners back.
Override ==
  /\ mem = "live" /\ "RESERVED" \in src.flags /\ source_running(src)
  /\ src.listeners # 0 /\ src.fallback = "null"
  /\ src' = [src EXCEPT !.fallback = "mount", !.term = src.listeners,
                        !.flags = @ \cup {"SYNC"}]
  /\ timer' = FALSE
  /\ syncAge' = FALSE
  /\ moved' = FALSE
  /\ UNCHANGED <<mem, clients, srcClientVars, lpc, settings, halting>>

\* command_move_clients: source_set_fallback, and no timer is started.
MoveClients ==
  /\ mem = "live" /\ "RESERVED" \in src.flags /\ source_available(src)
  /\ src' = [src EXCEPT !.fallback = IF src.listeners # 0 THEN "mount" ELSE @,
                        !.term = src.listeners,
                        !.flags = @ \cup {"SYNC"}]
  /\ syncAge' = FALSE
  /\ moved' = TRUE
  /\ UNCHANGED <<mem, clients, srcClientVars, lpc, timer, settings, halting>>

\* command_kill_source.
KillSource ==
  /\ mem = "live" /\ "RESERVED" \in src.flags /\ source_available(src)
  /\ src' = Stop(src)
  /\ UNCHANGED <<mem, clients, srcClientVars, lpc, clocks, settings, halting>>

\* 1000 ms go by.
Tick ==
  /\ ~(timer /\ syncAge)
  /\ timer' = TRUE
  /\ syncAge' = TRUE
  /\ UNCHANGED <<mem, src, clients, srcClientVars, lpc, moved, settings,
                 halting>>

Halt ==
  /\ ~halting
  /\ halting' = TRUE
  /\ UNCHANGED <<mem, src, clients, srcClientVars, lpc, clocks, settings>>

-----------------------------------------------------------------------------
SourceStep(c) ==
  \/ HttpDone(c) \/ Enter(c) \/ ReadOn(c) \/ ReadEnd(c) \/ GiveUp(c)
  \/ Drop(c) \/ ReadTerminating(c) \/ HaltOver(c)

ListenerStep(l) ==
  \/ SyncError(l) \/ SyncListener(l) \/ ErrorDetach(l) \/ MoveDetach(l)
  \/ MoveDone(l) \/ LookedAt(l) \/ WaitOver(l) \/ Release(l)

Next ==
  \/ \E c \in SrcClient :
       Startup(c) \/ StartupRefused(c) \/ HttpFail(c) \/ SourceStep(c)
  \/ \E l \in Listener : AddListener(l) \/ SendFail(l) \/ ListenerStep(l)
  \/ Override \/ MoveClients \/ KillSource \/ Tick \/ Halt

Spec == Init /\ [][Next]_vars

\* With url authentication that lets a source client hijack a mount.
NextHijack == Next \/ \E c \in SrcClient : Hijack(c)

SpecHijack == Init /\ [][NextHijack]_vars

\* Workers process their clients again and again, and move_listener returns.
\* A listener is looked at every 150 ms at the latest, several times between
\* two expiries of the timer, so it does not miss the TERMINATING flag for
\* ever.
Fairness ==
  /\ \A c \in SrcClient : WF_vars(SourceStep(c))
  /\ \A l \in Listener :
       /\ WF_vars(ListenerStep(l))
       /\ SF_vars("TERMINATING" \in src.flags /\ SyncListener(l))
       /\ SF_vars("TERMINATING" \in src.flags /\ WaitOver(l))
  /\ WF_vars(Tick)

FairSpec == Spec /\ Fairness

-----------------------------------------------------------------------------
(* Properties.                                                             *)

\* The counter is the size of the tree: whatever the order in which listeners
\* are moved, dropped and added while the source ends, source->listeners and
\* source->clients agree when no thread holds the lock, so the repair of
\* "inconsistent listeners" in source_client_read never changes anything.
ListenersMatch == mem # "freed" => src.listeners = Cardinality(clients)

\* "There should be no listeners on this mount" (_free_source): a listener
\* that is still on the source finds it allocated.
FreedUnattached ==
  mem = "freed" => \A l \in Listener : lpc[l] \notin Attached

\* global.sources counts the mount once from its start to the moment its
\* listeners have gone, by whichever of the exits.
SourcesCounted ==
  sources = Cardinality({c \in SrcClient : sop[c] \in {"http", "read"}})

\* source_read gives up on a synchronisation ("sync mode lasted too long")
\* only after it lasted for the second that the code grants, however old
\* timer_start is and whatever happened since; but for one that moveclients
\* set off, which leaves timer_start as it is and may be given up at once.
SyncGrace == [][\A c \in SrcClient : GiveUp(c) => syncAge \/ moved]_vars

\* A source that ended is released in the end, with all its listeners gone or
\* moved: nobody waits for a termination_count that went astray.
MountReleased ==
  mem = "live" /\ "TERMINATING" \in src.flags ~> mem = "freed"
=============================================================================
