---------------------------- MODULE SourceProofs ----------------------------
(***************************************************************************)
(* Proofs about a source, for any number of listeners and source clients,  *)
(* and about the directories it is listed in, for any number of servers    *)
(* and mounts.                                                             *)
(*                                                                         *)
(* The directories.  The changes still to be applied say what each mount   *)
(* is: the last addition or removal of a mount that waits agrees with what *)
(* it is now, and while none waits its entries do.  The times are told by  *)
(* the place a pass has come to: the counter is no later than the time of  *)
(* any entry that was visited, and between two passes all were.            *)
(***************************************************************************)
EXTENDS SourceLife, Sequences, FiniteSetTheorems, WellFoundedInduction, TLAPS

CONSTANTS Url, Station, PassLimit, MaxDelay, MaxAsks, MaxConfigs

VARIABLES active, pending, dropped, mounts, newMounts, update, counter, client,
          twice, stop, pass, at, failed, left, changes, list, changer, public,
          running, down, missed, swallowed, asks, configs

Y == INSTANCE Directory

(***************************************************************************)
(* The life of a source                                                    *)
(***************************************************************************)
Active == {"http", "read", "halt"}

\* The listeners in source->clients are the ones at a place that uses it.
ClientsAttached == clients = {l \in Listener : lpc[l] \in Attached}

Counted == src.listeners = Cardinality(clients)

\* Only a source that exists has listeners.
OnlyLive == mem # "live" => clients = {}

\* The structure belongs to one source client.
OneSourceClient ==
  /\ \A c \in SrcClient : sop[c] \in Active => owner = c /\ mem = "live"
  /\ \A c \in SrcClient : spc[c] # "idle" => sop[c] = "read"

\* Nobody took the source from its client.
SharedKept == \A c \in SrcClient : sop[c] \in Active => shared[c] = TRUE

\* Before the stream starts and after it ended no listener can come.
Quiet ==
  /\ mem = "none" => src.flags = {}
  /\ \A c \in SrcClient :
       /\ sop[c] \in {"http", "halt"} => "RUNNING" \notin src.flags /\ clients = {}
       /\ sop[c] = "http" => src.flags \subseteq {"RESERVED"}
       /\ spc[c] = "dropping" => "RUNNING" \notin src.flags
  /\ "TERMINATING" \in src.flags => "RUNNING" \notin src.flags

\* timer_start is never older than the synchronisation it is compared for,
\* unless moveclients set that off.
TimerFresh == "SYNC" \in src.flags /\ timer => syncAge \/ moved

Streaming == {c \in SrcClient : sop[c] \in {"http", "read"}}

SourcesOne ==
  /\ Streaming = {} => sources = 0
  /\ Streaming # {} => sources = 1

IInv ==
  /\ TypeOK
  /\ ClientsAttached
  /\ Counted
  /\ OnlyLive
  /\ OneSourceClient
  /\ SharedKept
  /\ Quiet
  /\ TimerFresh
  /\ SourcesOne

-----------------------------------------------------------------------------
(* The fields of the structure.                                            *)

\* The types of the fields of the source, one by one.
LEMMA FieldTypes ==
  ASSUME NEW s \in Source
  PROVE  /\ s.flags \in SUBSET Flags /\ s.listeners \in Nat
         /\ s.listeners \in Int /\ s.term \in Int
  BY DEF Source

\* What source_read may leave behind has the same listeners and no new flag.
LEMMA ReadTypes ==
  ASSUME NEW r \in Source, NEW s \in source_read(r) \cup {Stop(r), r}
  PROVE  s \in Source /\ s.listeners = r.listeners /\ s.flags \subseteq r.flags
<1> DEFINE h == IF halting THEN Stop(r) ELSE r
           d == [h EXCEPT !.flags = @ \ {"SYNC"},
                          !.fallback = IF "SYNC" \in h.flags THEN "null" ELSE @]
<1>1. \A q \in Source : /\ Stop(q) \in Source
                         /\ Stop(q).listeners = q.listeners
                         /\ Stop(q).flags \subseteq q.flags
  BY DEF Stop, Source
<1>2. h \in Source /\ h.listeners = r.listeners /\ h.flags \subseteq r.flags
  BY <1>1
<1>3. s \in {h, d, Stop(d), Stop(r), r}
  BY DEF source_read
<1> HIDE DEF h
<1>4. d \in Source /\ d.listeners = h.listeners /\ d.flags \subseteq h.flags
  BY <1>2 DEF Source
<1> HIDE DEF d
<1> QED
  BY <1>1, <1>2, <1>3, <1>4

-----------------------------------------------------------------------------
(* Counting a listener in and out.                                         *)

\* The tree of listeners can be counted.
LEMMA FiniteClients == IInv => IsFiniteSet(clients)
  BY SourceAssumption, FS_Subset DEF IInv, TypeOK

\* A listener that is put in the tree adds one to its size.
LEMMA CountIn ==
  ASSUME IInv, NEW l \in Listener, l \notin clients
  PROVE  Cardinality(clients \cup {l}) = src.listeners + 1
  BY FiniteClients, FS_AddElement DEF IInv, Counted

\* A listener that is taken out takes one from it.
LEMMA CountOut ==
  ASSUME IInv, NEW l \in clients
  PROVE  /\ Cardinality(clients \ {l}) = src.listeners - 1
         /\ src.listeners - 1 \in Nat
<1>1. IsFiniteSet(clients \ {l})
  BY FiniteClients, FS_RemoveElement
<1>2. Cardinality(clients \ {l}) = src.listeners - 1
  BY FiniteClients, FS_RemoveElement DEF IInv, Counted
<1>3. Cardinality(clients \ {l}) \in Nat
  BY <1>1, FS_CardinalityType
<1> QED
  BY <1>2, <1>3

\* No listener counted means an empty tree.
LEMMA NoneCounted ==
  ASSUME IInv, src.listeners = 0
  PROVE  clients = {}
  BY FiniteClients, FS_EmptySet DEF IInv, Counted

-----------------------------------------------------------------------------
(* The initial states.                                                     *)

\* source_reserve sets up a source with nothing attached.
LEMMA InitIInv == Init => IInv
<1> SUFFICES ASSUME Init PROVE IInv
  OBVIOUS
<1>1. src \in Source
  BY DEF Init, Source
<1>2. TypeOK
  <2>1. /\ mem \in {"none", "live", "freed"}
        /\ clients \in SUBSET Listener
        /\ owner \in SrcClient \cup {None}
        /\ sources \in Int
    BY DEF Init
  <2>2. /\ sop \in [SrcClient -> {"out", "http", "read", "halt", "gone"}]
        /\ spc \in [SrcClient -> {"idle", "entered", "dropping"}]
        /\ shared \in [SrcClient -> BOOLEAN]
        /\ lpc \in [Listener -> Attached \cup {"out", "moving", "gone"}]
    BY Zenon DEF Init
  <2>3. /\ timer \in BOOLEAN /\ syncAge \in BOOLEAN /\ moved \in BOOLEAN
        /\ waitTime \in BOOLEAN
        /\ hasFallback \in BOOLEAN /\ halting \in BOOLEAN
    BY Zenon DEF Init
  <2> QED
    BY <1>1, <2>1, <2>2, <2>3, Zenon DEF TypeOK
<1>3. ClientsAttached
  BY DEF Init, ClientsAttached, Attached
<1>4. Counted
  BY FS_EmptySet DEF Init, Counted
<1> QED
  BY <1>2, <1>3, <1>4
     DEF Init, IInv, OnlyLive, OneSourceClient, SharedKept, Quiet, TimerFresh, SourcesOne,
         Streaming, Active

-----------------------------------------------------------------------------
(* The source client.                                                      *)

\* source_client_read for a source that ended: whatever it finds, the
\* invariant is kept, provided that s is the source with other flags.
LEMMA DrainStep ==
  ASSUME IInv, NEW c \in SrcClient, sop[c] = "read",
         NEW s \in Source, s.listeners = src.listeners,
         "RUNNING" \notin s.flags,
         NEW fresh \in BOOLEAN,
         "SYNC" \in s.flags /\ timer /\ ~fresh => syncAge \/ moved,
         Drain(c, s, fresh), UNCHANGED sourceFrame
  PROVE  IInv'
<1> USE DEF IInv, sourceFrame, settings, clocks
<1>0. owner = c /\ mem = "live" /\ c \in Streaming /\ sources = 1
  BY DEF OneSourceClient, SourcesOne, Streaming, Active
<1>1. /\ clients' = clients /\ lpc' = lpc /\ owner' = owner
      /\ shared' = shared
      /\ spc' = [spc EXCEPT ![c] = "idle"]
  BY DEF Drain
<1>2. \A d \in SrcClient : sop[d] \in Active => d = c
  BY <1>0 DEF OneSourceClient
<1>3. CASE Waiting(c, s, fresh)
  <2>1. /\ mem' = mem /\ sop' = sop /\ sources' = sources
        /\ src' \in Source /\ src'.listeners = src.listeners
        /\ src'.flags \subseteq s.flags
        /\ timer' = (timer /\ ~fresh) /\ syncAge' = (syncAge /\ ~fresh)
        /\ moved' = (moved /\ ~fresh)
    BY <1>3 DEF Waiting, Source, Flags, Counted
  <2>2. TypeOK'
    BY <1>1, <2>1 DEF TypeOK
  <2>3. TimerFresh'
    BY <2>1 DEF TimerFresh
  <2> QED
    BY <1>0, <1>1, <1>2, <2>1, <2>2, <2>3
       DEF TypeOK, ClientsAttached, Counted, OnlyLive, OneSourceClient, SharedKept, Quiet,
           SourcesOne, Streaming, Active
<1>4. CASE Recheck(c, s)
  <2>1. /\ mem' = mem /\ sop' = sop /\ sources' = sources
        /\ src' \in Source /\ src'.listeners = src.listeners
        /\ "RUNNING" \notin src'.flags
        /\ timer' = FALSE /\ syncAge' = FALSE /\ moved' = FALSE
    BY <1>4, FieldTypes DEF Recheck, Source, Flags
  <2>2. TypeOK'
    BY <1>1, <2>1 DEF TypeOK
  <2> QED
    BY <1>0, <1>1, <1>2, <2>1, <2>2
       DEF TypeOK, ClientsAttached, Counted, OnlyLive, OneSourceClient, SharedKept, Quiet,
           TimerFresh, SourcesOne, Streaming, Active
<1>5. CASE Finish(c, s, fresh)
  <2>1. /\ sources' = 0
        /\ src' \in Source /\ src'.listeners = src.listeners
        /\ src'.flags = s.flags \ {"SYNC"}
        /\ timer' = (timer /\ ~fresh) /\ syncAge' = (syncAge /\ ~fresh)
        /\ moved' = (moved /\ ~fresh)
    <3>1. sources' = 0
      BY <1>0, <1>5 DEF Finish
    <3>2. /\ src' \in Source /\ src'.listeners = src.listeners
          /\ src'.flags = s.flags \ {"SYNC"}
      BY <1>5, FieldTypes DEF Finish, Source, Flags
    <3> QED
      BY <1>5, <3>1, <3>2, Zenon DEF Finish
  <2>2. clients = {}
    BY <1>5, NoneCounted DEF Finish
  <2>3. \/ mem' = mem /\ sop' = [sop EXCEPT ![c] = "halt"]
        \/ mem' = "freed" /\ sop' = [sop EXCEPT ![c] = "gone"]
    BY <1>5 DEF Finish
  <2>4. TypeOK'
    BY <1>1, <2>1, <2>3 DEF TypeOK
  <2>5. Streaming' = {}
    BY <1>2, <2>3 DEF Streaming, Active, TypeOK
  <2> QED
    BY <1>0, <1>1, <1>2, <2>1, <2>2, <2>3, <2>4, <2>5
       DEF TypeOK, ClientsAttached, Counted, OnlyLive, OneSourceClient, SharedKept, Quiet,
           TimerFresh, SourcesOne, Active
<1> QED
  BY <1>3, <1>4, <1>5 DEF Drain

\* The end of a stream and source_shutdown.
LEMMA EndStreamStep ==
  ASSUME IInv, NEW c \in SrcClient, sop[c] = "read",
         NEW s \in Source, s.listeners = src.listeners,
         "RUNNING" \notin s.flags,
         EndStream(c, s), UNCHANGED sourceFrame
  PROVE  IInv'
<1>1. /\ source_shutdown(s) \in Source
      /\ source_shutdown(s).listeners = src.listeners
      /\ "RUNNING" \notin source_shutdown(s).flags
  BY FieldTypes DEF source_shutdown, Source, Flags
<1>2. CASE waitTime
  BY <1>1, <1>2, DrainStep DEF EndStream
<1>3. CASE ~waitTime
  <2> USE DEF IInv, sourceFrame, settings, clocks
  <2>1. /\ src' = source_shutdown(s) /\ timer' = FALSE /\ syncAge' = FALSE /\ moved' = FALSE
        /\ spc' = [spc EXCEPT ![c] = "dropping"]
        /\ UNCHANGED <<mem, sop, sources, shared, clients, owner, lpc>>
    BY <1>3 DEF EndStream
  <2>2. TypeOK'
    BY <1>1, <2>1 DEF TypeOK
  <2>3. owner = c /\ mem = "live"
    BY DEF OneSourceClient, Active
  <2> QED
    BY <1>1, <2>1, <2>2, <2>3
       DEF TypeOK, ClientsAttached, Counted, OnlyLive, OneSourceClient, SharedKept, Quiet,
           TimerFresh, SourcesOne, Streaming, Active
<1> QED
  BY <1>2, <1>3

\* Startup and the response to the source client.
LEMMA StartStep ==
  ASSUME IInv, NEW c \in SrcClient,
         Startup(c) \/ StartupRefused(c) \/ HttpFail(c) \/ HttpDone(c)
  PROVE  IInv'
<1> USE DEF IInv, settings, clocks
<1>1. CASE Startup(c)
  <2>1. /\ mem = "none" /\ mem' = "live" /\ owner' = c
        /\ sop' \in [SrcClient -> {"out", "http", "read", "halt", "gone"}]
        /\ sop'[c] \in {"http", "read"}
        /\ \A d \in SrcClient : d # c => sop'[d] = sop[d]
        /\ src' \in Source /\ src'.listeners = src.listeners
        /\ src'.flags \subseteq {"RESERVED", "RUNNING"}
        /\ sop'[c] = "http" => src'.flags = {"RESERVED"}
        /\ sources' = sources + 1
        /\ shared' = [shared EXCEPT ![c] = TRUE]
        /\ UNCHANGED <<clients, spc, lpc, clocks, settings, halting>>
    <3>1. [src EXCEPT !.flags = {"RESERVED"}] \in Source
      BY DEF TypeOK, Source, Flags
    <3>2. CASE Callback(c, [src EXCEPT !.flags = {"RESERVED"}])
      BY <1>1, <3>1, <3>2 DEF Startup, Callback, TypeOK, Source, Flags
    <3>3. CASE /\ src' = [src EXCEPT !.flags = {"RESERVED"}]
               /\ sop' = [sop EXCEPT ![c] = "http"]
      BY <1>1, <3>1, <3>3 DEF Startup, TypeOK, Source, Flags
    <3> QED
      BY <1>1, <3>2, <3>3, Zenon DEF Startup
  <2>2. \A d \in SrcClient : sop[d] \notin Active /\ spc[d] = "idle"
    BY <2>1 DEF OneSourceClient, Active
  <2>3. TypeOK'
    <3>1. shared' \in [SrcClient -> BOOLEAN] /\ sources' \in Int
      BY <1>1 DEF Startup, TypeOK
    <3> QED
      BY <2>1, <3>1 DEF TypeOK
  <2>4. sources' = 1 /\ c \in Streaming'
    BY <2>1, <2>2 DEF SourcesOne, Streaming, Active
  <2> QED
    BY <2>1, <2>2, <2>3, <2>4
       DEF TypeOK, ClientsAttached, Counted, OnlyLive, OneSourceClient, SharedKept, Quiet,
           TimerFresh, SourcesOne, Active
<1>2. CASE StartupRefused(c)
  <2>1. \A d \in SrcClient : sop[d] \notin Active /\ spc[d] = "idle"
    BY <1>2 DEF OneSourceClient, Active, StartupRefused
  <2>2. TypeOK'
    BY <1>2 DEF TypeOK, StartupRefused
  <2>3. Streaming = {} /\ Streaming' = {}
    BY <1>2, <2>1 DEF Streaming, Active, StartupRefused, TypeOK
  <2> QED
    BY <1>2, <2>1, <2>2, <2>3
       DEF TypeOK, ClientsAttached, Counted, OnlyLive, OneSourceClient, SharedKept, Quiet,
           TimerFresh, SourcesOne, Active, StartupRefused
<1>3. CASE HttpFail(c)
  <2>1. /\ sop[c] = "http" /\ sop' = [sop EXCEPT ![c] = "gone"]
        /\ src' \in Source /\ src'.listeners = src.listeners
        /\ src'.flags = src.flags \ {"RESERVED", "RUNNING"}
        /\ mem' = "freed" /\ sources' = sources - 1
        /\ UNCHANGED <<clients, owner, spc, shared, lpc, clocks, settings, halting>>
    BY <1>3 DEF HttpFail, TypeOK, Source, Flags
  <2>2. \A d \in SrcClient : d # c => sop[d] \notin Active
    BY <2>1 DEF OneSourceClient, Active
  <2>3. TypeOK'
    BY <1>3, <2>1 DEF TypeOK, HttpFail
  <2>4. c \in Streaming /\ Streaming' = {} /\ clients = {}
    BY <2>1, <2>2 DEF Streaming, Active, Quiet, TypeOK
  <2> QED
    BY <2>1, <2>2, <2>3, <2>4
       DEF TypeOK, ClientsAttached, Counted, OnlyLive, OneSourceClient, SharedKept, Quiet,
           TimerFresh, SourcesOne, Active
<1>4. CASE HttpDone(c)
  <2>1. /\ sop[c] = "http" /\ sop' = [sop EXCEPT ![c] = "read"]
        /\ src' \in Source /\ src'.listeners = src.listeners
        /\ src'.flags = src.flags \cup {"RUNNING"}
        /\ UNCHANGED <<mem, clients, owner, spc, shared, lpc, sources, clocks, settings, halting>>
    BY <1>4 DEF HttpDone, Callback, TypeOK, Source, Flags
  <2>2. /\ owner = c /\ mem = "live" /\ src.flags \subseteq {"RESERVED"}
        /\ \A d \in SrcClient : d # c => sop[d] \notin Active
    BY <2>1 DEF OneSourceClient, Active, Quiet
  <2>3. TypeOK'
    BY <2>1 DEF TypeOK
  <2>4. c \in Streaming /\ c \in Streaming'
    BY <2>1 DEF Streaming, TypeOK
  <2> QED
    BY <2>1, <2>2, <2>3, <2>4
       DEF TypeOK, ClientsAttached, Counted, OnlyLive, OneSourceClient, SharedKept, Quiet,
           TimerFresh, SourcesOne, Active
<1> QED
  BY <1>1, <1>2, <1>3, <1>4

\* source_client_read and source_client_shutdown.
LEMMA ReadStep ==
  ASSUME IInv, NEW c \in SrcClient,
         \/ Enter(c) \/ ReadOn(c) \/ ReadEnd(c) \/ GiveUp(c)
         \/ Drop(c) \/ ReadTerminating(c) \/ HaltOver(c)
  PROVE  IInv'
<1>0. spc[c] # "idle" => sop[c] = "read"
  BY DEF IInv, OneSourceClient
<1>1. CASE Enter(c)
  <2> USE DEF IInv, settings, clocks
  <2>1. sop[c] = "read" /\ shared[c]
    BY <1>1 DEF Enter, SharedKept, Active
  <2>2. /\ spc' = [spc EXCEPT ![c] = "entered"]
        /\ UNCHANGED <<mem, src, clients, owner, sop, shared, lpc, sources,
                       clocks, settings, halting>>
    BY <1>1, <2>1 DEF Enter
  <2> QED
    BY <2>1, <2>2
       DEF TypeOK, ClientsAttached, Counted, OnlyLive, OneSourceClient,
           SharedKept, Quiet, TimerFresh, SourcesOne, Streaming
<1>2. CASE ReadOn(c)
  <2> USE DEF IInv, settings, sourceFrame, clocks
  <2>1. PICK s \in source_read(src) : source_running(s) /\ src' = s
    BY <1>2 DEF ReadOn
  <2>2. /\ src' \in Source /\ src'.listeners = src.listeners
        /\ src'.flags \subseteq src.flags
        /\ "RUNNING" \in src.flags
    BY <1>2, <2>1, ReadTypes DEF ReadOn, source_running, TypeOK
  <2>3. /\ spc' = [spc EXCEPT ![c] = "idle"]
        /\ UNCHANGED <<mem, clients, owner, sop, shared, lpc, sources, clocks, settings, halting>>
    BY <1>2 DEF ReadOn
  <2>4. sop[c] = "read" /\ mem = "live" /\ owner = c
    BY <1>0, <1>2 DEF ReadOn, OneSourceClient, Active
  <2>5. TypeOK'
    BY <2>2, <2>3 DEF TypeOK
  <2> QED
    BY <2>2, <2>3, <2>4, <2>5
       DEF TypeOK, ClientsAttached, Counted, OnlyLive, OneSourceClient,
           SharedKept, Quiet, TimerFresh, SourcesOne, Streaming, Active
<1>3. CASE ReadEnd(c)
  <2>1. PICK s \in {Stop(src)} \cup
              (IF source_running(src) THEN source_read(src) ELSE {src}) :
          /\ ~source_running(s) /\ "TERMINATING" \notin s.flags
          /\ EndStream(c, s)
    BY <1>3, Zenon DEF ReadEnd
  <2>2. src \in Source
    BY DEF IInv, TypeOK
  <2>3. s \in Source /\ s.listeners = src.listeners
    BY <2>1, <2>2, ReadTypes
  <2>4. "RUNNING" \notin s.flags
    BY <2>1 DEF source_running
  <2>5. sop[c] = "read" /\ UNCHANGED sourceFrame
    BY <1>0, <1>3 DEF ReadEnd
  <2> QED
    BY <2>1, <2>3, <2>4, <2>5, EndStreamStep
<1>4. CASE GiveUp(c)
  <2> DEFINE s == [src EXCEPT !.flags = @ \ {"RUNNING", "SYNC"}]
  <2>1. /\ s \in Source /\ s.listeners = src.listeners
        /\ "RUNNING" \notin s.flags
    BY DEF IInv, TypeOK, Source
  <2>2. sop[c] = "read" /\ EndStream(c, s) /\ UNCHANGED sourceFrame
    BY <1>0, <1>4 DEF GiveUp
  <2> HIDE DEF s
  <2> QED
    BY <2>1, <2>2, EndStreamStep
<1>5. CASE Drop(c)
  <2> DEFINE s == [src EXCEPT !.flags = @ \ {"RESERVED"}]
  <2>1. /\ s \in Source /\ s.listeners = src.listeners
        /\ s.flags = src.flags \ {"RESERVED"}
    BY DEF IInv, TypeOK, Source
  <2>2. sop[c] = "read" /\ Drain(c, s, FALSE) /\ UNCHANGED sourceFrame
    BY <1>0, <1>5 DEF Drop
  <2>3. "RUNNING" \notin src.flags /\ ("SYNC" \in src.flags /\ timer => syncAge \/ moved)
    BY <1>5 DEF Drop, IInv, Quiet, TimerFresh
  <2> HIDE DEF s
  <2>4. "RUNNING" \notin s.flags /\ ("SYNC" \in s.flags /\ timer => syncAge \/ moved)
    BY <2>1, <2>3
  <2> QED
    BY <2>1, <2>2, <2>4, DrainStep
<1>6. CASE ReadTerminating(c)
  <2>1. src \in Source /\ "RUNNING" \notin src.flags
    BY <1>6 DEF ReadTerminating, IInv, TypeOK, Quiet
  <2>2. "SYNC" \in src.flags /\ timer => syncAge \/ moved
    BY DEF IInv, TimerFresh
  <2>3. sop[c] = "read" /\ Drain(c, src, FALSE) /\ UNCHANGED sourceFrame
    BY <1>0, <1>6 DEF ReadTerminating
  <2> QED
    BY <2>1, <2>2, <2>3, DrainStep
<1>7. CASE HaltOver(c)
  <2> USE DEF IInv, settings, clocks
  <2>1. /\ sop[c] = "halt" /\ sop' = [sop EXCEPT ![c] = "gone"]
        /\ src' \in Source /\ src'.listeners = src.listeners
        /\ src'.flags = src.flags \ {"RESERVED", "RUNNING"}
        /\ mem' = "freed"
        /\ UNCHANGED <<clients, owner, spc, shared, lpc, sources, clocks, settings, halting>>
    BY <1>7 DEF HaltOver, TypeOK, Source
  <2>2. /\ clients = {}
        /\ \A d \in SrcClient : d # c => sop[d] \notin Active
    BY <2>1 DEF OneSourceClient, Active, Quiet
  <2>3. TypeOK'
    BY <2>1 DEF TypeOK
  <2>4. Streaming = {} /\ Streaming' = {}
    BY <2>1, <2>2 DEF Streaming, Active, TypeOK
  <2> QED
    BY <2>1, <2>2, <2>3, <2>4
       DEF TypeOK, ClientsAttached, Counted, OnlyLive, OneSourceClient,
           SharedKept, Quiet, TimerFresh, SourcesOne, Active
<1> QED
  BY <1>1, <1>2, <1>3, <1>4, <1>5, <1>6, <1>7

-----------------------------------------------------------------------------
(* Listeners and the other threads.                                        *)

\* A listener comes to the source or goes elsewhere: listeners and clients
\* move together and nothing else of the structure but the number of
\* listeners still to be looked at.
LEMMA ListenerMoves ==
  ASSUME IInv, NEW l \in Listener,
         NEW pc \in Attached \cup {"out", "moving", "gone"},
         lpc' = [lpc EXCEPT ![l] = pc],
         clients' = IF pc \in Attached THEN clients \cup {l} ELSE clients \ {l},
         src' \in Source, src'.flags = src.flags,
         src'.listeners = Cardinality(clients'),
         clients' # clients => mem = "live" /\ (l \in clients \/ "RUNNING" \in src.flags),
         UNCHANGED listenerFrame
  PROVE  IInv'
<1> USE DEF IInv, listenerFrame, srcClientVars, settings, clocks
<1>1. TypeOK'
  BY DEF TypeOK
<1>2. ClientsAttached'
  BY DEF ClientsAttached, TypeOK
<1>3. Quiet'
  BY DEF Quiet
<1> QED
  BY <1>1, <1>2, <1>3
     DEF Counted, OnlyLive, OneSourceClient, SharedKept, TimerFresh,
         SourcesOne, Streaming

\* The steps of a listener.
LEMMA ListenerNext ==
  ASSUME IInv, NEW l \in Listener,
         AddListener(l) \/ SendFail(l) \/ ListenerStep(l)
  PROVE  IInv'
<1>0. /\ src \in Source /\ src.listeners = Cardinality(clients)
      /\ lpc \in [Listener -> Attached \cup {"out", "moving", "gone"}]
      /\ l \in clients <=> lpc[l] \in Attached
  BY DEF IInv, TypeOK, Counted, ClientsAttached
<1>1. CASE AddListener(l)
  <2>1. l \notin clients
    BY <1>0, <1>1 DEF AddListener, Attached
  <2>2. /\ src' \in Source /\ src'.flags = src.flags
        /\ src'.listeners = src.listeners + 1
    BY <1>0, <1>1 DEF AddListener, Source
  <2>3. src'.listeners = Cardinality(clients')
    BY <1>1, <2>1, <2>2, CountIn DEF AddListener
  <2>4. "send" \in Attached
    BY DEF Attached
  <2>5. mem = "live" /\ "RUNNING" \in src.flags
    BY <1>1 DEF AddListener, source_available
  <2> QED
    BY <1>1, <2>2, <2>3, <2>4, <2>5, ListenerMoves DEF AddListener, Moves
<1>2. CASE SendFail(l) \/ SyncError(l) \/ SyncListener(l) \/ WaitOver(l)
  <2>1. PICK pc \in Attached : lpc' = [lpc EXCEPT ![l] = pc]
    BY <1>2 DEF SendFail, SyncError, SyncListener, WaitOver, Moves, Attached
  <2>2. src' = src /\ clients' = clients /\ UNCHANGED listenerFrame
    BY <1>2 DEF SendFail, SyncError, SyncListener, WaitOver
  <2>3. l \in clients
    BY <1>0, <1>2 DEF SendFail, SyncError, SyncListener, WaitOver, Attached
  <2> QED
    BY <1>0, <2>1, <2>2, <2>3, ListenerMoves
<1>3. CASE LookedAt(l)
  <2>1. PICK pc \in Attached : lpc' = [lpc EXCEPT ![l] = pc]
    BY <1>3 DEF LookedAt, Moves, Attached
  <2>2. clients' = clients /\ UNCHANGED listenerFrame
    BY <1>3 DEF LookedAt
  <2>3. /\ src' \in Source /\ src'.flags = src.flags
        /\ src'.listeners = src.listeners
    BY <1>0, <1>3 DEF LookedAt, Source
  <2>4. l \in clients
    BY <1>0, <1>3 DEF LookedAt, Attached
  <2> QED
    BY <1>0, <2>1, <2>2, <2>3, <2>4, ListenerMoves
<1>4. CASE MoveDone(l)
  <2>1. /\ src' \in Source /\ src'.flags = src.flags
        /\ src'.listeners = src.listeners
    BY <1>0, <1>4 DEF MoveDone, Source
  <2>2. l \notin clients /\ "gone" \notin Attached
    BY <1>0, <1>4 DEF MoveDone, Attached
  <2> QED
    BY <1>0, <1>4, <2>1, <2>2, ListenerMoves DEF MoveDone, Moves
<1>5. CASE ErrorDetach(l) \/ MoveDetach(l) \/ Release(l)
  <2>1. PICK pc \in {"gone", "moving"} : lpc' = [lpc EXCEPT ![l] = pc]
    BY <1>5 DEF ErrorDetach, MoveDetach, Release, Moves
  <2>2. clients' = clients \ {l} /\ UNCHANGED listenerFrame
    BY <1>5 DEF ErrorDetach, MoveDetach, Release
  <2>3. l \in clients
    BY <1>0, <1>5 DEF ErrorDetach, MoveDetach, Release, Attached
  <2>4. src.listeners - 1 \in Nat /\ Cardinality(clients \ {l}) = src.listeners - 1
    BY <2>3, CountOut
  <2>5. /\ src' \in Source /\ src'.flags = src.flags
        /\ src'.listeners = src.listeners - 1
    <3>1. src \in Source /\ src.listeners - 1 \in Nat /\ src.term - 1 \in Int
      BY <1>0, <2>4, FieldTypes
    <3>2. CASE src' = [src EXCEPT !.listeners = @ - 1, !.term = @ - 1]
      BY <3>1, <3>2 DEF Source
    <3>3. CASE src' = [src EXCEPT !.listeners = @ - 1]
      BY <3>1, <3>3 DEF Source
    <3> QED
      BY <1>5, <3>2, <3>3 DEF ErrorDetach, MoveDetach, Release
  <2>6. mem = "live"
    BY <2>3 DEF IInv, OnlyLive
  <2>7. pc \notin Attached
    BY <2>1 DEF Attached
  <2> QED
    BY <2>1, <2>2, <2>3, <2>4, <2>5, <2>6, <2>7, ListenerMoves
<1> QED
  BY <1>1, <1>2, <1>3, <1>4, <1>5 DEF ListenerStep

\* Override, moveclients, kill, time and the end of the server.
LEMMA OtherNext ==
  ASSUME IInv, Override \/ MoveClients \/ KillSource \/ Tick \/ Halt
  PROVE  IInv'
<1> USE DEF IInv, srcClientVars, settings, clocks
<1>1. CASE Override
  <2>1. /\ src' \in Source /\ src'.listeners = src.listeners
        /\ src'.flags = src.flags \cup {"SYNC"}
    BY <1>1, FieldTypes DEF Override, TypeOK, Source, Flags
  <2>2. /\ timer' = FALSE /\ syncAge' = FALSE /\ moved' = FALSE
        /\ UNCHANGED <<mem, clients, srcClientVars, lpc, settings, halting>>
    BY <1>1 DEF Override
  <2>3. "RUNNING" \in src.flags /\ "TERMINATING" \notin src.flags /\ mem = "live"
    BY <1>1 DEF Override, source_running
  <2>4. TypeOK'
    BY <2>1, <2>2 DEF TypeOK
  <2> QED
    BY <2>1, <2>2, <2>3, <2>4
       DEF ClientsAttached, Counted, OnlyLive, OneSourceClient, SharedKept,
           Quiet, TimerFresh, SourcesOne, Streaming
<1>2. CASE KillSource
  <2>1. /\ src' \in Source /\ src'.listeners = src.listeners
        /\ src'.flags \subseteq src.flags
    BY <1>2, ReadTypes DEF KillSource, TypeOK
  <2>2. UNCHANGED <<mem, clients, srcClientVars, lpc, clocks, settings, halting>>
    BY <1>2 DEF KillSource
  <2>3. TypeOK'
    BY <2>1, <2>2 DEF TypeOK
  <2> QED
    BY <2>1, <2>2, <2>3
       DEF ClientsAttached, Counted, OnlyLive, OneSourceClient, SharedKept,
           Quiet, TimerFresh, SourcesOne, Streaming
<1>3. CASE Tick \/ Halt
  <2>1. UNCHANGED <<mem, src, clients, srcClientVars, lpc, settings>>
    BY <1>3 DEF Tick, Halt
  <2>2. /\ timer' \in BOOLEAN /\ syncAge' \in BOOLEAN /\ moved' \in BOOLEAN
        /\ halting' \in BOOLEAN
    BY <1>3, Zenon DEF Tick, Halt, TypeOK
  <2>3. TimerFresh'
    BY <1>3, <2>1 DEF Tick, Halt, TimerFresh
  <2>4. TypeOK'
    BY <2>1, <2>2 DEF TypeOK
  <2> QED
    BY <2>1, <2>3, <2>4
       DEF ClientsAttached, Counted, OnlyLive, OneSourceClient, SharedKept,
           Quiet, SourcesOne, Streaming
<1>4. CASE MoveClients
  <2>1. /\ src' \in Source /\ src'.listeners = src.listeners
        /\ src'.flags = src.flags \cup {"SYNC"}
    BY <1>4, FieldTypes DEF MoveClients, TypeOK, Source, Flags
  <2>2. /\ moved' = TRUE /\ syncAge' = FALSE
        /\ UNCHANGED <<mem, clients, srcClientVars, lpc, timer, settings, halting>>
    BY <1>4 DEF MoveClients
  <2>3. "RUNNING" \in src.flags /\ mem = "live"
    BY <1>4 DEF MoveClients, source_available
  <2>4. TypeOK'
    BY <2>1, <2>2 DEF TypeOK
  <2> QED
    BY <2>1, <2>2, <2>3, <2>4
       DEF ClientsAttached, Counted, OnlyLive, OneSourceClient, SharedKept,
           Quiet, TimerFresh, SourcesOne, Streaming
<1> QED
  BY <1>1, <1>2, <1>3, <1>4

\* Every step keeps the invariant.
LEMMA NextIInv == IInv /\ [Next]_vars => IInv'
<1> SUFFICES ASSUME IInv, [Next]_vars PROVE IInv'
  OBVIOUS
<1>1. ASSUME NEW c \in SrcClient,
             Startup(c) \/ StartupRefused(c) \/ HttpFail(c) \/ SourceStep(c)
      PROVE  IInv'
  BY <1>1, StartStep, ReadStep DEF SourceStep
<1>2. CASE UNCHANGED vars
  BY <1>2 DEF vars, clocks, IInv, TypeOK, ClientsAttached, Counted, OnlyLive,
              OneSourceClient, SharedKept, Quiet, TimerFresh, SourcesOne,
              Streaming
<1> QED
  BY <1>1, <1>2, ListenerNext, OtherNext DEF Next

\* The inductive invariant.
THEOREM Inductive == Spec => []IInv
  BY InitIInv, NextIInv, PTL DEF Spec

-----------------------------------------------------------------------------
(* What it shows.                                                          *)

\* The state of a source keeps its types; in particular source->listeners,
\* an unsigned number, is never taken below zero.
THEOREM TypeCorrect == Spec => []TypeOK
<1>1. IInv => TypeOK
  BY DEF IInv
<1> QED
  BY <1>1, Inductive, PTL

\* source->listeners is the number of clients in the tree, for any number of
\* listeners that are added, moved, dropped and timed out as the source ends.
THEOREM ListenersCorrect == Spec => []ListenersMatch
<1>1. IInv => ListenersMatch
  BY DEF IInv, Counted, ListenersMatch
<1> QED
  BY <1>1, Inductive, PTL

\* _free_source is reached with no listener on the mount, whichever exit the
\* source client takes.
THEOREM FreedCorrect == Spec => []FreedUnattached
<1>1. IInv => FreedUnattached
  BY DEF IInv, OnlyLive, ClientsAttached, FreedUnattached
<1> QED
  BY <1>1, Inductive, PTL

\* global.sources is right whatever way a source ends.
THEOREM SourcesCorrect == Spec => []SourcesCounted
<1>1. ASSUME IInv PROVE SourcesCounted
  <2>1. CASE Streaming = {}
    BY <1>1, <2>1, FS_EmptySet DEF IInv, SourcesOne, SourcesCounted, Streaming
  <2>2. CASE Streaming # {}
    <3>1. Streaming = {owner}
      BY <1>1, <2>2 DEF IInv, OneSourceClient, Active, Streaming
    <3>2. Cardinality({owner}) = 1
      BY FS_Singleton
    <3>3. sources = 1
      BY <1>1, <2>2 DEF IInv, SourcesOne
    <3> QED
      BY <3>1, <3>2, <3>3 DEF SourcesCounted, Streaming
  <2> QED
    BY <2>1, <2>2
<1> QED
  BY <1>1, Inductive, PTL

\* A source is stopped for a synchronisation that lasted too long only when
\* the synchronisation really lasted that long, or was set off by moveclients.
THEOREM SyncGraceCorrect == Spec => SyncGrace
<1>1. IInv => [\A c \in SrcClient : GiveUp(c) => syncAge \/ moved]_vars
  BY DEF IInv, TimerFresh, GiveUp
<1> QED
  BY <1>1, Inductive, PTL DEF SyncGrace

(***************************************************************************)
(* The directory client: the inductive invariant                           *)
(***************************************************************************)
(* the pass has ypclient, and the lists of changes are the thread's *)
PassFits ==
    /\ ~twice => (client = "inactive" <=> pass # "none")
    /\ twice => running
    /\ down => ~running /\ client = "none" /\ pass = "none"
    /\ stop => ~running
    /\ pass # "servers" => at = <<1, 1>>
    /\ at[1] >= 1 /\ at[2] >= 1
    /\ changer # "apply" => list = <<>>

(* only listed servers have entries, and do_yp_remove is for released ones *)
EntriesFit ==
    /\ \A u \in Url \ Y!Listed : mounts[u] = <<>> /\ newMounts[u] = <<>>
    /\ \A u \in Url : \A i \in DOMAIN mounts[u] : mounts[u][i].remove => mounts[u][i].release

(* UpdateFlagged, entry by entry *)
Flagged ==
    ~update /\ ~down =>
        /\ pending = <<>> /\ dropped = {}
        /\ \A u \in Y!Listed : /\ newMounts[u] = <<>>
                               /\ \A i \in DOMAIN mounts[u] : ~mounts[u][i].remove

(* entry j of server i was counted in this pass, or in the last one *)
Visited(i, j) ==
    \/ pass \in {"none", "update", "end"}
    \/ pass = "servers" /\ (i < at[1] \/ (i = at[1] /\ j < at[2]))

Timed ==
    \A i \in DOMAIN active : \A j \in DOMAIN mounts[active[i]] :
        Visited(i, j) => \/ mounts[active[i]][j].release
                         \/ counter <= mounts[active[i]][j].next

(* the changes still to be applied, in their order *)
Awaited == list \o changes

ToDo(o, m) == \E i \in DOMAIN Awaited : Awaited[i].op = o /\ Awaited[i].mount = m

(* the last of the additions and removals of a mount is what it is now *)
Overruled(o, by, m) ==
    \A i \in DOMAIN Awaited : Awaited[i].op = o /\ Awaited[i].mount = m =>
        \E j \in DOMAIN Awaited : j > i /\ Awaited[j].op = by /\ Awaited[j].mount = m

Asked ==
    running => \A m \in Station : /\ public[m] = 0 => Overruled("add", "remove", m)
                                  /\ public[m] = 1 => Overruled("remove", "add", m)

(* m has an entry on u to stay *)
Remains(u, m) ==
    \/ \E i \in DOMAIN mounts[u] : Y!Releasable(mounts[u][i], m)
    \/ \E i \in DOMAIN newMounts[u] : Y!Releasable(newMounts[u][i], m)

Reflected ==
    running => \A m \in Station :
        /\ public[m] = 0 /\ m \notin missed =>
              ToDo("remove", m) \/ \A u \in Y!Listed : ~Remains(u, m)
        /\ public[m] = 1 /\ m \notin swallowed =>
              ToDo("add", m) \/ \A u \in Y!Listed : Remains(u, m)

DirectoryInv ==
    /\ Y!TypeOK
    /\ PassFits
    /\ EntriesFit
    /\ Flagged
    /\ Timed
    /\ Asked
    /\ Reflected

(***************************************************************************)
(* The lists of the directory client                                       *)
(***************************************************************************)
Change == [op : {"add", "remove", "touch"}, mount : Station]

\* yp_queue_change puts a change at the end.
LEMMA AwaitedGrows ==
  ASSUME list \in Seq(Change), changes \in Seq(Change), NEW x \in Change,
         list' = list, changes' = Append(changes, x)
  PROVE  /\ Len(Awaited) \in Nat /\ DOMAIN Awaited = 1 .. Len(Awaited)
         /\ DOMAIN Awaited' = 1 .. Len(Awaited) + 1
         /\ \A i \in 1 .. Len(Awaited) : Awaited'[i] = Awaited[i]
         /\ Awaited'[Len(Awaited) + 1] = x
<1>1. Awaited \in Seq(Change) /\ Awaited' = Append(Awaited, x)
  BY DEF Awaited
<1> QED
  BY <1>1

\* yp_pending_update takes the change at the head.
LEMMA AwaitedShrinks ==
  ASSUME list \in Seq(Change), changes \in Seq(Change), list # <<>>,
         list' = Tail(list), changes' = changes
  PROVE  /\ Len(Awaited) \in Nat \ {0} /\ DOMAIN Awaited = 1 .. Len(Awaited)
         /\ DOMAIN Awaited' = 1 .. Len(Awaited) - 1
         /\ \A i \in 1 .. Len(Awaited) - 1 : Awaited'[i] = Awaited[i + 1]
         /\ Awaited[1] = Head(list)
<1>1. Awaited \in Seq(Change) /\ Len(Awaited) # 0 /\ Awaited[1] = Head(list)
  BY DEF Awaited
<1>2. Awaited' \in Seq(Change) /\ Len(Awaited') = Len(Awaited) - 1
  BY DEF Awaited
<1>3. \A i \in 1 .. Len(Awaited) - 1 : Awaited'[i] = Awaited[i + 1]
  BY DEF Awaited
<1> QED
  BY <1>1, <1>2, <1>3

\* Detaching the queue leaves what is to be applied as it is.
LEMMA AwaitedMoved ==
  ASSUME list = <<>>, changes \in Seq(Change), list' = changes, changes' = <<>>
  PROVE  Awaited' = Awaited
  BY DEF Awaited

\* The places of a list of length n are n.
LEMMA UpTo ==
  ASSUME NEW n \in Nat
  PROVE  IsFiniteSet(1 .. n) /\ Cardinality(1 .. n) = n
<1>1. 1 \in Int /\ n \in Int
  OBVIOUS
<1>2. IsFiniteSet(1 .. n) /\ Cardinality(1 .. n) = IF 1 > n THEN 0 ELSE n - 1 + 1
  BY ONLY <1>1, FS_Interval
<1> QED
  BY <1>2

\* SetToSeq: every element, in some order.
LEMMA InSomeOrder ==
  ASSUME NEW S, IsFiniteSet(S)
  PROVE  /\ Y!SetToSeq(S) \in Seq(S)
         /\ \A x \in S : \E i \in DOMAIN Y!SetToSeq(S) : Y!SetToSeq(S)[i] = x
<1> DEFINE F == [1 .. Cardinality(S) -> S]
           p == CHOOSE f \in F : Y!IsInjective(f)
<1>0. Cardinality(S) \in Nat
  BY FS_CardinalityType
<1>1. \E f \in F : Y!IsInjective(f)
  <2>1. PICK f \in Bijection(1 .. Cardinality(S), S) : TRUE
    BY FS_CardinalityType DEF ExistsBijection
  <2>2. f \in F /\ Y!IsInjective(f)
    BY <2>1 DEF Bijection, Injection, IsInjective, Y!IsInjective
  <2> QED
    BY <2>2
<1>2. p \in F /\ Y!IsInjective(p)
  BY <1>1
<1>3. Y!SetToSeq(S) = p
  BY DEF Y!SetToSeq, Y!Cardinality, Cardinality
<1> HIDE DEF p
<1>4. p \in Seq(S) /\ DOMAIN p = 1 .. Cardinality(S)
  BY <1>0, <1>2
<1>5. \A x \in S : \E i \in 1 .. Cardinality(S) : p[i] = x
  <2>1. IsFiniteSet(1 .. Cardinality(S)) /\ Cardinality(1 .. Cardinality(S)) = Cardinality(S)
    BY <1>0, UpTo
  <2>2. p \in Injection(1 .. Cardinality(S), S)
    BY <1>2 DEF Injection, IsInjective, Y!IsInjective
  <2>3. p \in Surjection(1 .. Cardinality(S), S)
    BY <2>1, <2>2, FS_Injection
  <2> QED
    BY <2>3 DEF Surjection
<1> QED
  BY <1>3, <1>4, <1>5

\* Places: the numbers of a set have an order.
LEMMA Ascending ==
  ASSUME NEW m \in Nat, NEW S \in SUBSET (1 .. m)
  PROVE  \E p \in [1 .. Cardinality(S) -> S] :
            \A i, j \in 1 .. Cardinality(S) : i < j => p[i] < p[j]
<1> DEFINE Has(T) == \E p \in [1 .. Cardinality(T) -> T] :
                        \A i, j \in 1 .. Cardinality(T) : i < j => p[i] < p[j]
           Bad == {k \in Nat : \E T \in SUBSET (1 .. k) : ~Has(T)}
<1>1. SUFFICES ASSUME Bad # {} PROVE FALSE
  OBVIOUS
<1>2. PICK k \in Bad : \A j \in Bad : <<j, k>> \notin OpToRel(<, Nat)
  BY <1>1, NatLessThanWellFounded, WFMin, ZenonT(30)
<1>3. PICK T \in SUBSET (1 .. k) : ~Has(T)
  OBVIOUS
<1>4. k \in Nat
  OBVIOUS
<1>5. CASE k = 0
  <2>1. T = {}
    BY <1>4, <1>5
  <2>2. Cardinality(T) = 0
    BY <2>1, FS_EmptySet
  <2>3. [i \in {} |-> 0] \in [1 .. Cardinality(T) -> T]
    BY <2>2
  <2> QED
    BY <1>3, <2>2, <2>3
<1>6. CASE k # 0
  <2>1. k - 1 \in Nat /\ k - 1 < k
    BY <1>4, <1>6
  <2>2. k - 1 \notin Bad
    BY <1>2, <1>4, <2>1 DEF OpToRel
  <2>3. \A U \in SUBSET (1 .. k - 1) : Has(U)
    BY <2>1, <2>2
  <2>4. k \in T
    <3>1. ASSUME k \notin T PROVE FALSE
      <4>1. T \in SUBSET (1 .. k - 1)
        BY <1>4, <3>1
      <4> QED
        BY <4>1, <2>3, <1>3
    <3> QED
      BY <3>1
  <2> DEFINE U == T \ {k}
  <2>5. U \in SUBSET (1 .. k - 1)
    BY <1>4
  <2>6. IsFiniteSet(T)
    BY <1>4, UpTo, FS_Subset
  <2>7. /\ Cardinality(T) \in Nat /\ Cardinality(U) \in Nat
        /\ Cardinality(U) = Cardinality(T) - 1
    BY <2>4, <2>6, FS_RemoveElement, FS_CardinalityType
  <2> DEFINE n == Cardinality(U)
  <2>8. PICK p \in [1 .. n -> U] : \A i, j \in 1 .. n : i < j => p[i] < p[j]
    BY <2>3, <2>5
  <2> DEFINE q == [i \in 1 .. n + 1 |-> IF i = n + 1 THEN k ELSE p[i]]
  <2>9. n \in Nat /\ Cardinality(T) = n + 1
    BY <2>7
  <2> HIDE DEF n
  <2>10. \A i \in 1 .. n : p[i] \in U /\ p[i] \in Int /\ p[i] < k
    <3>1. \A x \in U : x \in Int /\ x < k
      BY <2>5, <1>4
    <3> HIDE DEF U
    <3> QED
      BY <3>1, <2>8
  <2>11. q \in [1 .. n + 1 -> T]
    BY <2>4, <2>9, <2>10
  <2>12. ASSUME NEW i \in 1 .. n + 1, NEW j \in 1 .. n + 1, i < j PROVE q[i] < q[j]
    <3>1. i \in 1 .. n /\ q[i] = p[i]
      BY <2>9, <2>12
    <3>2. CASE j = n + 1
      BY <3>1, <3>2, <2>9, <2>10
    <3>3. CASE j # n + 1
      <4>1. j \in 1 .. n /\ q[j] = p[j]
        BY <3>3, <2>9
      <4> QED
        BY <4>1, <3>1, <2>8, <2>12
    <3> QED
      BY <3>2, <3>3
  <2> HIDE DEF q
  <2> QED
    BY <2>9, <2>11, <2>12, <1>3
<1> QED
  BY <1>5, <1>6

\* Only: nothing but what is at those places, and all of it.
LEMMA OnlyThose ==
  ASSUME NEW X, NEW s \in Seq(X), NEW S \in SUBSET DOMAIN s
  PROVE  /\ Y!Only(s, S) \in Seq(X)
         /\ \A i \in DOMAIN Y!Only(s, S) : \E j \in S : Y!Only(s, S)[i] = s[j]
         /\ \A j \in S : \E i \in DOMAIN Y!Only(s, S) : Y!Only(s, S)[i] = s[j]
<1> DEFINE n == Cardinality(S)
           p == CHOOSE f \in [1 .. n -> S] : \A i, j \in DOMAIN f : i < j => f[i] < f[j]
<1>1. DOMAIN s = 1 .. Len(s) /\ Len(s) \in Nat
  OBVIOUS
<1>2. IsFiniteSet(S) /\ n \in Nat
  BY <1>1, UpTo, FS_Subset, FS_CardinalityType
<1>3. \E f \in [1 .. n -> S] : \A i, j \in DOMAIN f : i < j => f[i] < f[j]
  BY <1>1, Ascending
<1>4. p \in [1 .. n -> S] /\ \A i, j \in DOMAIN p : i < j => p[i] < p[j]
  BY <1>3
<1>5. Y!Places(S) = p
  BY DEF Y!Places, Y!Cardinality, Cardinality
<1> HIDE DEF p
<1>6. \A i, j \in 1 .. n : p[i] = p[j] => i = j
  <2> SUFFICES ASSUME NEW i \in 1 .. n, NEW j \in 1 .. n, p[i] = p[j] PROVE i = j
    OBVIOUS
  <2>1. p[i] \in Int /\ ~(p[i] < p[j]) /\ ~(p[j] < p[i])
    <3>1. p[i] \in S /\ \A x \in S : x \in Int /\ ~(x < x)
      BY <1>1, <1>4
    <3> QED
      BY <3>1
  <2>2. (i < j => p[i] < p[j]) /\ (j < i => p[j] < p[i])
    BY <1>4
  <2>3. ~(i < j) /\ ~(j < i)
    BY <2>1, <2>2
  <2> QED
    BY <1>2, <2>3
<1>7. \A x \in S : \E i \in 1 .. n : p[i] = x
  <2>1. IsFiniteSet(1 .. n) /\ Cardinality(1 .. n) = n
    BY <1>2, UpTo
  <2>2. p \in Injection(1 .. n, S)
    BY <1>4, <1>6 DEF Injection, IsInjective
  <2>3. p \in Surjection(1 .. n, S)
    BY <1>2, <2>1, <2>2, FS_Injection
  <2> QED
    BY <2>3 DEF Surjection
<1>8. Y!Only(s, S) = [i \in 1 .. n |-> s[p[i]]]
  BY <1>4, <1>5 DEF Y!Only
<1>9. \A i \in 1 .. n : p[i] \in S /\ s[p[i]] \in X
  BY <1>1, <1>4
<1> HIDE DEF n
<1>10. [i \in 1 .. n |-> s[p[i]]] \in Seq(X)
  BY <1>2, <1>9
<1> QED
  BY <1>7, <1>8, <1>9, <1>10

(***************************************************************************)
(* The directory client: what an action leaves alone                       *)
(***************************************************************************)
\* A step that leaves the lists of changes and the mounts alone.
LEMMA AskedStays ==
  ASSUME Asked, UNCHANGED <<list, changes, public>>, running' => running
  PROVE  Asked'
<1>1. Awaited' = Awaited
  BY DEF Awaited
<1> QED
  BY <1>1 DEF Asked, Overruled

(* t is s but for times, processes and what is left of released entries *)
SameIn(s, t) ==
    /\ DOMAIN t = DOMAIN s
    /\ \A i \in DOMAIN s : /\ t[i].mount = s[i].mount /\ t[i].release = s[i].release
                           /\ s[i].release \/ t[i].remove = s[i].remove

\* A step after which each mount has the entries it had, one by one.
LEMMA ReflectedStays ==
  ASSUME Reflected, UNCHANGED <<list, changes, public, active, missed, swallowed>>,
         running' => running,
         \A u \in Y!Listed : SameIn(mounts[u], mounts'[u]) /\ SameIn(newMounts[u], newMounts'[u])
  PROVE  Reflected'
<1>1. ASSUME NEW u \in Y!Listed, NEW m PROVE Remains(u, m)' <=> Remains(u, m)
  BY <1>1 DEF Remains, SameIn, Y!Releasable
<1>2. Y!Listed' = Y!Listed
  BY DEF Y!Listed
<1>3. ASSUME NEW m, NEW o PROVE ToDo(o, m)' <=> ToDo(o, m)
  BY DEF ToDo, Awaited
<1> QED
  BY <1>1, <1>2, <1>3 DEF Reflected

\* A step that leaves the entries, the changes and the mounts alone.
LEMMA EntriesStay ==
  ASSUME Reflected,
         UNCHANGED <<list, changes, public, active, missed, swallowed, mounts, newMounts>>,
         running' => running
  PROVE  Reflected'
  BY ReflectedStays DEF SameIn

\* directory_recheck: the worker gives ypclient to a pass.
LEMMA DirectoryStartsTrue ==
  ASSUME Y!Settings, DirectoryInv, Y!DirectoryStarts
  PROVE  DirectoryInv'
<1>1. Y!TypeOK'
  BY DEF DirectoryInv, Y!TypeOK, Y!Never, Y!Settings, Y!DirectoryStarts,
     Y!serverVars, Y!entryVars, Y!passVars, Y!changeVars, Y!ghosts
<1>2. PassFits'
  BY DEF DirectoryInv, Y!TypeOK, PassFits, Y!Settings, Y!DirectoryStarts,
     Y!serverVars, Y!entryVars, Y!passVars, Y!changeVars, Y!ghosts
<1>3. EntriesFit'
  BY DEF DirectoryInv, EntriesFit, Y!Listed, Y!Settings,
     Y!DirectoryStarts, Y!serverVars, Y!entryVars, Y!passVars, Y!changeVars, Y!ghosts
<1>4. Flagged'
  BY DEF DirectoryInv, Flagged, Y!Listed, Y!Settings, Y!DirectoryStarts,
     Y!serverVars, Y!entryVars, Y!passVars, Y!changeVars, Y!ghosts
<1>5. Timed'
  BY DEF DirectoryInv, Y!TypeOK, PassFits, Timed, Visited, Y!Settings,
     Y!DirectoryStarts, Y!serverVars, Y!entryVars, Y!passVars, Y!changeVars, Y!ghosts
<1>6. Asked'
  BY AskedStays DEF DirectoryInv, Y!DirectoryStarts, Y!serverVars, Y!entryVars, Y!passVars,
     Y!changeVars, Y!ghosts
<1>7. Reflected'
  BY EntriesStay DEF DirectoryInv, Y!DirectoryStarts, Y!serverVars, Y!entryVars,
     Y!passVars, Y!changeVars, Y!ghosts
<1> QED
  BY <1>1, <1>2, <1>3, <1>4, <1>5, <1>6, <1>7 DEF DirectoryInv

\* directory_recheck: ypclient is given up.
LEMMA DirectoryLeavesTrue ==
  ASSUME Y!Settings, DirectoryInv, Y!DirectoryLeaves
  PROVE  DirectoryInv'
<1>1. Y!TypeOK'
  BY DEF DirectoryInv, Y!TypeOK, Y!Never, Y!Settings, Y!DirectoryLeaves,
     Y!serverVars, Y!entryVars, Y!passVars, Y!changeVars, Y!ghosts
<1>2. PassFits'
  BY DEF DirectoryInv, Y!TypeOK, PassFits, Y!Settings, Y!DirectoryLeaves,
     Y!serverVars, Y!entryVars, Y!passVars, Y!changeVars, Y!ghosts
<1>3. EntriesFit'
  BY DEF DirectoryInv, EntriesFit, Y!Listed, Y!Settings,
     Y!DirectoryLeaves, Y!serverVars, Y!entryVars, Y!passVars, Y!changeVars, Y!ghosts
<1>4. Flagged'
  BY DEF DirectoryInv, Flagged, Y!Listed, Y!Settings, Y!DirectoryLeaves,
     Y!serverVars, Y!entryVars, Y!passVars, Y!changeVars, Y!ghosts
<1>5. Timed'
  BY DEF DirectoryInv, Y!TypeOK, PassFits, Timed, Visited, Y!Settings,
     Y!DirectoryLeaves, Y!serverVars, Y!entryVars, Y!passVars, Y!changeVars, Y!ghosts
<1>6. Asked'
  BY AskedStays DEF DirectoryInv, Y!DirectoryLeaves, Y!serverVars, Y!entryVars, Y!passVars,
     Y!changeVars, Y!ghosts
<1>7. Reflected'
  BY EntriesStay DEF DirectoryInv, Y!DirectoryLeaves, Y!serverVars, Y!entryVars,
     Y!passVars, Y!changeVars, Y!ghosts
<1> QED
  BY <1>1, <1>2, <1>3, <1>4, <1>5, <1>6, <1>7 DEF DirectoryInv

\* yp_update_thread takes the lock for reading.
LEMMA PassBeginsTrue ==
  ASSUME Y!Settings, DirectoryInv, Y!PassBegins
  PROVE  DirectoryInv'
<1>1. Y!TypeOK'
  BY DEF DirectoryInv, Y!TypeOK, Y!Never, Y!Settings, Y!PassBegins,
     Y!serverVars, Y!entryVars, Y!passVars, Y!changeVars, Y!ghosts
<1>2. PassFits'
  BY DEF DirectoryInv, Y!TypeOK, PassFits, Y!Settings, Y!PassBegins,
     Y!serverVars, Y!entryVars, Y!passVars, Y!changeVars, Y!ghosts
<1>3. EntriesFit'
  BY DEF DirectoryInv, EntriesFit, Y!Listed, Y!Settings, Y!PassBegins,
     Y!serverVars, Y!entryVars, Y!passVars, Y!changeVars, Y!ghosts
<1>4. Flagged'
  BY DEF DirectoryInv, Flagged, Y!Listed, Y!Settings, Y!PassBegins,
     Y!serverVars, Y!entryVars, Y!passVars, Y!changeVars, Y!ghosts
<1>5. Timed'
  BY DEF DirectoryInv, Y!TypeOK, PassFits, Timed, Visited, Y!Settings,
     Y!PassBegins, Y!serverVars, Y!entryVars, Y!passVars, Y!changeVars, Y!ghosts
<1>6. Asked'
  BY AskedStays DEF DirectoryInv, Y!PassBegins, Y!serverVars, Y!entryVars, Y!passVars,
     Y!changeVars, Y!ghosts
<1>7. Reflected'
  BY EntriesStay DEF DirectoryInv, Y!PassBegins, Y!serverVars, Y!entryVars, Y!passVars,
     Y!changeVars, Y!ghosts
<1> QED
  BY <1>1, <1>2, <1>3, <1>4, <1>5, <1>6, <1>7 DEF DirectoryInv

\* yp_update_thread: the next server, so no entry of the last one is left out.
LEMMA NextServerTrue ==
  ASSUME Y!Settings, DirectoryInv, Y!NextServer
  PROVE  DirectoryInv'
<1>1. Y!TypeOK'
  <2>1. at \in Nat \X Nat
    BY DEF DirectoryInv, Y!TypeOK
  <2>2. at' \in Nat \X Nat
    BY <2>1 DEF Y!NextServer
  <2>3. left' = PassLimit /\ PassLimit \in Nat
    BY DEF Y!Settings, Y!NextServer
  <2>4. failed' = FALSE
    BY DEF Y!NextServer
  <2>5. /\ UNCHANGED <<active, pending, dropped, mounts, newMounts, update, counter, client,
                        twice, stop, changes, list, changer, asks, public, running, down,
                        missed, swallowed, configs>>
        /\ pass' \in {"servers", "update", "end"}
    BY DEF Y!NextServer, Y!serverVars, Y!entryVars, Y!passVars, Y!changeVars, Y!ghosts
  <2>6. left' \in 0 .. PassLimit
    BY <2>3
  <2>7. failed' \in BOOLEAN
    BY <2>4
  <2> QED
    BY <2>2, <2>5, <2>6, <2>7 DEF DirectoryInv, Y!TypeOK, Y!Never
<1>2. PassFits'
  BY DEF DirectoryInv, Y!TypeOK, PassFits, Y!Settings, Y!NextServer,
     Y!serverVars, Y!entryVars, Y!passVars, Y!changeVars, Y!ghosts
<1>3. EntriesFit'
  BY DEF DirectoryInv, EntriesFit, Y!Listed, Y!Settings, Y!NextServer,
     Y!serverVars, Y!entryVars, Y!passVars, Y!changeVars, Y!ghosts
<1>4. Flagged'
  BY DEF DirectoryInv, Flagged, Y!Listed, Y!Settings, Y!NextServer,
     Y!serverVars, Y!entryVars, Y!passVars, Y!changeVars, Y!ghosts
<1>5. Timed'
  <2> SUFFICES ASSUME NEW i \in DOMAIN active, NEW j \in DOMAIN mounts[active[i]], Visited(i, j)'
               PROVE  mounts[active[i]][j].release \/ counter <= mounts[active[i]][j].next
    BY DEF Timed, Y!NextServer, Y!serverVars, Y!entryVars, Y!passVars, Y!changeVars,
       Y!ghosts
  <2>1. at[1] \in Nat /\ at[2] \in Nat /\ at' = <<at[1] + 1, 1>> /\ pass = "servers" /\ pass' = pass
    BY DEF DirectoryInv, Y!TypeOK, Y!NextServer
  <2>2. /\ i \in Nat /\ j \in Nat \ {0} /\ mounts[active[i]] \in Seq(Y!Entry)
        /\ j <= Len(mounts[active[i]])
    <3>1. active \in Seq(Url) /\ mounts \in [Url -> Seq(Y!Entry)]
      BY DEF DirectoryInv, Y!TypeOK
    <3>2. i \in Nat /\ active[i] \in Url
      BY <3>1
    <3>3. mounts[active[i]] \in Seq(Y!Entry)
      BY <3>1, <3>2
    <3> QED
      BY <3>2, <3>3
  <2>3. i < at[1] \/ i = at[1]
    BY <2>1, <2>2 DEF Visited
  <2>4. i = at[1] => j < at[2]
    BY <2>1, <2>2 DEF Y!NextServer, DirectoryInv, Y!TypeOK
  <2>5. Visited(i, j)
    BY <2>1, <2>3, <2>4 DEF Visited
  <2> QED
    BY <2>5 DEF DirectoryInv, Timed
<1>6. Asked'
  BY AskedStays DEF DirectoryInv, Y!NextServer, Y!serverVars, Y!entryVars, Y!passVars,
     Y!changeVars, Y!ghosts
<1>7. Reflected'
  BY EntriesStay DEF DirectoryInv, Y!NextServer, Y!serverVars, Y!entryVars, Y!passVars,
     Y!changeVars, Y!ghosts
<1> QED
  BY <1>1, <1>2, <1>3, <1>4, <1>5, <1>6, <1>7 DEF DirectoryInv

\* yp_update_thread: every entry of every server was visited.
LEMMA PassEndsTrue ==
  ASSUME Y!Settings, DirectoryInv, Y!PassEnds
  PROVE  DirectoryInv'
<1>1. Y!TypeOK'
  <2>1. at \in Nat \X Nat
    BY DEF DirectoryInv, Y!TypeOK
  <2>2. at' \in Nat \X Nat
    BY <2>1 DEF Y!PassEnds
  <2>3. left' = PassLimit /\ PassLimit \in Nat
    BY DEF Y!Settings, Y!PassEnds
  <2>4. failed' = FALSE
    BY DEF Y!PassEnds
  <2>5. /\ UNCHANGED <<active, pending, dropped, mounts, newMounts, update, counter, client,
                        twice, stop, changes, list, changer, asks, public, running, down,
                        missed, swallowed, configs>>
        /\ pass' \in {"servers", "update", "end"}
    BY DEF Y!PassEnds, Y!serverVars, Y!entryVars, Y!passVars, Y!changeVars, Y!ghosts
  <2>6. left' \in 0 .. PassLimit
    BY <2>3
  <2>7. failed' \in BOOLEAN
    BY <2>4
  <2> QED
    BY <2>2, <2>5, <2>6, <2>7 DEF DirectoryInv, Y!TypeOK, Y!Never
<1>2. PassFits'
  BY DEF DirectoryInv, Y!TypeOK, PassFits, Y!Settings, Y!PassEnds,
     Y!serverVars, Y!entryVars, Y!passVars, Y!changeVars, Y!ghosts
<1>3. EntriesFit'
  BY DEF DirectoryInv, EntriesFit, Y!Listed, Y!Settings, Y!PassEnds,
     Y!serverVars, Y!entryVars, Y!passVars, Y!changeVars, Y!ghosts
<1>4. Flagged'
  BY DEF DirectoryInv, Flagged, Y!Listed, Y!Settings, Y!PassEnds,
     Y!serverVars, Y!entryVars, Y!passVars, Y!changeVars, Y!ghosts
<1>5. Timed'
  <2>1. /\ pass = "servers" /\ at[1] > Len(active) /\ UNCHANGED <<active, mounts, counter>>
        /\ at[1] \in Nat /\ active \in Seq(Url)
    BY DEF DirectoryInv, Y!TypeOK, Y!PassEnds, Y!serverVars, Y!entryVars, Y!passVars,
       Y!changeVars, Y!ghosts
  <2>2. ASSUME NEW i \in DOMAIN active, NEW j PROVE Visited(i, j)
    BY <2>1 DEF Visited
  <2> QED
    BY <2>1, <2>2 DEF DirectoryInv, Timed
<1>6. Asked'
  BY AskedStays DEF DirectoryInv, Y!PassEnds, Y!serverVars, Y!entryVars, Y!passVars,
     Y!changeVars, Y!ghosts
<1>7. Reflected'
  BY EntriesStay DEF DirectoryInv, Y!PassEnds, Y!serverVars, Y!entryVars, Y!passVars,
     Y!changeVars, Y!ghosts
<1> QED
  BY <1>1, <1>2, <1>3, <1>4, <1>5, <1>6, <1>7 DEF DirectoryInv

\* yp_update_thread returns ypclient to its worker.
LEMMA ThreadEndsTrue ==
  ASSUME Y!Settings, DirectoryInv, Y!ThreadEnds
  PROVE  DirectoryInv'
<1>1. Y!TypeOK'
  BY DEF DirectoryInv, Y!TypeOK, Y!Never, Y!Settings, Y!ThreadEnds,
     Y!serverVars, Y!entryVars, Y!passVars, Y!changeVars, Y!ghosts
<1>2. PassFits'
  BY DEF DirectoryInv, Y!TypeOK, PassFits, Y!Settings, Y!ThreadEnds,
     Y!serverVars, Y!entryVars, Y!passVars, Y!changeVars, Y!ghosts
<1>3. EntriesFit'
  BY DEF DirectoryInv, EntriesFit, Y!Listed, Y!Settings, Y!ThreadEnds,
     Y!serverVars, Y!entryVars, Y!passVars, Y!changeVars, Y!ghosts
<1>4. Flagged'
  BY DEF DirectoryInv, Flagged, Y!Listed, Y!Settings, Y!ThreadEnds,
     Y!serverVars, Y!entryVars, Y!passVars, Y!changeVars, Y!ghosts
<1>5. Timed'
  BY DEF DirectoryInv, Y!TypeOK, PassFits, Timed, Visited, Y!Settings,
     Y!ThreadEnds, Y!serverVars, Y!entryVars, Y!passVars, Y!changeVars, Y!ghosts
<1>6. Asked'
  BY AskedStays DEF DirectoryInv, Y!ThreadEnds, Y!serverVars, Y!entryVars, Y!passVars,
     Y!changeVars, Y!ghosts
<1>7. Reflected'
  BY EntriesStay DEF DirectoryInv, Y!ThreadEnds, Y!serverVars, Y!entryVars, Y!passVars,
     Y!changeVars, Y!ghosts
<1> QED
  BY <1>1, <1>2, <1>3, <1>4, <1>5, <1>6, <1>7 DEF DirectoryInv

\* yp_pending_update takes the queue.
LEMMA DetachTrue ==
  ASSUME Y!Settings, DirectoryInv, Y!Detach
  PROVE  DirectoryInv'
<1>1. Y!TypeOK'
  BY DEF DirectoryInv, Y!TypeOK, Y!Never, Y!Settings, Y!Detach,
     Y!serverVars, Y!entryVars, Y!passVars, Y!changeVars, Y!ghosts
<1>2. PassFits'
  BY DEF DirectoryInv, Y!TypeOK, PassFits, Y!Settings, Y!Detach,
     Y!serverVars, Y!entryVars, Y!passVars, Y!changeVars, Y!ghosts
<1>3. EntriesFit'
  BY DEF DirectoryInv, EntriesFit, Y!Listed, Y!Settings, Y!Detach,
     Y!serverVars, Y!entryVars, Y!passVars, Y!changeVars, Y!ghosts
<1>4. Flagged'
  BY DEF DirectoryInv, Flagged, Y!Listed, Y!Settings, Y!Detach,
     Y!serverVars, Y!entryVars, Y!passVars, Y!changeVars, Y!ghosts
<1>5. Timed'
  BY DEF DirectoryInv, Y!TypeOK, PassFits, Timed, Visited, Y!Settings,
     Y!Detach, Y!serverVars, Y!entryVars, Y!passVars, Y!changeVars, Y!ghosts
<1>6. Asked'
  <2>1. Awaited' = Awaited
    BY AwaitedMoved DEF DirectoryInv, Y!TypeOK, PassFits, Awaited, Change, Y!Detach
  <2> QED
    BY <2>1 DEF DirectoryInv, Asked, Overruled, Y!Detach, Y!serverVars, Y!entryVars,
       Y!passVars, Y!changeVars, Y!ghosts
<1>7. Reflected'
  <2>1. Awaited' = Awaited
    BY AwaitedMoved DEF DirectoryInv, Y!TypeOK, PassFits, Awaited, Change, Y!Detach
  <2> QED
    BY <2>1 DEF DirectoryInv, Reflected, ToDo, Remains, Y!Listed, Y!Detach, Y!serverVars,
       Y!entryVars, Y!passVars, Y!changeVars, Y!ghosts
<1> QED
  BY <1>1, <1>2, <1>3, <1>4, <1>5, <1>6, <1>7 DEF DirectoryInv

\* yp_pending_update looks at the queue again, or ends.
LEMMA ChangesDoneTrue ==
  ASSUME Y!Settings, DirectoryInv, Y!ChangesDone
  PROVE  DirectoryInv'
<1>1. Y!TypeOK'
  BY DEF DirectoryInv, Y!TypeOK, Y!Never, Y!Settings, Y!ChangesDone,
     Y!serverVars, Y!entryVars, Y!passVars, Y!changeVars, Y!ghosts
<1>2. PassFits'
  BY DEF DirectoryInv, Y!TypeOK, PassFits, Y!Settings, Y!ChangesDone,
     Y!serverVars, Y!entryVars, Y!passVars, Y!changeVars, Y!ghosts
<1>3. EntriesFit'
  BY DEF DirectoryInv, EntriesFit, Y!Listed, Y!Settings, Y!ChangesDone,
     Y!serverVars, Y!entryVars, Y!passVars, Y!changeVars, Y!ghosts
<1>4. Flagged'
  BY DEF DirectoryInv, Flagged, Y!Listed, Y!Settings, Y!ChangesDone,
     Y!serverVars, Y!entryVars, Y!passVars, Y!changeVars, Y!ghosts
<1>5. Timed'
  BY DEF DirectoryInv, Y!TypeOK, PassFits, Timed, Visited, Y!Settings,
     Y!ChangesDone, Y!serverVars, Y!entryVars, Y!passVars, Y!changeVars, Y!ghosts
<1>6. Asked'
  <2>1. Awaited' = Awaited
    BY AwaitedMoved DEF DirectoryInv, Y!TypeOK, PassFits, Awaited, Change, Y!ChangesDone
  <2> QED
    BY <2>1 DEF DirectoryInv, Asked, Overruled, Y!ChangesDone, Y!serverVars, Y!entryVars,
       Y!passVars, Y!changeVars, Y!ghosts
<1>7. Reflected'
  <2>1. Awaited' = Awaited
    BY AwaitedMoved DEF DirectoryInv, Y!TypeOK, PassFits, Awaited, Change, Y!ChangesDone
  <2> QED
    BY <2>1 DEF DirectoryInv, Reflected, ToDo, Remains, Y!Listed, Y!ChangesDone,
       Y!serverVars, Y!entryVars, Y!passVars, Y!changeVars, Y!ghosts
<1> QED
  BY <1>1, <1>2, <1>3, <1>4, <1>5, <1>6, <1>7 DEF DirectoryInv

\* The server stops: what relates the changes to the mounts is over.
LEMMA HaltTrue ==
  ASSUME Y!Settings, DirectoryInv, Y!Halt
  PROVE  DirectoryInv'
<1>1. Y!TypeOK'
  BY DEF DirectoryInv, Y!TypeOK, Y!Never, Y!Settings, Y!Halt,
     Y!serverVars, Y!entryVars, Y!passVars, Y!changeVars, Y!ghosts
<1>2. PassFits'
  BY DEF DirectoryInv, Y!TypeOK, PassFits, Y!Settings, Y!Halt,
     Y!serverVars, Y!entryVars, Y!passVars, Y!changeVars, Y!ghosts
<1>3. EntriesFit'
  BY DEF DirectoryInv, EntriesFit, Y!Listed, Y!Settings, Y!Halt,
     Y!serverVars, Y!entryVars, Y!passVars, Y!changeVars, Y!ghosts
<1>4. Flagged'
  BY DEF DirectoryInv, Flagged, Y!Listed, Y!Settings, Y!Halt,
     Y!serverVars, Y!entryVars, Y!passVars, Y!changeVars, Y!ghosts
<1>5. Timed'
  BY DEF DirectoryInv, Y!TypeOK, PassFits, Timed, Visited, Y!Settings,
     Y!Halt, Y!serverVars, Y!entryVars, Y!passVars, Y!changeVars, Y!ghosts
<1>6. Asked'
  BY AskedStays DEF DirectoryInv, Y!Halt, Y!serverVars, Y!entryVars, Y!passVars,
     Y!changeVars, Y!ghosts
<1>7. Reflected'
  BY EntriesStay DEF DirectoryInv, Y!Halt, Y!serverVars, Y!entryVars, Y!passVars,
     Y!changeVars, Y!ghosts
<1> QED
  BY <1>1, <1>2, <1>3, <1>4, <1>5, <1>6, <1>7 DEF DirectoryInv

\* yp_stop.
LEMMA StopTrue ==
  ASSUME Y!Settings, DirectoryInv, Y!Stop
  PROVE  DirectoryInv'
<1>1. Y!TypeOK'
  BY DEF DirectoryInv, Y!TypeOK, Y!Never, Y!Settings, Y!Stop,
     Y!serverVars, Y!entryVars, Y!passVars, Y!changeVars, Y!ghosts
<1>2. PassFits'
  BY DEF DirectoryInv, Y!TypeOK, PassFits, Y!Settings, Y!Stop,
     Y!serverVars, Y!entryVars, Y!passVars, Y!changeVars, Y!ghosts
<1>3. EntriesFit'
  BY DEF DirectoryInv, EntriesFit, Y!Listed, Y!Settings, Y!Stop,
     Y!serverVars, Y!entryVars, Y!passVars, Y!changeVars, Y!ghosts
<1>4. Flagged'
  BY DEF DirectoryInv, Flagged, Y!Listed, Y!Settings, Y!Stop,
     Y!serverVars, Y!entryVars, Y!passVars, Y!changeVars, Y!ghosts
<1>5. Timed'
  BY DEF DirectoryInv, Y!TypeOK, PassFits, Timed, Visited, Y!Settings,
     Y!Stop, Y!serverVars, Y!entryVars, Y!passVars, Y!changeVars, Y!ghosts
<1>6. Asked'
  BY AskedStays DEF DirectoryInv, Y!Stop, Y!serverVars, Y!entryVars, Y!passVars,
     Y!changeVars, Y!ghosts
<1>7. Reflected'
  BY EntriesStay DEF DirectoryInv, Y!Stop, Y!serverVars, Y!entryVars, Y!passVars,
     Y!changeVars, Y!ghosts
<1> QED
  BY <1>1, <1>2, <1>3, <1>4, <1>5, <1>6, <1>7 DEF DirectoryInv

\* yp_recheck_config: servers to add and to drop have yp_update set.
LEMMA RecheckTrue ==
  ASSUME Y!Settings, DirectoryInv, NEW urls \in SUBSET Url, Y!RecheckConfig(urls)
  PROVE  DirectoryInv'
<1>a. /\ configs < MaxConfigs /\ running /\ ~twice /\ configs' = configs + 1
      /\ dropped' = Y!Range(active) \ urls
      /\ pending' = Y!SetToSeq({u \in urls : Y!Unknown(u)}) \o pending
      /\ update' = TRUE /\ Y!ClientAdded(urls)
      /\ UNCHANGED <<active, mounts, newMounts, pass, at, failed, left, changes, list,
                     changer, asks, public, running, down, missed, swallowed>>
  BY DEF Y!RecheckConfig, Y!entryVars, Y!passVars, Y!changeVars, Y!ghosts
<1>b. \/ UNCHANGED <<client, counter, twice, stop>>
      \/ /\ active = <<>> /\ client' = "active" /\ counter' = 0
         /\ stop' \in BOOLEAN /\ ~stop' /\ twice' \in BOOLEAN /\ (twice' <=> client # "none")
  BY <1>a, Zenon DEF Y!ClientAdded
<1>1. Y!TypeOK'
  <2>1. pending' \in Seq(Url)
    <3> DEFINE S == {u \in urls : Y!Unknown(u)}
    <3>1. IsFiniteSet(S)
      <4>1. IsFiniteSet(Url)
        BY DEF Y!Settings, Y!IsFiniteSet, IsFiniteSet
      <4>2. S \in SUBSET Url
        OBVIOUS
      <4> HIDE DEF S
      <4> QED
        BY <4>1, <4>2, FS_Subset
    <3>2. Y!SetToSeq(S) \in Seq(S)
      BY <3>1, InSomeOrder
    <3>3. Y!SetToSeq(S) \in Seq(Url)
      BY <3>2
    <3> HIDE DEF S
    <3> QED
      BY <1>a, <3>3 DEF S, DirectoryInv, Y!TypeOK
  <2>2. dropped' \in SUBSET Url
    <3>1. \A i \in DOMAIN active : active[i] \in Url
      BY DEF DirectoryInv, Y!TypeOK
    <3> QED
      BY <1>a, <3>1 DEF Y!Range
  <2>3. configs' \in 0 .. MaxConfigs
    BY <1>a DEF Y!Settings, DirectoryInv, Y!TypeOK
  <2>4. counter' \in 0 .. Y!Never
    BY <1>b DEF Y!Settings, DirectoryInv, Y!TypeOK, Y!Never
  <2>5. client' \in {"none", "active", "inactive"} /\ twice' \in BOOLEAN /\ stop' \in BOOLEAN
    BY <1>b DEF DirectoryInv, Y!TypeOK
  <2>6. update' \in BOOLEAN
    BY <1>a
  <2>7. UNCHANGED <<active, mounts, newMounts, pass, at, failed, left, changes, list,
                     changer, asks, public, running, down, missed, swallowed>>
    BY <1>a
  <2> QED
    BY <2>1, <2>2, <2>3, <2>4, <2>5, <2>6, <2>7 DEF DirectoryInv, Y!TypeOK
<1>2. PassFits'
  BY <1>a, <1>b DEF DirectoryInv, PassFits
<1>3. EntriesFit'
  BY <1>a DEF DirectoryInv, EntriesFit, Y!Listed
<1>4. Flagged'
  BY <1>a DEF Flagged
<1>5. Timed'
  BY <1>a, <1>b DEF DirectoryInv, Timed, Visited
<1>6. Asked'
  BY <1>a, AskedStays DEF DirectoryInv
<1>7. Reflected'
  BY <1>a, EntriesStay DEF DirectoryInv
<1> QED
  BY <1>1, <1>2, <1>3, <1>4, <1>5, <1>6, <1>7 DEF DirectoryInv

\* yp_queue_change: the last change queued for a mount says what it is now.
LEMMA AskTrue ==
  ASSUME Y!Settings, DirectoryInv, NEW m \in Station, NEW o \in {"add", "remove", "touch"},
         NEW val \in {-1, 0, 1}, Y!Ask(o, m, val),
         \/ o = "add" /\ val = 1
         \/ o = "remove" /\ val \in {0, -1}
         \/ o = "touch" /\ val = 1 /\ public[m] = 1
  PROVE  DirectoryInv'
<1> DEFINE x == [op |-> o, mount |-> m]
<1>a. /\ asks < MaxAsks /\ ~twice /\ asks' = asks + 1 /\ Y!Queued(o, m)
      /\ public' = [public EXCEPT ![m] = val]
      /\ UNCHANGED <<active, pending, dropped, mounts, newMounts, update, counter, client,
                     twice, stop, pass, at, failed, left, running, down, missed,
                     swallowed, configs>>
  BY DEF Y!Ask, Y!serverVars, Y!entryVars, Y!passVars, Y!ghosts
<1>b. /\ changes' = (IF running THEN Append(changes, x) ELSE changes)
      /\ list' = list /\ changer' \in {changer, "sleep"}
      /\ changer' # changer => changer = "none"
  BY <1>a DEF Y!Queued
<1>c. x \in Change /\ list \in Seq(Change) /\ changes \in Seq(Change)
  BY DEF DirectoryInv, Y!TypeOK, Change
<1>d. running => /\ Len(Awaited) \in Nat /\ DOMAIN Awaited = 1 .. Len(Awaited)
                 /\ DOMAIN Awaited' = 1 .. Len(Awaited) + 1
                 /\ \A i \in 1 .. Len(Awaited) : Awaited'[i] = Awaited[i]
                 /\ Awaited'[Len(Awaited) + 1] = x
  BY <1>b, <1>c, AwaitedGrows
<1>e. public \in [Station -> {-1, 0, 1}] /\ public' \in [Station -> {-1, 0, 1}]
  BY <1>a DEF DirectoryInv, Y!TypeOK
<1>f. public'[m] = val /\ \A k \in Station : k # m => public'[k] = public[k]
  BY <1>a, <1>e
<1>1. Y!TypeOK'
  <2>1. changes' \in Seq(Change) /\ list' \in Seq(Change)
    <3> HIDE DEF x
    <3> QED
      BY <1>b, <1>c
  <2>2. asks' \in 0 .. MaxAsks
    BY <1>a DEF Y!Settings, DirectoryInv, Y!TypeOK
  <2>3. changer' \in {"none", "sleep", "apply"}
    BY <1>b DEF DirectoryInv, Y!TypeOK
  <2> QED
    BY <1>a, <1>e, <2>1, <2>2, <2>3 DEF DirectoryInv, Y!TypeOK, Change, Y!Never
<1>2. PassFits'
  BY <1>a, <1>b DEF DirectoryInv, PassFits
<1>3. EntriesFit'
  BY <1>a DEF DirectoryInv, EntriesFit, Y!Listed
<1>4. Flagged'
  BY <1>a DEF DirectoryInv, Flagged, Y!Listed
<1>5. Timed'
  BY <1>a DEF DirectoryInv, Timed, Visited
<1>6. Asked'
  <2> SUFFICES ASSUME running, NEW k \in Station
               PROVE  /\ public'[k] = 0 => Overruled("add", "remove", k)'
                      /\ public'[k] = 1 => Overruled("remove", "add", k)'
    BY <1>a DEF Asked
  <2>1. CASE k = m
    BY <1>d, <1>f, <2>1 DEF Overruled, DirectoryInv, Asked
  <2>2. CASE k # m
    BY <1>d, <1>f, <2>2 DEF Overruled, DirectoryInv, Asked
  <2> QED
    BY <2>1, <2>2
<1>7. Reflected'
  <2> SUFFICES ASSUME running, NEW k \in Station
               PROVE  /\ public'[k] = 0 /\ k \notin missed' =>
                            ToDo("remove", k)' \/ \A u \in Y!Listed' : ~Remains(u, k)'
                      /\ public'[k] = 1 /\ k \notin swallowed' =>
                            ToDo("add", k)' \/ \A u \in Y!Listed' : Remains(u, k)'
    BY <1>a DEF Reflected
  <2>1. Y!Listed' = Y!Listed
    BY <1>a DEF Y!Listed
  <2>2. ASSUME NEW u PROVE Remains(u, k)' <=> Remains(u, k)
    BY <1>a DEF Remains
  <2>3. ASSUME NEW w PROVE ToDo(w, k) => ToDo(w, k)'
    BY <1>d DEF ToDo
  <2>4. k = m => ToDo(o, k)'
    BY <1>d DEF ToDo
  <2> HIDE DEF x
  <2> QED
    BY <1>a, <1>f, <2>1, <2>2, <2>3, <2>4 DEF DirectoryInv, Reflected
<1> QED
  BY <1>1, <1>2, <1>3, <1>4, <1>5, <1>6, <1>7 DEF DirectoryInv

\* yp_shutdown: nothing is left, and no thread of a pass to see it.
LEMMA ShutdownTrue ==
  ASSUME DirectoryInv, Y!Shutdown
  PROVE  DirectoryInv'
<1>a. /\ ~running /\ client = "none" /\ ~twice /\ down' = TRUE /\ active' = <<>>
      /\ mounts' = [u \in Url |-> <<>>] /\ newMounts' = [u \in Url |-> <<>>]
      /\ UNCHANGED <<pending, dropped, update, counter, client, twice, stop, pass, at, failed,
                     left, changes, list, changer, asks, public, running, missed,
                     swallowed, configs>>
  BY DEF Y!Shutdown, Y!WorkersGone, Y!passVars, Y!changeVars, Y!ghosts
<1>1. Y!TypeOK'
  <2>1. active' \in Seq(Url) /\ down' \in BOOLEAN
    BY <1>a
  <2>2. mounts' \in [Url -> Seq(Y!Entry)] /\ newMounts' \in [Url -> Seq(Y!Entry)]
    BY <1>a
  <2>3. UNCHANGED <<pending, dropped, update, counter, client, twice, stop, pass, at, failed,
                     left, changes, list, changer, asks, public, running, missed,
                     swallowed, configs>>
    BY <1>a
  <2> QED
    BY <2>1, <2>2, <2>3 DEF DirectoryInv, Y!TypeOK
<1>2. PassFits'
  BY <1>a DEF DirectoryInv, PassFits
<1>3. EntriesFit'
  BY <1>a DEF EntriesFit
<1>4. Flagged'
  BY <1>a DEF Flagged
<1>5. Timed'
  BY <1>a DEF Timed
<1>6. Asked'
  BY <1>a DEF Asked
<1>7. Reflected'
  BY <1>a DEF Reflected
<1> QED
  BY <1>1, <1>2, <1>3, <1>4, <1>5, <1>6, <1>7 DEF DirectoryInv

Sooner(s) == [i \in DOMAIN s |-> [s[i] EXCEPT !.next = IF @ = 0 THEN 0 ELSE @ - 1]]

\* An entry whose time comes nearer is the same entry.
LEMMA SoonerFits ==
  ASSUME Y!Settings, NEW s \in Seq(Y!Entry)
  PROVE  /\ Sooner(s) \in Seq(Y!Entry) /\ DOMAIN Sooner(s) = DOMAIN s
         /\ s = <<>> => Sooner(s) = <<>>
         /\ \A i \in DOMAIN s :
               /\ Sooner(s)[i].mount = s[i].mount /\ Sooner(s)[i].release = s[i].release
               /\ Sooner(s)[i].remove = s[i].remove
               /\ s[i].next \in 0 .. MaxDelay
               /\ Sooner(s)[i].next = IF s[i].next = 0 THEN 0 ELSE s[i].next - 1
<1>0. MaxDelay \in Nat
  BY DEF Y!Settings
<1>1. ASSUME NEW e \in Y!Entry
      PROVE  /\ [e EXCEPT !.next = IF @ = 0 THEN 0 ELSE @ - 1] \in Y!Entry
             /\ e.next \in 0 .. MaxDelay
  BY <1>0 DEF Y!Entry
<1>2. \A i \in DOMAIN s : s[i] \in Y!Entry
  OBVIOUS
<1>3. DOMAIN s = 1 .. Len(s) /\ Len(s) \in Nat
  OBVIOUS
<1>4. ASSUME NEW i \in DOMAIN s
      PROVE  /\ Sooner(s)[i] \in Y!Entry
             /\ Sooner(s)[i].mount = s[i].mount /\ Sooner(s)[i].release = s[i].release
             /\ Sooner(s)[i].remove = s[i].remove
             /\ s[i].next \in 0 .. MaxDelay
             /\ Sooner(s)[i].next = IF s[i].next = 0 THEN 0 ELSE s[i].next - 1
  <2>1. s[i] \in Y!Entry /\ Sooner(s)[i] = [s[i] EXCEPT !.next = IF @ = 0 THEN 0 ELSE @ - 1]
    BY <1>2 DEF Sooner
  <2>2. Sooner(s)[i] \in Y!Entry
    BY <1>1, <2>1
  <2> QED
    BY <1>1, <2>1, <2>2 DEF Y!Entry
<1>5. DOMAIN Sooner(s) = DOMAIN s /\ Sooner(s) = [i \in 1 .. Len(s) |-> Sooner(s)[i]]
  BY <1>3 DEF Sooner
<1>6. Sooner(s) \in Seq(Y!Entry)
  BY <1>3, <1>4, <1>5
<1>7. s = <<>> => Sooner(s) = <<>>
  BY <1>5, <1>6
<1> QED
  BY <1>4, <1>5, <1>6, <1>7

\* Time passes for the entries and for the counter alike.
LEMMA TickTrue ==
  ASSUME Y!Settings, DirectoryInv, Y!Tick
  PROVE  DirectoryInv'
<1>a. /\ ~twice
      /\ mounts' = [u \in Url |-> Sooner(mounts[u])]
      /\ newMounts' = [u \in Url |-> Sooner(newMounts[u])]
      /\ counter' = IF counter \in 1 .. MaxDelay THEN counter - 1 ELSE counter
      /\ UNCHANGED <<active, pending, dropped, update, client, twice, stop, pass, at, failed,
                     left, changes, list, changer, asks, public, running, down, missed,
                     swallowed, configs>>
  BY DEF Y!Tick, Sooner, Y!serverVars, Y!passVars, Y!changeVars, Y!ghosts
<1>b. /\ mounts \in [Url -> Seq(Y!Entry)] /\ newMounts \in [Url -> Seq(Y!Entry)]
      /\ counter \in 0 .. Y!Never /\ MaxDelay \in Nat /\ active \in Seq(Url)
  BY DEF DirectoryInv, Y!TypeOK, Y!Settings
<1>c. \A u \in Url : /\ mounts[u] \in Seq(Y!Entry) /\ mounts'[u] = Sooner(mounts[u])
                     /\ newMounts[u] \in Seq(Y!Entry) /\ newMounts'[u] = Sooner(newMounts[u])
  BY <1>a, <1>b
<1>1. Y!TypeOK'
  <2>1. mounts' \in [Url -> Seq(Y!Entry)] /\ newMounts' \in [Url -> Seq(Y!Entry)]
    BY <1>a, <1>c, SoonerFits
  <2>2. counter' \in 0 .. Y!Never
    BY <1>a, <1>b DEF Y!Never
  <2>3. UNCHANGED <<active, pending, dropped, update, client, twice, stop, pass, at, failed,
                     left, changes, list, changer, asks, public, running, down, missed,
                     swallowed, configs>>
    BY <1>a
  <2> QED
    BY <2>1, <2>2, <2>3 DEF DirectoryInv, Y!TypeOK
<1>2. PassFits'
  BY <1>a DEF DirectoryInv, PassFits
<1>3. EntriesFit'
  <2>1. ASSUME NEW u \in Url \ Y!Listed PROVE mounts'[u] = <<>> /\ newMounts'[u] = <<>>
    <3>1. mounts[u] = <<>> /\ newMounts[u] = <<>>
      BY DEF DirectoryInv, EntriesFit
    <3> QED
      BY <1>c, <3>1, SoonerFits
  <2>2. ASSUME NEW u \in Url, NEW i \in DOMAIN mounts'[u], mounts'[u][i].remove
        PROVE  mounts'[u][i].release
    <3>1. /\ i \in DOMAIN mounts[u] /\ mounts'[u][i].release = mounts[u][i].release
          /\ mounts'[u][i].remove = mounts[u][i].remove
      BY <1>c, SoonerFits
    <3> QED
      BY <2>2, <3>1 DEF DirectoryInv, EntriesFit
  <2> QED
    BY <1>a, <2>1, <2>2 DEF EntriesFit, Y!Listed
<1>4. Flagged'
  <2> SUFFICES ASSUME ~update, ~down, NEW u \in Y!Listed
               PROVE  newMounts'[u] = <<>> /\ \A i \in DOMAIN mounts'[u] : ~mounts'[u][i].remove
    BY <1>a DEF DirectoryInv, Flagged, Y!Listed
  <2>1. newMounts[u] = <<>> /\ \A i \in DOMAIN mounts[u] : ~mounts[u][i].remove
    BY DEF DirectoryInv, Flagged
  <2>2. u \in Url
    BY <1>b DEF Y!Listed, Y!Range
  <2>3. /\ mounts[u] \in Seq(Y!Entry) /\ mounts'[u] = Sooner(mounts[u])
        /\ newMounts[u] \in Seq(Y!Entry) /\ newMounts'[u] = Sooner(newMounts[u])
    BY <1>c, <2>2
  <2>4. newMounts'[u] = <<>>
    BY <2>1, <2>3, SoonerFits
  <2>5. \A i \in DOMAIN mounts'[u] : ~mounts'[u][i].remove
    BY <2>1, <2>3, SoonerFits
  <2> QED
    BY <2>4, <2>5
<1>5. Timed'
  <2> SUFFICES ASSUME NEW i \in DOMAIN active, NEW j \in DOMAIN mounts'[active[i]], Visited(i, j)
               PROVE  \/ mounts'[active[i]][j].release
                      \/ counter' <= mounts'[active[i]][j].next
    BY <1>a DEF Timed, Visited
  <2> DEFINE u == active[i]
  <2>1. u \in Url
    BY <1>b
  <2>2. /\ j \in DOMAIN mounts[u] /\ mounts'[u][j].release = mounts[u][j].release
        /\ mounts[u][j].next \in 0 .. MaxDelay
        /\ mounts'[u][j].next = IF mounts[u][j].next = 0 THEN 0 ELSE mounts[u][j].next - 1
    BY <1>c, <2>1, SoonerFits
  <2>3. mounts[u][j].release \/ counter <= mounts[u][j].next
    BY <2>2 DEF DirectoryInv, Timed
  <2> HIDE DEF u
  <2>4. ASSUME NEW n \in 0 .. MaxDelay, counter <= n
        PROVE  counter' <= IF n = 0 THEN 0 ELSE n - 1
    BY <1>a, <1>b, <2>4 DEF Y!Never
  <2> QED
    BY <2>2, <2>3, <2>4 DEF u
<1>6. Asked'
  BY <1>a, AskedStays DEF DirectoryInv
<1>7. Reflected'
  <2>1. \A u \in Y!Listed : u \in Url
    BY <1>b DEF Y!Listed, Y!Range
  <2>2. \A u \in Y!Listed : SameIn(mounts[u], mounts'[u]) /\ SameIn(newMounts[u], newMounts'[u])
    BY <1>c, <2>1, SoonerFits DEF SameIn
  <2> QED
    BY <1>a, <2>2, ReflectedStays DEF DirectoryInv
<1> QED
  BY <1>1, <1>2, <1>3, <1>4, <1>5, <1>6, <1>7 DEF DirectoryInv

\* yp_schedule: the earlier of two times.
LEMMA EarlierOf ==
  ASSUME NEW a \in Int, NEW b \in Int
  PROVE  /\ Y!Earlier(a, b) \in {a, b} /\ Y!Earlier(a, b) <= a /\ Y!Earlier(a, b) <= b
  BY DEF Y!Earlier

\* process_ypdata: what it may make of an entry.
LEMMA OutcomeFits ==
  ASSUME Y!Settings, NEW e \in Y!Entry, NEW o \in Y!ProcessOutcomes(e)
  PROVE  /\ o.e \in Y!Entry /\ o.e.mount = e.mount /\ o.e.release = e.release
         /\ e.release \/ o.e.remove = e.remove
         /\ o.d \in 0 .. MaxDelay /\ o.e.next = o.d
<1>0. MaxDelay \in Nat
  BY DEF Y!Settings
<1> DEFINE Out(f, d) == /\ o.e = [f EXCEPT !.next = d] /\ o.d = d
<1>1. ASSUME NEW f, NEW d, NEW r, o = Y!Outcome(f, d, r) PROVE Out(f, d)
  BY <1>1 DEF Y!Outcome
<1>2. Y!Delay \subseteq 0 .. MaxDelay /\ 0 \in 0 .. MaxDelay
  BY <1>0 DEF Y!Delay
<1> HIDE DEF Out
<1>3. CASE e.release
  <2> DEFINE g == [e EXCEPT !.process = "add", !.sid = FALSE, !.remove = TRUE]
  <2>1. PICK d \in 0 .. MaxDelay : Out(g, d)
    <3> HIDE DEF g
    <3>1. o \in Y!RemoveOutcomes(e)
      BY <1>3 DEF Y!ProcessOutcomes
    <3>2. \/ o \in {Y!Outcome(g, d, -2) : d \in Y!Delay}
          \/ o \in {Y!Outcome(g, 0, r) : r \in {-1, 0}}
          \/ o = Y!Outcome(g, 0, 0)
      BY <3>1, Zenon DEF Y!RemoveOutcomes, g
    <3>3. \E d \in 0 .. MaxDelay, r \in {-2, -1, 0} : o = Y!Outcome(g, d, r)
      BY <1>2, <3>2
    <3> QED
      BY <1>1, <3>3
  <2>2. o.e = [g EXCEPT !.next = d] /\ o.d = d
    BY <2>1 DEF Out
  <2>3. g \in Y!Entry /\ g.mount = e.mount /\ g.release = e.release
    BY DEF Y!Entry
  <2> HIDE DEF g
  <2>4. o.e \in Y!Entry /\ o.e.mount = g.mount /\ o.e.release = g.release /\ o.e.next = d
    BY <2>2, <2>3 DEF Y!Entry
  <2> QED
    BY <1>3, <2>2, <2>3, <2>4
<1>4. CASE ~e.release
  <2> DEFINE F == {e, [e EXCEPT !.process = "add"],
                   [e EXCEPT !.process = "add", !.sid = FALSE],
                   [e EXCEPT !.process = "touch", !.sid = e.sid],
                   [e EXCEPT !.process = "touch", !.sid = TRUE]}
  <2>1. /\ e \in F /\ [e EXCEPT !.process = "add"] \in F
        /\ [e EXCEPT !.process = "add", !.sid = FALSE] \in F
        /\ \A s \in {e.sid, TRUE} : [e EXCEPT !.process = "touch", !.sid = s] \in F
    OBVIOUS
  <2>2. \A f \in F : /\ f \in Y!Entry /\ f.mount = e.mount /\ f.release = e.release
                     /\ f.remove = e.remove
    BY DEF Y!Entry
  <2> HIDE DEF F
  <2>3. \E f \in F, d \in Y!Delay, r \in {-2, -1, 0} : o = Y!Outcome(f, d, r)
    <3>1. CASE o \in Y!AddOutcomes(e)
      <4> DEFINE A == {Y!Outcome(e, d, 0) : d \in Y!Delay}
                 B == {Y!Outcome(e, d, -1) : d \in Y!Delay}
                 C == {Y!Outcome([e EXCEPT !.process = "add"], d, -2) : d \in Y!Delay}
                 D == {Y!Outcome([e EXCEPT !.process = "add", !.sid = FALSE], d, -1) :
                          d \in Y!Delay}
                 E == {Y!Outcome([e EXCEPT !.process = "touch", !.sid = s], d, 0) :
                          d \in Y!Delay, s \in {e.sid, TRUE}}
      <4>0. Y!AddOutcomes(e) = A \cup B \cup C \cup D \cup E
        BY DEF Y!AddOutcomes
      <4>1. CASE o \in A
        BY <2>1, <4>1
      <4>2. CASE o \in B
        BY <2>1, <4>2
      <4>3. CASE o \in C
        BY <2>1, <4>3
      <4>4. CASE o \in D
        BY <2>1, <4>4
      <4>5. CASE o \in E
        BY <2>1, <4>5
      <4> HIDE DEF A, B, C, D, E
      <4> QED
        BY <3>1, <4>0, <4>1, <4>2, <4>3, <4>4, <4>5
    <3>2. CASE o \in Y!TouchOutcomes(e)
      <4>1. CASE o \in {Y!Outcome(e, d, 0) : d \in Y!Delay}
        BY <2>1, <4>1
      <4>2. CASE o \in {Y!Outcome([e EXCEPT !.process = "add"], d, -2) : d \in Y!Delay}
        BY <2>1, <4>2
      <4>3. CASE o \in {Y!Outcome([e EXCEPT !.process = "add", !.sid = FALSE], d, -1) :
                            d \in Y!Delay}
        BY <2>1, <4>3
      <4> QED
        BY <3>2, <4>1, <4>2, <4>3, Zenon DEF Y!TouchOutcomes
    <3> QED
      BY <1>4, <3>1, <3>2 DEF Y!ProcessOutcomes
  <2>4. PICK f \in F, d \in 0 .. MaxDelay : Out(f, d)
    BY <1>1, <1>2, <2>3
  <2>5. o.e = [f EXCEPT !.next = d] /\ o.d = d
    BY <2>4 DEF Out
  <2> QED
    BY <2>2, <2>5 DEF Y!Entry
<1> QED
  BY <1>3, <1>4

(* what a visit makes of entry j of server u, and of the counter *)
VisitsTo(u, j, e) ==
    /\ u \in Url /\ j \in DOMAIN mounts[u] /\ u = active[at[1]] /\ j = at[2]
    /\ at[1] \in DOMAIN active
    /\ e \in Y!Entry /\ e.mount = mounts[u][j].mount /\ e.release = mounts[u][j].release
    /\ mounts[u][j].release \/ e.remove = mounts[u][j].remove
    /\ mounts' = [mounts EXCEPT ![u][j] = e]
    /\ e.remove => mounts[u][j].remove \/ update'
    /\ counter' \in 0 .. Y!Never /\ counter' <= counter
    /\ e.release \/ counter' <= e.next

\* yp_process_server: the entry visited, and the counter no later than its time.
LEMMA VisitMakes ==
  ASSUME Y!Settings, DirectoryInv, Y!Visit
  PROVE  /\ \E u, j, e : VisitsTo(u, j, e)
         /\ update => update'
         /\ update' \in BOOLEAN /\ failed' \in BOOLEAN /\ left' \in 0 .. PassLimit
         /\ at' = <<at[1], at[2] + 1>> /\ at' \in Nat \X Nat
         /\ pass = "servers" /\ ~twice
         /\ UNCHANGED <<active, pending, dropped, newMounts, client, twice, stop, pass, changes,
                        list, changer, asks, public, running, down, missed, swallowed,
                        configs>>
<1> DEFINE u == active[at[1]]
           j == at[2]
           e == mounts[u][j]
           scheduled(d) == IF d = 0 \/ e.release THEN 0 ELSE Y!Earlier(counter, d)
<1>0. /\ PassLimit \in Nat /\ MaxDelay \in Nat
      /\ at \in Nat \X Nat /\ active \in Seq(Url) /\ mounts \in [Url -> Seq(Y!Entry)]
      /\ counter \in 0 .. Y!Never /\ left \in 0 .. PassLimit
      /\ update \in BOOLEAN /\ failed \in BOOLEAN
  BY DEF DirectoryInv, Y!TypeOK, Y!Settings
<1>a. /\ pass = "servers" /\ ~twice /\ at[1] <= Len(active) /\ j <= Len(mounts[u])
      /\ at' = <<at[1], at[2] + 1>>
      /\ UNCHANGED <<active, pending, dropped, newMounts, client, twice, stop, pass, changes,
                     list, changer, asks, public, running, down, missed, swallowed,
                     configs>>
  BY DEF Y!Visit, Y!serverVars, Y!changeVars, Y!ghosts
<1>b. /\ at[1] \in Nat \ {0} /\ j \in Nat \ {0}
  BY <1>0 DEF DirectoryInv, PassFits
<1>c. /\ at[1] \in DOMAIN active /\ u \in Url /\ mounts[u] \in Seq(Y!Entry)
      /\ j \in DOMAIN mounts[u] /\ e \in Y!Entry
  BY <1>0, <1>a, <1>b
<1>d. /\ e.next \in 0 .. MaxDelay /\ e.remove \in BOOLEAN /\ e.release \in BOOLEAN
      /\ e.remove => e.release
  BY <1>c DEF Y!Entry, DirectoryInv, EntriesFit
<1>e. MaxDelay \in Int /\ Y!Never = MaxDelay + 1 /\ counter \in Int /\ 0 <= counter
  BY <1>0 DEF Y!Never
<1>f. at' \in Nat \X Nat
  BY <1>0, <1>a
<1>g. ASSUME NEW f \in Y!Entry, f.mount = e.mount, f.release = e.release,
             e.release \/ f.remove = e.remove, mounts' = [mounts EXCEPT ![u][j] = f],
             f.remove => e.remove \/ update', counter' \in 0 .. Y!Never, counter' <= counter,
             f.release \/ counter' <= f.next
      PROVE  \E w, k, g : VisitsTo(w, k, g)
  <2>1. VisitsTo(u, j, f)
    BY <1>c, <1>g DEF VisitsTo
  <2> QED
    BY <2>1
<1>h. \/ /\ failed
         /\ \E d \in Y!Delay :
              /\ mounts' = [mounts EXCEPT ![u][j].process = "add", ![u][j].next = d]
              /\ counter' = Y!Earlier(counter, d)
         /\ UNCHANGED <<update, failed, left>>
      \/ /\ left > 0 /\ left' = left - 1
         /\ \E o \in Y!ProcessOutcomes(e) :
              /\ mounts' = [mounts EXCEPT ![u][j] = o.e]
              /\ counter' = Y!CounterWith(scheduled(o.d), o.e)
              /\ failed' = (o.ret = -2)
         /\ update' = (update \/ Y!Marks(e))
      \/ /\ left' = IF left = 0 THEN 0 ELSE left - 1
         /\ counter' = Y!CounterWith(counter, e)
         /\ UNCHANGED <<mounts, update, failed>>
  BY Zenon DEF Y!Visit, Y!Here
<1> HIDE DEF u, j, e, scheduled
<1>1. CASE /\ failed
           /\ \E d \in Y!Delay :
                /\ mounts' = [mounts EXCEPT ![u][j].process = "add", ![u][j].next = d]
                /\ counter' = Y!Earlier(counter, d)
           /\ UNCHANGED <<update, failed, left>>
  <2>1. PICK d \in Y!Delay :
              /\ mounts' = [mounts EXCEPT ![u][j].process = "add", ![u][j].next = d]
              /\ counter' = Y!Earlier(counter, d)
    BY <1>1
  <2> DEFINE f == [e EXCEPT !.process = "add", !.next = d]
  <2>2. d \in 0 .. MaxDelay /\ d \in Int
    BY <1>0 DEF Y!Delay
  <2>3. /\ f \in Y!Entry /\ f.mount = e.mount /\ f.release = e.release /\ f.remove = e.remove
        /\ f.next = d
    BY <1>c, <2>2 DEF Y!Entry
  <2>4. mounts' = [mounts EXCEPT ![u][j] = f]
    BY <1>0, <1>c, <2>1 DEF e
  <2>a. counter' \in {counter, d} /\ counter' <= counter /\ counter' <= d
    BY <1>e, <2>1, <2>2, EarlierOf
  <2>5. counter' \in 0 .. Y!Never /\ counter' <= counter /\ counter' <= d
    BY <1>0, <1>e, <2>2, <2>a
  <2> HIDE DEF f
  <2>6. \E w, k, g : VisitsTo(w, k, g)
    BY <1>g, <2>3, <2>4, <2>5
  <2> QED
    BY <1>0, <1>1, <1>a, <1>f, <2>6
<1>2. CASE /\ left > 0 /\ left' = left - 1
           /\ \E o \in Y!ProcessOutcomes(e) :
                /\ mounts' = [mounts EXCEPT ![u][j] = o.e]
                /\ counter' = Y!CounterWith(scheduled(o.d), o.e)
                /\ failed' = (o.ret = -2)
           /\ update' = (update \/ Y!Marks(e))
  <2>1. PICK o \in Y!ProcessOutcomes(e) :
              /\ mounts' = [mounts EXCEPT ![u][j] = o.e]
              /\ counter' = Y!CounterWith(scheduled(o.d), o.e)
              /\ failed' = (o.ret = -2)
    BY <1>2
  <2>2. /\ o.e \in Y!Entry /\ o.e.mount = e.mount /\ o.e.release = e.release
        /\ e.release \/ o.e.remove = e.remove
        /\ o.d \in 0 .. MaxDelay /\ o.e.next = o.d
    BY <1>c, OutcomeFits
  <2>3. o.d \in Int /\ 0 <= o.d
    BY <2>2
  <2>a. /\ Y!Earlier(counter, o.d) \in {counter, o.d} /\ Y!Earlier(counter, o.d) <= counter
        /\ Y!Earlier(counter, o.d) <= o.d
    BY <1>e, <2>3, EarlierOf
  <2>4. /\ scheduled(o.d) \in 0 .. Y!Never /\ scheduled(o.d) <= counter
        /\ e.release \/ scheduled(o.d) <= o.d
    BY <1>0, <1>e, <2>2, <2>3, <2>a DEF scheduled
  <2>5. /\ counter' \in {scheduled(o.d), Y!Earlier(scheduled(o.d), o.d)}
    BY <2>1, <2>2 DEF Y!CounterWith
  <2>b. scheduled(o.d) \in Int
    BY <1>e, <2>4
  <2>c. /\ Y!Earlier(scheduled(o.d), o.d) \in {scheduled(o.d), o.d}
        /\ Y!Earlier(scheduled(o.d), o.d) <= scheduled(o.d)
    BY <2>3, <2>b, EarlierOf
  <2>6. /\ Y!Earlier(scheduled(o.d), o.d) <= scheduled(o.d)
        /\ Y!Earlier(scheduled(o.d), o.d) \in 0 .. Y!Never
    BY <1>0, <1>e, <2>2, <2>3, <2>4, <2>c
  <2>7. counter' \in 0 .. Y!Never /\ counter' <= counter /\ (e.release \/ counter' <= o.d)
    BY <1>0, <1>e, <2>3, <2>4, <2>5, <2>6
  <2>8. o.e.remove => e.remove \/ update'
    BY <1>2, <2>2 DEF Y!Marks
  <2>9. \E w, k, g : VisitsTo(w, k, g)
    BY <1>g, <2>1, <2>2, <2>7, <2>8
  <2>10. update => update'
    BY <1>2
  <2>11. update' \in BOOLEAN /\ failed' \in BOOLEAN
    BY <1>2, <2>1
  <2>12. left' \in 0 .. PassLimit
    BY <1>0, <1>2
  <2> QED
    BY <1>a, <1>f, <2>9, <2>10, <2>11, <2>12
<1>3. CASE /\ left' = IF left = 0 THEN 0 ELSE left - 1
           /\ counter' = Y!CounterWith(counter, e)
           /\ UNCHANGED <<mounts, update, failed>>
  <2>1. mounts' = [mounts EXCEPT ![u][j] = e]
    BY <1>0, <1>3, <1>c DEF e
  <2>2. /\ counter' \in {counter, Y!Earlier(counter, e.next)}
        /\ (e.remove \/ counter' = Y!Earlier(counter, e.next))
    BY <1>3 DEF Y!CounterWith
  <2>3. /\ Y!Earlier(counter, e.next) \in {counter, e.next}
        /\ Y!Earlier(counter, e.next) <= counter /\ Y!Earlier(counter, e.next) <= e.next
    BY <1>d, <1>e, EarlierOf
  <2>4. counter' \in 0 .. Y!Never /\ counter' <= counter
    BY <1>0, <1>d, <1>e, <2>2, <2>3
  <2>5. e.release \/ counter' <= e.next
    BY <1>d, <2>2, <2>3
  <2>6. \E w, k, g : VisitsTo(w, k, g)
    BY <1>c, <1>g, <2>1, <2>4, <2>5
  <2>7. left' \in 0 .. PassLimit
    BY <1>0, <1>3
  <2> QED
    BY <1>0, <1>3, <1>a, <1>f, <2>6, <2>7
<1> QED
  BY <1>h, <1>1, <1>2, <1>3

\* yp_process_server: one more entry was visited, the others are as they were.
LEMMA VisitTrue ==
  ASSUME Y!Settings, DirectoryInv, Y!Visit
  PROVE  DirectoryInv'
<1>a. /\ update => update'
      /\ update' \in BOOLEAN /\ failed' \in BOOLEAN /\ left' \in 0 .. PassLimit
      /\ at' = <<at[1], at[2] + 1>> /\ at' \in Nat \X Nat
      /\ pass = "servers" /\ ~twice
      /\ UNCHANGED <<active, pending, dropped, newMounts, client, twice, stop, pass, changes,
                     list, changer, asks, public, running, down, missed, swallowed,
                     configs>>
  BY VisitMakes
<1>b. PICK u, j, e : VisitsTo(u, j, e)
  BY VisitMakes
<1>c. /\ mounts \in [Url -> Seq(Y!Entry)] /\ active \in Seq(Url) /\ at \in Nat \X Nat
      /\ counter \in 0 .. Y!Never /\ MaxDelay \in Nat
  BY DEF DirectoryInv, Y!TypeOK, Y!Settings
<1>d. /\ u \in Url /\ j \in DOMAIN mounts[u] /\ e \in Y!Entry
      /\ mounts' = [mounts EXCEPT ![u][j] = e]
      /\ u = active[at[1]] /\ j = at[2] /\ at[1] \in DOMAIN active
  BY <1>b DEF VisitsTo
<1>e. /\ mounts' \in [Url -> Seq(Y!Entry)]
      /\ \A v \in Url : DOMAIN mounts'[v] = DOMAIN mounts[v]
      /\ \A v \in Url : \A i \in DOMAIN mounts[v] :
            mounts'[v][i] = IF v = u /\ i = j THEN e ELSE mounts[v][i]
  BY <1>c, <1>d
<1>1. Y!TypeOK'
  <2>1. counter' \in 0 .. Y!Never
    BY <1>b DEF VisitsTo
  <2> QED
    BY <1>a, <1>e, <2>1 DEF DirectoryInv, Y!TypeOK, Y!Never
<1>2. PassFits'
  <2>1. at[1] \in Nat /\ at[2] \in Nat /\ at'[1] = at[1] /\ at'[2] = at[2] + 1
    BY <1>a, <1>c
  <2>2. at'[1] >= 1 /\ at'[2] >= 1
    BY <2>1 DEF DirectoryInv, PassFits
  <2> QED
    BY <1>a, <2>2 DEF DirectoryInv, PassFits
<1>3. EntriesFit'
  <2>1. u \in Y!Listed
    BY <1>d DEF Y!Listed, Y!Range
  <2>2. ASSUME NEW v \in Url \ Y!Listed PROVE mounts'[v] = <<>> /\ newMounts'[v] = <<>>
    <3>1. mounts'[v] = mounts[v]
      BY <1>c, <1>d, <2>1
    <3> QED
      BY <1>a, <3>1 DEF DirectoryInv, EntriesFit
  <2>3. ASSUME NEW v \in Url, NEW i \in DOMAIN mounts'[v], mounts'[v][i].remove
        PROVE  mounts'[v][i].release
    BY <1>b, <1>e, <2>3 DEF DirectoryInv, EntriesFit, VisitsTo
  <2> QED
    BY <1>a, <2>2, <2>3 DEF EntriesFit, Y!Listed
<1>4. Flagged'
  <2> SUFFICES ASSUME ~update', ~down', NEW v \in Y!Listed'
               PROVE  /\ pending' = <<>> /\ dropped' = {} /\ newMounts'[v] = <<>>
                      /\ \A i \in DOMAIN mounts'[v] : ~mounts'[v][i].remove
    <3>1. ~update' /\ ~down' => pending' = <<>> /\ dropped' = {}
      BY <1>a DEF DirectoryInv, Flagged
    <3> QED
      BY <3>1 DEF Flagged
  <2>1. v \in Y!Listed /\ v \in Url
    BY <1>a, <1>c DEF Y!Listed, Y!Range
  <2>2. /\ pending = <<>> /\ dropped = {} /\ newMounts[v] = <<>>
        /\ \A i \in DOMAIN mounts[v] : ~mounts[v][i].remove
    BY <1>a, <2>1 DEF DirectoryInv, Flagged
  <2>3. \A i \in DOMAIN mounts'[v] : ~mounts'[v][i].remove
    BY <1>b, <1>e, <2>1, <2>2 DEF VisitsTo
  <2> QED
    BY <1>a, <2>2, <2>3
<1>5. Timed'
  <2> SUFFICES ASSUME NEW i \in DOMAIN active, NEW k \in DOMAIN mounts'[active[i]],
                      Visited(i, k)'
               PROVE  \/ mounts'[active[i]][k].release
                      \/ counter' <= mounts'[active[i]][k].next
    BY <1>a DEF Timed
  <2> DEFINE v == active[i]
  <2>1. v \in Url /\ k \in DOMAIN mounts[v] /\ i \in Nat /\ k \in Nat
        /\ at[1] \in Nat /\ at[2] \in Nat
    BY <1>c, <1>e
  <2>2. CASE v = u /\ k = j
    <3>1. mounts'[v][k] = e
      BY <1>e, <2>1, <2>2
    <3> QED
      BY <1>b, <3>1 DEF VisitsTo
  <2>3. CASE ~(v = u /\ k = j)
    <3>1. mounts'[v][k] = mounts[v][k]
      BY <1>e, <2>1, <2>3
    <3>2. Visited(i, k)
      BY <1>a, <1>d, <2>1, <2>3 DEF Visited
    <3>3. mounts[v][k].release \/ counter <= mounts[v][k].next
      BY <2>1, <3>2 DEF DirectoryInv, Timed
    <3>4. mounts[v][k].next \in Int
      <4>1. mounts[v][k] \in Y!Entry /\ MaxDelay \in Nat
        BY <1>c, <2>1
      <4> QED
        BY <4>1 DEF Y!Entry
    <3>5. counter' <= counter /\ counter' \in Int /\ counter \in Int
      BY <1>b, <1>c DEF VisitsTo
    <3> QED
      BY <3>1, <3>3, <3>4, <3>5
  <2> QED
    BY <2>2, <2>3
<1>6. Asked'
  BY <1>a, AskedStays DEF DirectoryInv
<1>7. Reflected'
  <2>1. ASSUME NEW v \in Y!Listed
        PROVE  SameIn(mounts[v], mounts'[v]) /\ SameIn(newMounts[v], newMounts'[v])
    <3>1. v \in Url
      BY <1>c DEF Y!Listed, Y!Range
    <3>2. SameIn(mounts[v], mounts'[v])
      BY <1>b, <1>e, <3>1 DEF SameIn, VisitsTo
    <3> QED
      BY <1>a, <3>2 DEF SameIn
  <2> QED
    BY <1>a, <2>1, ReflectedStays DEF DirectoryInv
<1> QED
  BY <1>1, <1>2, <1>3, <1>4, <1>5, <1>6, <1>7 DEF DirectoryInv

(* what is in r is in s or in t, and all of it *)
Joins(r, s, t) ==
    /\ \A i \in DOMAIN r : (\E j \in DOMAIN s : r[i] = s[j]) \/ (\E j \in DOMAIN t : r[i] = t[j])
    /\ \A j \in DOMAIN s : \E i \in DOMAIN r : r[i] = s[j]
    /\ \A j \in DOMAIN t : \E i \in DOMAIN r : r[i] = t[j]

\* Two lists one after the other.
LEMMA Joined ==
  ASSUME NEW X, NEW s \in Seq(X), NEW t \in Seq(X)
  PROVE  s \o t \in Seq(X) /\ Joins(s \o t, s, t)
<1> DEFINE r == s \o t
<1>1. /\ Len(s) \in Nat /\ Len(t) \in Nat /\ DOMAIN s = 1 .. Len(s) /\ DOMAIN t = 1 .. Len(t)
      /\ r \in Seq(X) /\ DOMAIN r = 1 .. Len(s) + Len(t)
      /\ \A i \in 1 .. Len(s) + Len(t) :
            r[i] = IF i <= Len(s) THEN s[i] ELSE t[i - Len(s)]
  OBVIOUS
<1>2. ASSUME NEW i \in 1 .. Len(s) + Len(t)
      PROVE  \/ \E j \in DOMAIN s : r[i] = s[j]
             \/ \E j \in DOMAIN t : r[i] = t[j]
  <2>1. CASE i <= Len(s)
    BY <1>1, <2>1
  <2>2. CASE ~(i <= Len(s))
    <3>1. i - Len(s) \in DOMAIN t /\ r[i] = t[i - Len(s)]
      BY <1>1, <2>2
    <3> QED
      BY <3>1
  <2> QED
    BY <2>1, <2>2
<1>3. ASSUME NEW j \in DOMAIN s PROVE \E i \in DOMAIN r : r[i] = s[j]
  <2>1. j \in DOMAIN r /\ r[j] = s[j]
    BY <1>1
  <2> QED
    BY <2>1
<1>4. ASSUME NEW j \in DOMAIN t PROVE \E i \in DOMAIN r : r[i] = t[j]
  <2>1. /\ j + Len(s) \in DOMAIN r /\ ~(j + Len(s) <= Len(s))
        /\ (j + Len(s)) - Len(s) = j
    BY <1>1
  <2>2. r[j + Len(s)] = t[j]
    BY <1>1, <2>1
  <2> QED
    BY <2>1, <2>2
<1>5. r \in Seq(X)
  BY <1>1
<1> HIDE DEF r
<1>6. Joins(r, s, t)
  BY <1>1, <1>2, <1>3, <1>4 DEF Joins
<1> QED
  BY <1>5, <1>6 DEF r

\* add_pending_yp: the new servers, the last first, are those of the list.
LEMMA ReverseFits ==
  ASSUME NEW X, NEW s \in Seq(X)
  PROVE  Y!Reverse(s) \in Seq(X) /\ (s = <<>> => Y!Reverse(s) = <<>>)
<1>1. Len(s) \in Nat /\ \A i \in 1 .. Len(s) : s[(Len(s) - i) + 1] \in X
  OBVIOUS
<1>2. Y!Reverse(s) \in Seq(X) /\ Len(Y!Reverse(s)) = Len(s)
  BY <1>1 DEF Y!Reverse
<1> QED
  BY <1>2

\* delete_marked_yp: the entries that are not marked, and no others.
LEMMA StayingFits ==
  ASSUME NEW s \in Seq(Y!Entry)
  PROVE  /\ Y!Staying(s) \in Seq(Y!Entry)
         /\ \A i \in DOMAIN Y!Staying(s) :
               \E j \in DOMAIN s : Y!Staying(s)[i] = s[j] /\ ~s[j].remove
         /\ \A j \in DOMAIN s : ~s[j].remove =>
               \E i \in DOMAIN Y!Staying(s) : Y!Staying(s)[i] = s[j]
<1> DEFINE S == {i \in DOMAIN s : ~s[i].remove}
<1>1. S \in SUBSET DOMAIN s /\ Y!Staying(s) = Y!Only(s, S)
  BY DEF Y!Staying
<1>2. /\ Y!Only(s, S) \in Seq(Y!Entry)
      /\ \A i \in DOMAIN Y!Only(s, S) : \E j \in S : Y!Only(s, S)[i] = s[j]
      /\ \A j \in S : \E i \in DOMAIN Y!Only(s, S) : Y!Only(s, S)[i] = s[j]
  <2> HIDE DEF S
  <2> QED
    BY <1>1, OnlyThose
<1>3. \A j \in DOMAIN s : j \in S <=> ~s[j].remove
  OBVIOUS
<1> HIDE DEF S
<1> QED
  BY <1>1, <1>2, <1>3

\* check_servers: a new server has an entry of each mount that is public.
LEMMA ForSourcesFits ==
  ASSUME Y!Settings, NEW d \in 0 .. MaxDelay
  PROVE  /\ Y!ForSources(d) \in Seq(Y!Entry)
         /\ \A i \in DOMAIN Y!ForSources(d) :
               \E m \in Station : public[m] # 0 /\ Y!ForSources(d)[i] = Y!NewEntry(m, d)
         /\ \A m \in Station : public[m] # 0 =>
               \E i \in DOMAIN Y!ForSources(d) : Y!ForSources(d)[i] = Y!NewEntry(m, d)
<1> DEFINE S == {m \in Station : public[m] # 0}
           p == Y!SetToSeq(S)
<1>1. IsFiniteSet(S)
  <2>1. IsFiniteSet(Station)
    BY DEF Y!Settings, Y!IsFiniteSet, IsFiniteSet
  <2>2. S \in SUBSET Station
    OBVIOUS
  <2> HIDE DEF S
  <2> QED
    BY <2>1, <2>2, FS_Subset
<1>2. p \in Seq(S) /\ \A m \in S : \E i \in DOMAIN p : p[i] = m
  <2> HIDE DEF S
  <2> QED
    BY <1>1, InSomeOrder
<1>3. Y!ForSources(d) = [i \in DOMAIN p |-> Y!NewEntry(p[i], d)]
  BY DEF Y!ForSources
<1>4. \A m \in Station : Y!NewEntry(m, d) \in Y!Entry
  BY DEF Y!NewEntry, Y!Entry
<1>5. S \subseteq Station /\ \A m \in Station : m \in S <=> public[m] # 0
  OBVIOUS
<1> HIDE DEF p, S
<1>6. Len(p) \in Nat /\ DOMAIN p = 1 .. Len(p) /\ \A i \in DOMAIN p : p[i] \in S
  BY <1>2
<1>7. Y!ForSources(d) \in Seq(Y!Entry)
  BY <1>3, <1>4, <1>5, <1>6
<1>8. DOMAIN Y!ForSources(d) = DOMAIN p
  BY <1>3
<1> QED
  BY <1>2, <1>3, <1>5, <1>6, <1>7, <1>8

(* the servers that are kept by an update *)
Staid == {u \in Y!Listed : u \notin dropped}

\* The update: what each server has after it.
LEMMA UpdateMakes ==
  ASSUME Y!Settings, DirectoryInv, Y!Update
  PROVE  \E d \in 0 .. MaxDelay :
           /\ active' \in Seq(Url) /\ mounts' \in [Url -> Seq(Y!Entry)]
           /\ \A u \in Url \ Y!Listed' : mounts'[u] = <<>>
           /\ \A u \in Y!Listed' : /\ u \in Url
                                   /\ u \notin Staid => pending # <<>>
           /\ \A u \in Y!Listed' : \A i \in DOMAIN mounts'[u] :
                 /\ ~mounts'[u][i].remove
                 /\ \/ \E j \in DOMAIN newMounts[u] : mounts'[u][i] = newMounts[u][j]
                    \/ u \in Staid /\ \E j \in DOMAIN mounts[u] : mounts'[u][i] = mounts[u][j]
                    \/ /\ u \notin Staid /\ Y!ForSources(d) # <<>>
                       /\ \E m \in Station : /\ public[m] # 0
                                             /\ mounts'[u][i] = Y!NewEntry(m, d)
           /\ \A u \in Y!Listed' : \A j \in DOMAIN newMounts[u] :
                 ~newMounts[u][j].remove =>
                    \E i \in DOMAIN mounts'[u] : mounts'[u][i] = newMounts[u][j]
           /\ \A u \in Y!Listed' \cap Staid : \A j \in DOMAIN mounts[u] :
                 ~mounts[u][j].remove =>
                    \E i \in DOMAIN mounts'[u] : mounts'[u][i] = mounts[u][j]
           /\ \A u \in Y!Listed' \ Staid : \A m \in Station :
                 public[m] # 0 =>
                    \E i \in DOMAIN mounts'[u] : mounts'[u][i] = Y!NewEntry(m, d)
           /\ counter' = IF \E u \in Y!Listed' : newMounts[u] # <<>> THEN 0
                         ELSE IF pending # <<>> /\ Y!ForSources(d) # <<>>
                              THEN Y!Earlier(counter, d) ELSE counter
<1> DEFINE kept == Y!Only(active, {i \in DOMAIN active : active[i] \notin dropped})
           now == Y!Reverse(pending) \o kept
           before(d, u) == IF u \in Y!Range(kept) THEN mounts[u] ELSE Y!ForSources(d)
<1>0. /\ active \in Seq(Url) /\ pending \in Seq(Url)
      /\ mounts \in [Url -> Seq(Y!Entry)] /\ newMounts \in [Url -> Seq(Y!Entry)]
  BY DEF DirectoryInv, Y!TypeOK
<1>1. PICK d \in 0 .. MaxDelay :
        /\ active' = now
        /\ mounts' = [u \in Url |-> IF u \in Y!Range(now)
                                    THEN Y!Staying(newMounts[u] \o before(d, u)) ELSE <<>>]
        /\ counter' = IF \E u \in Y!Range(now) : newMounts[u] # <<>> THEN 0
                      ELSE IF pending # <<>> /\ Y!ForSources(d) # <<>>
                           THEN Y!Earlier(counter, d) ELSE counter
  BY Zenon DEF Y!Update
<1>2. kept \in Seq(Url) /\ Y!Range(kept) = Staid
  <2> DEFINE S == {i \in DOMAIN active : active[i] \notin dropped}
  <2>1. S \in SUBSET DOMAIN active
    OBVIOUS
  <2>2. /\ kept \in Seq(Url)
        /\ \A i \in DOMAIN kept : \E j \in S : kept[i] = active[j]
        /\ \A j \in S : \E i \in DOMAIN kept : kept[i] = active[j]
    <3>1. kept = Y!Only(active, S)
      OBVIOUS
    <3> HIDE DEF S, kept
    <3> QED
      BY <1>0, <2>1, <3>1, OnlyThose
  <2> HIDE DEF kept
  <2> QED
    BY <2>2 DEF Staid, Y!Listed, Y!Range
<1>3. Y!Reverse(pending) \in Seq(Url) /\ (pending = <<>> => Y!Reverse(pending) = <<>>)
  BY <1>0, ReverseFits
<1> HIDE DEF kept
<1>4. /\ now \in Seq(Url)
      /\ \A i \in DOMAIN now :
           \/ \E j \in DOMAIN Y!Reverse(pending) : now[i] = Y!Reverse(pending)[j]
           \/ \E j \in DOMAIN kept : now[i] = kept[j]
  <2>1. now \in Seq(Url) /\ Joins(now, Y!Reverse(pending), kept)
    BY <1>2, <1>3, Joined
  <2> HIDE DEF now
  <2> QED
    BY <2>1 DEF Joins
<1> HIDE DEF now
<1>5. Y!Listed' = Y!Range(now)
  BY <1>1 DEF Y!Listed
<1>6. ASSUME NEW u \in Y!Listed' PROVE u \in Url /\ (u \notin Staid => pending # <<>>)
  <2>1. PICK i \in DOMAIN now : u = now[i]
    BY <1>5 DEF Y!Range
  <2>2. u \in Url
    BY <1>4, <2>1
  <2>3. (\E j \in DOMAIN kept : now[i] = kept[j]) => u \in Staid
    BY <1>2, <2>1 DEF Y!Range
  <2>4. pending = <<>> => DOMAIN Y!Reverse(pending) = {}
    BY <1>3
  <2> QED
    BY <1>4, <2>1, <2>2, <2>3, <2>4
<1>7. /\ Y!ForSources(d) \in Seq(Y!Entry)
      /\ \A i \in DOMAIN Y!ForSources(d) :
            \E m \in Station : public[m] # 0 /\ Y!ForSources(d)[i] = Y!NewEntry(m, d)
      /\ \A m \in Station : public[m] # 0 =>
            \E i \in DOMAIN Y!ForSources(d) : Y!ForSources(d)[i] = Y!NewEntry(m, d)
  BY ForSourcesFits
<1>8. ASSUME NEW u \in Y!Listed'
      PROVE  /\ newMounts[u] \in Seq(Y!Entry)
             /\ before(d, u) = IF u \in Staid THEN mounts[u] ELSE Y!ForSources(d)
             /\ before(d, u) \in Seq(Y!Entry)
             /\ newMounts[u] \o before(d, u) \in Seq(Y!Entry)
             /\ mounts'[u] = Y!Staying(newMounts[u] \o before(d, u))
  <2>1. u \in Url /\ newMounts[u] \in Seq(Y!Entry) /\ mounts[u] \in Seq(Y!Entry)
    BY <1>0, <1>6
  <2>2. /\ before(d, u) = IF u \in Staid THEN mounts[u] ELSE Y!ForSources(d)
        /\ before(d, u) \in Seq(Y!Entry)
    BY <1>2, <1>7, <2>1
  <2> HIDE DEF before
  <2>3. newMounts[u] \o before(d, u) \in Seq(Y!Entry)
    BY <2>1, <2>2, Joined
  <2>4. mounts'[u] = Y!Staying(newMounts[u] \o before(d, u))
    BY <1>1, <1>5, <2>1
  <2> QED
    BY <2>1, <2>2, <2>3, <2>4
<1> HIDE DEF before
<1>9. mounts' \in [Url -> Seq(Y!Entry)] /\ \A u \in Url \ Y!Listed' : mounts'[u] = <<>>
  <2>1. \A u \in Y!Listed' : Y!Staying(newMounts[u] \o before(d, u)) \in Seq(Y!Entry)
    BY <1>8, StayingFits
  <2> QED
    BY <1>1, <1>5, <2>1
<1>10. ASSUME NEW u \in Y!Listed', NEW i \in DOMAIN mounts'[u]
       PROVE  /\ ~mounts'[u][i].remove
              /\ \/ \E j \in DOMAIN newMounts[u] : mounts'[u][i] = newMounts[u][j]
                 \/ u \in Staid /\ \E j \in DOMAIN mounts[u] : mounts'[u][i] = mounts[u][j]
                 \/ /\ u \notin Staid /\ Y!ForSources(d) # <<>>
                    /\ \E m \in Station : public[m] # 0 /\ mounts'[u][i] = Y!NewEntry(m, d)
  <2> DEFINE s == newMounts[u] \o before(d, u)
  <2>1. PICK j \in DOMAIN s : mounts'[u][i] = s[j] /\ ~s[j].remove
    <3> HIDE DEF s
    <3>1. s \in Seq(Y!Entry) /\ mounts'[u] = Y!Staying(s)
      BY <1>8 DEF s
    <3> QED
      BY <3>1, StayingFits
  <2>2. \/ \E k \in DOMAIN newMounts[u] : s[j] = newMounts[u][k]
        \/ \E k \in DOMAIN before(d, u) : s[j] = before(d, u)[k]
    <3>1. Joins(s, newMounts[u], before(d, u))
      BY <1>8, Joined
    <3> HIDE DEF s
    <3> QED
      BY <3>1 DEF Joins
  <2> HIDE DEF s
  <2>3. CASE \E k \in DOMAIN newMounts[u] : s[j] = newMounts[u][k]
    BY <2>1, <2>3
  <2>4. CASE \E k \in DOMAIN before(d, u) : s[j] = before(d, u)[k]
    <3>1. CASE u \in Staid
      BY <1>8, <2>1, <2>4, <3>1
    <3>2. CASE u \notin Staid
      BY <1>7, <1>8, <2>1, <2>4, <3>2
    <3> QED
      BY <3>1, <3>2
  <2> QED
    BY <2>2, <2>3, <2>4
<1>11. ASSUME NEW u \in Y!Listed'
       PROVE  /\ \A j \in DOMAIN newMounts[u] : ~newMounts[u][j].remove =>
                    \E i \in DOMAIN mounts'[u] : mounts'[u][i] = newMounts[u][j]
              /\ \A j \in DOMAIN before(d, u) : ~before(d, u)[j].remove =>
                    \E i \in DOMAIN mounts'[u] : mounts'[u][i] = before(d, u)[j]
  <2> DEFINE s == newMounts[u] \o before(d, u)
  <2>1. /\ \A j \in DOMAIN newMounts[u] : \E k \in DOMAIN s : s[k] = newMounts[u][j]
        /\ \A j \in DOMAIN before(d, u) : \E k \in DOMAIN s : s[k] = before(d, u)[j]
    <3>1. Joins(s, newMounts[u], before(d, u))
      BY <1>8, Joined
    <3> HIDE DEF s
    <3> QED
      BY <3>1 DEF Joins
  <2>2. s \in Seq(Y!Entry) /\ mounts'[u] = Y!Staying(s)
    BY <1>8
  <2> HIDE DEF s
  <2>3. \A k \in DOMAIN s : ~s[k].remove => \E i \in DOMAIN mounts'[u] : mounts'[u][i] = s[k]
    BY <2>2, StayingFits
  <2> QED
    BY <2>1, <2>3
<1>12. \A u \in Y!Listed' \cap Staid : \A j \in DOMAIN mounts[u] : ~mounts[u][j].remove =>
          \E i \in DOMAIN mounts'[u] : mounts'[u][i] = mounts[u][j]
  BY <1>8, <1>11
<1>13. ASSUME NEW u \in Y!Listed' \ Staid, NEW m \in Station, public[m] # 0
       PROVE  \E i \in DOMAIN mounts'[u] : mounts'[u][i] = Y!NewEntry(m, d)
  <2>1. PICK j \in DOMAIN Y!ForSources(d) : Y!ForSources(d)[j] = Y!NewEntry(m, d)
    BY <1>7, <1>13
  <2>2. before(d, u) = Y!ForSources(d) /\ ~Y!NewEntry(m, d).remove
    BY <1>8 DEF Y!NewEntry
  <2> QED
    BY <1>11, <2>1, <2>2
<1> QED
  BY <1>1, <1>4, <1>5, <1>6, <1>9, <1>10, <1>11, <1>12, <1>13

\* The update: nothing is left that waits for one.
LEMMA UpdateTrue ==
  ASSUME Y!Settings, DirectoryInv, Y!Update
  PROVE  DirectoryInv'
<1>a. /\ pass = "update" /\ ~twice /\ pending' = <<>> /\ dropped' = {}
      /\ newMounts' = [u \in Url |-> <<>>] /\ update' = FALSE /\ pass' = "end"
      /\ UNCHANGED <<client, twice, stop, at, failed, left, changes, list, changer, asks,
                     public, running, down, missed, swallowed, configs>>
  BY DEF Y!Update, Y!changeVars, Y!ghosts
<1>b. /\ active \in Seq(Url) /\ mounts \in [Url -> Seq(Y!Entry)]
      /\ newMounts \in [Url -> Seq(Y!Entry)]
      /\ counter \in 0 .. Y!Never /\ MaxDelay \in Nat
  BY DEF DirectoryInv, Y!TypeOK, Y!Settings
<1>c. PICK d \in 0 .. MaxDelay :
           /\ active' \in Seq(Url) /\ mounts' \in [Url -> Seq(Y!Entry)]
           /\ \A u \in Url \ Y!Listed' : mounts'[u] = <<>>
           /\ \A u \in Y!Listed' : /\ u \in Url
                                   /\ u \notin Staid => pending # <<>>
           /\ \A u \in Y!Listed' : \A i \in DOMAIN mounts'[u] :
                 /\ ~mounts'[u][i].remove
                 /\ \/ \E j \in DOMAIN newMounts[u] : mounts'[u][i] = newMounts[u][j]
                    \/ u \in Staid /\ \E j \in DOMAIN mounts[u] : mounts'[u][i] = mounts[u][j]
                    \/ /\ u \notin Staid /\ Y!ForSources(d) # <<>>
                       /\ \E m \in Station : /\ public[m] # 0
                                             /\ mounts'[u][i] = Y!NewEntry(m, d)
           /\ \A u \in Y!Listed' : \A j \in DOMAIN newMounts[u] :
                 ~newMounts[u][j].remove =>
                    \E i \in DOMAIN mounts'[u] : mounts'[u][i] = newMounts[u][j]
           /\ \A u \in Y!Listed' \cap Staid : \A j \in DOMAIN mounts[u] :
                 ~mounts[u][j].remove =>
                    \E i \in DOMAIN mounts'[u] : mounts'[u][i] = mounts[u][j]
           /\ \A u \in Y!Listed' \ Staid : \A m \in Station :
                 public[m] # 0 =>
                    \E i \in DOMAIN mounts'[u] : mounts'[u][i] = Y!NewEntry(m, d)
           /\ counter' = IF \E u \in Y!Listed' : newMounts[u] # <<>> THEN 0
                         ELSE IF pending # <<>> /\ Y!ForSources(d) # <<>>
                              THEN Y!Earlier(counter, d) ELSE counter
  BY UpdateMakes
<1>d. /\ Y!Earlier(counter, d) \in {counter, d} /\ Y!Earlier(counter, d) <= counter
      /\ Y!Earlier(counter, d) <= d
  <2>1. counter \in Int /\ d \in Int
    BY <1>b DEF Y!Never
  <2> QED
    BY <2>1, EarlierOf
<1>e. counter' \in 0 .. Y!Never /\ counter' <= counter
  BY <1>b, <1>c, <1>d DEF Y!Never
<1>f. Staid \subseteq Y!Listed
  BY DEF Staid
<1>1. Y!TypeOK'
  <2>1. newMounts' \in [Url -> Seq(Y!Entry)] /\ pending' \in Seq(Url) /\ dropped' \in SUBSET Url
    BY <1>a
  <2>2. update' \in BOOLEAN /\ pass' \in {"none", "start", "servers", "update", "end"}
    BY <1>a
  <2>3. active' \in Seq(Url) /\ mounts' \in [Url -> Seq(Y!Entry)]
    BY <1>c
  <2>4. UNCHANGED <<client, twice, stop, at, failed, left, changes, list, changer, asks,
                     public, running, down, missed, swallowed, configs>>
    BY <1>a
  <2> QED
    BY <1>e, <2>1, <2>2, <2>3, <2>4 DEF DirectoryInv, Y!TypeOK, Y!Never
<1>2. PassFits'
  BY <1>a DEF DirectoryInv, PassFits
<1>3. EntriesFit'
  <2>1. ASSUME NEW u \in Url, NEW i \in DOMAIN mounts'[u], mounts'[u][i].remove PROVE FALSE
    BY <1>c, <2>1
  <2> QED
    BY <1>a, <1>c, <2>1 DEF EntriesFit
<1>4. Flagged'
  BY <1>a, <1>c DEF Flagged
<1>5. Timed'
  <2> SUFFICES ASSUME NEW i \in DOMAIN active', NEW k \in DOMAIN mounts'[active'[i]]
               PROVE  \/ mounts'[active'[i]][k].release
                      \/ counter' <= mounts'[active'[i]][k].next
    BY DEF Timed
  <2> DEFINE u == active'[i]
             e == mounts'[u][k]
  <2>1. u \in Y!Listed' /\ u \in Url
    BY <1>c DEF Y!Listed, Y!Range
  <2>2. e \in Y!Entry /\ e.next \in Nat
    <3>1. e \in Y!Entry
      BY <1>c, <2>1
    <3> QED
      BY <1>b, <3>1 DEF Y!Entry
  <2>3. CASE \E v \in Y!Listed' : newMounts[v] # <<>>
    BY <1>c, <2>2, <2>3
  <2>4. CASE \A v \in Y!Listed' : newMounts[v] = <<>>
    <3>1. \/ u \in Staid /\ \E j \in DOMAIN mounts[u] : e = mounts[u][j]
          \/ /\ u \notin Staid /\ Y!ForSources(d) # <<>>
             /\ \E m \in Station : e = Y!NewEntry(m, d)
      BY <1>c, <2>1, <2>4
    <3>2. CASE u \in Staid /\ \E j \in DOMAIN mounts[u] : e = mounts[u][j]
      <4>1. PICK j \in DOMAIN mounts[u] : e = mounts[u][j]
        BY <3>2
      <4>2. PICK h \in DOMAIN active : u = active[h]
        BY <3>2 DEF Staid, Y!Listed, Y!Range
      <4>3. e.release \/ counter <= e.next
        BY <1>a, <4>1, <4>2 DEF DirectoryInv, Timed, Visited
      <4>4. counter \in Int /\ counter' \in Int
        BY <1>b, <1>e DEF Y!Never
      <4> HIDE DEF e
      <4>5. e.release \/ counter' <= e.next
        BY <1>e, <2>2, <4>3, <4>4
      <4> QED
        BY <4>5 DEF e
    <3>3. CASE /\ u \notin Staid /\ Y!ForSources(d) # <<>>
               /\ \E m \in Station : e = Y!NewEntry(m, d)
      <4>1. counter' = Y!Earlier(counter, d)
        BY <1>c, <2>1, <2>4, <3>3
      <4>2. e.next = d
        BY <3>3 DEF Y!NewEntry
      <4> QED
        BY <1>d, <4>1, <4>2
    <3> QED
      BY <3>1, <3>2, <3>3
  <2> QED
    BY <2>3, <2>4
<1>6. Asked'
  BY <1>a, AskedStays DEF DirectoryInv
<1>7. Reflected'
  <2> SUFFICES ASSUME running, NEW m \in Station
               PROVE  /\ public[m] = 0 /\ m \notin missed =>
                            ToDo("remove", m)' \/ \A u \in Y!Listed' : ~Remains(u, m)'
                      /\ public[m] = 1 /\ m \notin swallowed =>
                            ToDo("add", m)' \/ \A u \in Y!Listed' : Remains(u, m)'
    BY <1>a DEF Reflected
  <2>1. ASSUME NEW o PROVE ToDo(o, m)' <=> ToDo(o, m)
    BY <1>a DEF ToDo, Awaited
  <2>2. ASSUME NEW u \in Y!Listed' PROVE u \notin Y!Listed => newMounts[u] = <<>>
    BY <1>c DEF DirectoryInv, EntriesFit
  <2>3. ASSUME public[m] = 0, \A u \in Y!Listed : ~Remains(u, m), NEW u \in Y!Listed'
        PROVE  ~Remains(u, m)'
    <3>1. newMounts'[u] = <<>>
      BY <1>a, <1>c
    <3>2. SUFFICES ASSUME NEW i \in DOMAIN mounts'[u], Y!Releasable(mounts'[u][i], m) PROVE FALSE
      BY <3>1 DEF Remains
    <3>3. CASE \E j \in DOMAIN newMounts[u] : mounts'[u][i] = newMounts[u][j]
      BY <2>2, <2>3, <3>2, <3>3 DEF Remains
    <3>4. CASE u \in Staid /\ \E j \in DOMAIN mounts[u] : mounts'[u][i] = mounts[u][j]
      BY <1>f, <2>3, <3>2, <3>4 DEF Remains
    <3>5. CASE \E n \in Station : public[n] # 0 /\ mounts'[u][i] = Y!NewEntry(n, d)
      BY <2>3, <3>2, <3>5 DEF Y!NewEntry, Y!Releasable
    <3> QED
      BY <1>c, <3>3, <3>4, <3>5
  <2>4. ASSUME public[m] = 1, \A u \in Y!Listed : Remains(u, m), NEW u \in Y!Listed'
        PROVE  Remains(u, m)'
    <3>1. CASE u \in Staid
      <4>1. Remains(u, m)
        BY <1>f, <2>4, <3>1
      <4>2. CASE \E j \in DOMAIN mounts[u] : Y!Releasable(mounts[u][j], m)
        <5>1. PICK j \in DOMAIN mounts[u] : Y!Releasable(mounts[u][j], m)
          BY <4>2
        <5>2. ~mounts[u][j].remove
          BY <5>1 DEF Y!Releasable
        <5>3. \E i \in DOMAIN mounts'[u] : mounts'[u][i] = mounts[u][j]
          BY <1>c, <3>1, <5>2
        <5>4. \E i \in DOMAIN mounts'[u] : Y!Releasable(mounts'[u][i], m)
          BY <5>1, <5>3
        <5> QED
          BY <5>4 DEF Remains
      <4>3. CASE \E j \in DOMAIN newMounts[u] : Y!Releasable(newMounts[u][j], m)
        <5>1. PICK j \in DOMAIN newMounts[u] : Y!Releasable(newMounts[u][j], m)
          BY <4>3
        <5>2. ~newMounts[u][j].remove
          BY <5>1 DEF Y!Releasable
        <5>3. \E i \in DOMAIN mounts'[u] : mounts'[u][i] = newMounts[u][j]
          BY <1>c, <5>2
        <5>4. \E i \in DOMAIN mounts'[u] : Y!Releasable(mounts'[u][i], m)
          BY <5>1, <5>3
        <5> QED
          BY <5>4 DEF Remains
      <4> QED
        BY <4>1, <4>2, <4>3 DEF Remains
    <3>2. CASE u \notin Staid
      <4>1. \E i \in DOMAIN mounts'[u] : mounts'[u][i] = Y!NewEntry(m, d)
        BY <1>c, <2>4, <3>2
      <4>2. Y!Releasable(Y!NewEntry(m, d), m)
        BY DEF Y!NewEntry, Y!Releasable
      <4>3. \E i \in DOMAIN mounts'[u] : Y!Releasable(mounts'[u][i], m)
        BY <4>1, <4>2
      <4> QED
        BY <4>3 DEF Remains
    <3> QED
      BY <3>1, <3>2
  <2> QED
    BY <2>1, <2>3, <2>4 DEF DirectoryInv, Reflected
<1> QED
  BY <1>1, <1>2, <1>3, <1>4, <1>5, <1>6, <1>7 DEF DirectoryInv

(* the first of the changes is taken off the list *)
Applies ==
    /\ changer = "apply" /\ pass # "servers" /\ ~twice
    /\ list # <<>> /\ list' = Tail(list)
    /\ UNCHANGED <<active, pending, dropped, client, twice, stop, pass, at, failed, left,
                   changes, changer, asks, public, running, down, configs>>

\* Once the first change is applied, the one that overrules it is still to come.
LEMMA HeadDone ==
  ASSUME list \in Seq(Change), changes \in Seq(Change), list # <<>>,
         list' = Tail(list), changes' = changes, NEW m
  PROVE  /\ \A o : ToDo(o, m) => ToDo(o, m)' \/ (Head(list).op = o /\ Head(list).mount = m)
         /\ \A o, by : Overruled(o, by, m) => Overruled(o, by, m)'
         /\ \A o, by : Overruled(o, by, m) /\ Head(list).op = o /\ Head(list).mount = m =>
                          ToDo(by, m)'
<1>1. /\ Len(Awaited) \in Nat \ {0} /\ DOMAIN Awaited = 1 .. Len(Awaited)
      /\ DOMAIN Awaited' = 1 .. Len(Awaited) - 1
      /\ \A i \in 1 .. Len(Awaited) - 1 : Awaited'[i] = Awaited[i + 1]
      /\ Awaited[1] = Head(list)
  BY AwaitedShrinks
<1>2. ASSUME NEW j \in DOMAIN Awaited, j > 1
      PROVE  j - 1 \in DOMAIN Awaited' /\ Awaited'[j - 1] = Awaited[j]
  BY <1>1, <1>2
<1>3. ASSUME NEW o, ToDo(o, m)
      PROVE  ToDo(o, m)' \/ (Head(list).op = o /\ Head(list).mount = m)
  <2>1. PICK j \in DOMAIN Awaited : Awaited[j].op = o /\ Awaited[j].mount = m
    BY <1>3 DEF ToDo
  <2>2. CASE j = 1
    BY <1>1, <2>1, <2>2
  <2>3. CASE j > 1
    BY <1>2, <2>1, <2>3 DEF ToDo
  <2> QED
    BY <1>1, <2>2, <2>3
<1>4. ASSUME NEW o, NEW by, Overruled(o, by, m), NEW i \in DOMAIN Awaited',
             Awaited'[i].op = o, Awaited'[i].mount = m
      PROVE  \E j \in DOMAIN Awaited' : /\ j > i
                                        /\ Awaited'[j].op = by /\ Awaited'[j].mount = m
  <2>1. i + 1 \in DOMAIN Awaited /\ Awaited[i + 1] = Awaited'[i] /\ i \in Nat
    BY <1>1
  <2>2. PICK j \in DOMAIN Awaited : j > i + 1 /\ Awaited[j].op = by /\ Awaited[j].mount = m
    BY <1>4, <2>1 DEF Overruled
  <2>3. j > 1 /\ j - 1 > i /\ j \in Nat
    BY <1>1, <2>1, <2>2
  <2> QED
    BY <1>2, <2>2, <2>3
<1>5. ASSUME NEW o, NEW by, Overruled(o, by, m), Head(list).op = o, Head(list).mount = m
      PROVE  ToDo(by, m)'
  <2>1. 1 \in DOMAIN Awaited
    BY <1>1
  <2>2. PICK j \in DOMAIN Awaited : j > 1 /\ Awaited[j].op = by /\ Awaited[j].mount = m
    BY <1>1, <1>5, <2>1 DEF Overruled
  <2> QED
    BY <1>2, <2>2 DEF ToDo
<1>6. ASSUME NEW o, NEW by, Overruled(o, by, m) PROVE Overruled(o, by, m)'
  <2>1. \A i \in DOMAIN Awaited' : Awaited'[i].op = o /\ Awaited'[i].mount = m =>
           \E j \in DOMAIN Awaited' : j > i /\ Awaited'[j].op = by /\ Awaited'[j].mount = m
    BY <1>4, <1>6
  <2> QED
    BY <2>1 DEF Overruled
<1> QED
  BY <1>3, <1>5, <1>6

\* yp_pending_update: the change that is applied.
LEMMA AppliesFits ==
  ASSUME DirectoryInv, Applies,
         mounts' \in [Url -> Seq(Y!Entry)], newMounts' \in [Url -> Seq(Y!Entry)],
         update' \in BOOLEAN, counter' \in 0 .. Y!Never,
         missed' \in SUBSET Station, swallowed' \in SUBSET Station
  PROVE  Y!TypeOK' /\ PassFits' /\ Asked'
<1>1. Y!TypeOK'
  <2>1. list \in Seq(Change) /\ list # <<>>
    BY DEF DirectoryInv, Y!TypeOK, Change, Applies
  <2>2. list' \in Seq(Change)
    BY <2>1 DEF Applies
  <2> QED
    BY <2>2 DEF DirectoryInv, Y!TypeOK, Change, Applies
<1>2. PassFits'
  BY DEF DirectoryInv, PassFits, Applies
<1>3. Asked'
  <2>1. list \in Seq(Change) /\ changes \in Seq(Change)
    BY DEF DirectoryInv, Y!TypeOK, Change
  <2>2. ASSUME NEW m, NEW o, NEW by, Overruled(o, by, m) PROVE Overruled(o, by, m)'
    BY <2>1, <2>2, HeadDone DEF Applies
  <2> QED
    BY <2>2 DEF DirectoryInv, Asked, Applies
<1> QED
  BY <1>1, <1>2, <1>3

\* yp_pending_update after yp_stop: the changes are dropped.
LEMMA StoppedTrue ==
  ASSUME DirectoryInv, Applies, stop,
         UNCHANGED <<mounts, newMounts, update, counter, missed, swallowed>>
  PROVE  DirectoryInv'
<1>1. Y!TypeOK' /\ PassFits' /\ Asked'
  BY AppliesFits DEF DirectoryInv, Y!TypeOK
<1>2. EntriesFit' /\ Flagged'
  BY DEF DirectoryInv, EntriesFit, Flagged, Y!Listed, Applies
<1>3. Timed'
  BY DEF DirectoryInv, Timed, Visited, Applies
<1>4. Reflected'
  BY DEF DirectoryInv, PassFits, Reflected, Applies
<1> QED
  BY <1>1, <1>2, <1>3, <1>4 DEF DirectoryInv

\* yp_add_callback: the mount has an entry on each server, or is an exception.
LEMMA AddCallbackTrue ==
  ASSUME Y!Settings, DirectoryInv, Applies, NEW m \in Station, Head(list).op = "add",
         Head(list).mount = m, Y!AddCallback(m)
  PROVE  DirectoryInv'
<1> DEFINE n == Y!NewEntry(m, MaxDelay)
<1>b. /\ active \in Seq(Url) /\ mounts \in [Url -> Seq(Y!Entry)]
      /\ newMounts \in [Url -> Seq(Y!Entry)] /\ update \in BOOLEAN
      /\ counter \in 0 .. Y!Never /\ MaxDelay \in Nat
      /\ missed \in SUBSET Station /\ swallowed \in SUBSET Station
  BY DEF DirectoryInv, Y!TypeOK, Y!Settings
<1>a. /\ newMounts' = [u \in Url |-> IF u \in Y!Listed /\ ~Y!AddSkips(u, m)
                                     THEN <<n>> \o newMounts[u] ELSE newMounts[u]]
      /\ \E d \in 0 .. MaxDelay :
           counter' = IF newMounts' = newMounts THEN counter ELSE Y!Earlier(counter, d)
      /\ update' = (update \/ newMounts' # newMounts)
      /\ swallowed' = IF \E u \in Y!Listed :
                            /\ Y!AddSkips(u, m)
                            /\ \A e \in Y!Entries(u) : e.mount = m => e.release \/ e.remove
                      THEN swallowed \cup {m} ELSE swallowed
      /\ UNCHANGED <<mounts, missed>>
  BY Zenon DEF Y!AddCallback
<1>c. n \in Y!Entry /\ Y!Releasable(n, m) /\ n.mount = m
  BY <1>b DEF Y!NewEntry, Y!Entry, Y!Releasable
<1> HIDE DEF n
<1>d. ASSUME NEW u \in Url
      PROVE  /\ newMounts[u] \in Seq(Y!Entry)
             /\ <<n>> \o newMounts[u] \in Seq(Y!Entry)
             /\ Joins(<<n>> \o newMounts[u], <<n>>, newMounts[u])
  <2>1. newMounts[u] \in Seq(Y!Entry) /\ <<n>> \in Seq(Y!Entry)
    BY <1>b, <1>c
  <2> QED
    BY <2>1, Joined
<1>e. newMounts' \in [Url -> Seq(Y!Entry)]
  BY <1>a, <1>b, <1>d
<1>f. counter' \in 0 .. Y!Never /\ counter' <= counter
  <2>1. PICK d \in 0 .. MaxDelay :
           counter' = IF newMounts' = newMounts THEN counter ELSE Y!Earlier(counter, d)
    BY <1>a
  <2>2. counter \in Int /\ d \in Int
    BY <1>b DEF Y!Never
  <2>3. Y!Earlier(counter, d) \in {counter, d} /\ Y!Earlier(counter, d) <= counter
    BY <2>2, EarlierOf
  <2> QED
    BY <1>b, <2>1, <2>2, <2>3 DEF Y!Never
<1>g. ASSUME NEW u \in Url
      PROVE  /\ newMounts'[u] = IF u \in Y!Listed /\ ~Y!AddSkips(u, m)
                                THEN <<n>> \o newMounts[u] ELSE newMounts[u]
             /\ u \in Y!Listed /\ ~Y!AddSkips(u, m) =>
                   \E i \in DOMAIN newMounts'[u] : newMounts'[u][i] = n
             /\ \A j \in DOMAIN newMounts[u] :
                   \E i \in DOMAIN newMounts'[u] : newMounts'[u][i] = newMounts[u][j]
             /\ \A i \in DOMAIN newMounts'[u] :
                   \/ newMounts'[u][i] = n
                   \/ \E j \in DOMAIN newMounts[u] : newMounts'[u][i] = newMounts[u][j]
  <2>1. newMounts'[u] = IF u \in Y!Listed /\ ~Y!AddSkips(u, m)
                        THEN <<n>> \o newMounts[u] ELSE newMounts[u]
    BY <1>a
  <2>2. DOMAIN <<n>> = {1} /\ <<n>>[1] = n
    OBVIOUS
  <2>3. Joins(<<n>> \o newMounts[u], <<n>>, newMounts[u])
    BY <1>d
  <2>4. CASE u \in Y!Listed /\ ~Y!AddSkips(u, m)
    <3>1. Joins(newMounts'[u], <<n>>, newMounts[u])
      BY <2>1, <2>3, <2>4
    <3> QED
      BY <2>1, <2>2, <3>1 DEF Joins
  <2>5. CASE ~(u \in Y!Listed /\ ~Y!AddSkips(u, m))
    BY <2>1, <2>5
  <2> QED
    BY <2>4, <2>5
<1>h. Y!Listed' = Y!Listed /\ \A u \in Y!Listed : u \in Url
  BY <1>b DEF Y!Listed, Y!Range, Applies
<1>1. Y!TypeOK' /\ PassFits' /\ Asked'
  <2>1. update' \in BOOLEAN /\ missed' \in SUBSET Station /\ swallowed' \in SUBSET Station
    BY <1>a, <1>b
  <2>2. mounts' \in [Url -> Seq(Y!Entry)]
    BY <1>a, <1>b
  <2> QED
    BY <1>e, <1>f, <2>1, <2>2, AppliesFits
<1>2. EntriesFit'
  <2>1. ASSUME NEW u \in Url \ Y!Listed PROVE newMounts'[u] = <<>>
    BY <1>g DEF DirectoryInv, EntriesFit
  <2> QED
    BY <1>a, <1>h, <2>1 DEF DirectoryInv, EntriesFit
<1>3. Flagged'
  BY <1>a, <1>h DEF DirectoryInv, Flagged, Applies
<1>4. Timed'
  <2> SUFFICES ASSUME NEW i \in DOMAIN active, NEW j \in DOMAIN mounts[active[i]], Visited(i, j)
               PROVE  mounts[active[i]][j].release \/ counter' <= mounts[active[i]][j].next
    BY <1>a DEF Timed, Visited, Applies
  <2>1. mounts[active[i]][j].release \/ counter <= mounts[active[i]][j].next
    BY DEF DirectoryInv, Timed
  <2>2. mounts[active[i]][j] \in Y!Entry
    BY <1>b
  <2>3. mounts[active[i]][j].next \in Int /\ counter \in Int /\ counter' \in Int
    BY <1>b, <1>f, <2>2 DEF Y!Entry, Y!Never
  <2> QED
    BY <1>f, <2>1, <2>3
<1>5. Reflected'
  <2> SUFFICES ASSUME running, NEW k \in Station
               PROVE  /\ public[k] = 0 /\ k \notin missed =>
                            ToDo("remove", k)' \/ \A u \in Y!Listed : ~Remains(u, k)'
                      /\ public[k] = 1 /\ k \notin swallowed' =>
                            ToDo("add", k)' \/ \A u \in Y!Listed : Remains(u, k)'
    BY <1>a, <1>h DEF Reflected, Applies
  <2>1. /\ \A o : ToDo(o, k) => ToDo(o, k)' \/ ("add" = o /\ m = k)
        /\ \A o, by : Overruled(o, by, k) /\ "add" = o /\ m = k => ToDo(by, k)'
    <3>1. list \in Seq(Change) /\ changes \in Seq(Change)
      BY DEF DirectoryInv, Y!TypeOK, Change
    <3> QED
      BY <3>1, HeadDone DEF Applies
  <2>2. CASE k = m
    <3>1. public[k] = 0 => ToDo("remove", k)'
      BY <2>1, <2>2 DEF DirectoryInv, Asked
    <3>2. ASSUME k \notin swallowed', NEW u \in Y!Listed PROVE Remains(u, k)'
      <4>1. CASE ~Y!AddSkips(u, m)
        BY <1>c, <1>g, <1>h, <2>2, <4>1 DEF Remains
      <4>2. CASE Y!AddSkips(u, m)
        <5>1. PICK e \in Y!Entries(u) : e.mount = m /\ ~e.release /\ ~e.remove
          BY <1>a, <2>2, <3>2, <4>2
        <5>2. \/ \E i \in DOMAIN mounts[u] : e = mounts[u][i]
              \/ \E i \in DOMAIN newMounts[u] : e = newMounts[u][i]
          BY <5>1 DEF Y!Entries, Y!Range
        <5>3. newMounts'[u] = newMounts[u] /\ mounts' = mounts
          BY <1>a, <1>g, <1>h, <4>2
        <5> QED
          BY <2>2, <5>1, <5>2, <5>3 DEF Remains, Y!Releasable
      <4> QED
        BY <4>1, <4>2
    <3> QED
      BY <3>1, <3>2
  <2>3. CASE k # m
    <3>1. ASSUME NEW u \in Y!Listed PROVE Remains(u, k)' <=> Remains(u, k)
      <4>1. ~Y!Releasable(n, k)
        BY <1>c, <2>3 DEF Y!Releasable
      <4>2. u \in Url /\ mounts' = mounts
        BY <1>a, <1>h
      <4>3. /\ \A j \in DOMAIN newMounts[u] :
                  \E i \in DOMAIN newMounts'[u] : newMounts'[u][i] = newMounts[u][j]
            /\ \A i \in DOMAIN newMounts'[u] :
                  \/ newMounts'[u][i] = n
                  \/ \E j \in DOMAIN newMounts[u] : newMounts'[u][i] = newMounts[u][j]
        BY <4>2, <1>g
      <4>4. Remains(u, k) => Remains(u, k)'
        BY <4>2, <4>3 DEF Remains, Y!Releasable
      <4>5. Remains(u, k)' => Remains(u, k)
        BY <4>1, <4>2, <4>3 DEF Remains, Y!Releasable
      <4> QED
        BY <4>4, <4>5
    <3>2. swallowed' \in {swallowed, swallowed \cup {m}}
      BY <1>a
    <3> QED
      BY <2>1, <2>3, <3>1, <3>2 DEF DirectoryInv, Reflected
  <2> QED
    BY <2>2, <2>3
<1> QED
  BY <1>1, <1>2, <1>3, <1>4, <1>5 DEF DirectoryInv

\* Entries at the places 1 to n are a list of entries.
LEMMA EntrySequence ==
  ASSUME NEW n \in Nat, NEW f, f = [i \in 1 .. n |-> f[i]],
         \A i \in 1 .. n : f[i] \in Y!Entry
  PROVE  f \in Seq(Y!Entry)
<1>1. f \in [1 .. n -> Y!Entry]
  BY Zenon
<1> QED
  BY <1>1

\* yp_remove_callback: no entry of the mount stays, or it is an exception.
LEMMA RemoveCallbackTrue ==
  ASSUME Y!Settings, DirectoryInv, Applies, NEW m \in Station, Head(list).op = "remove",
         Head(list).mount = m, Y!RemoveCallback(m)
  PROVE  DirectoryInv'
<1> DEFINE After(e) == [e EXCEPT !.release = TRUE, !.next = 0]
<1>b. /\ active \in Seq(Url) /\ mounts \in [Url -> Seq(Y!Entry)]
      /\ newMounts \in [Url -> Seq(Y!Entry)] /\ update \in BOOLEAN
      /\ counter \in 0 .. Y!Never /\ MaxDelay \in Nat
      /\ missed \in SUBSET Station /\ swallowed \in SUBSET Station
  BY DEF DirectoryInv, Y!TypeOK, Y!Settings
<1>a. /\ mounts' = [u \in Url |-> [i \in DOMAIN mounts[u] |->
              IF u \in Y!Listed /\ Y!Releasable(mounts[u][i], m)
              THEN After(mounts[u][i]) ELSE mounts[u][i]]]
      /\ update' = (update \/ mounts' # mounts)
      /\ missed' = IF \E u \in Y!Listed : Y!Has(newMounts[u], m) THEN missed \cup {m} ELSE missed
      /\ UNCHANGED <<newMounts, counter, swallowed>>
  BY Zenon DEF Y!RemoveCallback
<1>c. ASSUME NEW e \in Y!Entry
      PROVE  /\ After(e) \in Y!Entry /\ After(e).mount = e.mount /\ After(e).release
             /\ After(e).remove = e.remove
  <2>1. 0 \in 0 .. MaxDelay
    BY <1>b
  <2> QED
    BY <2>1 DEF Y!Entry
<1> HIDE DEF After
<1>h. Y!Listed' = Y!Listed /\ \A u \in Y!Listed : u \in Url
  BY <1>b DEF Y!Listed, Y!Range, Applies
<1>d. ASSUME NEW u \in Url
      PROVE  /\ mounts'[u] \in Seq(Y!Entry) /\ DOMAIN mounts'[u] = DOMAIN mounts[u]
             /\ \A i \in DOMAIN mounts[u] :
                  /\ mounts[u][i] \in Y!Entry
                  /\ mounts'[u][i] = IF u \in Y!Listed /\ Y!Releasable(mounts[u][i], m)
                                     THEN After(mounts[u][i]) ELSE mounts[u][i]
                  /\ mounts'[u][i].mount = mounts[u][i].mount
                  /\ mounts'[u][i].remove = mounts[u][i].remove
                  /\ mounts[u][i].release => mounts'[u][i].release
  <2>1. /\ mounts[u] \in Seq(Y!Entry) /\ Len(mounts[u]) \in Nat
        /\ DOMAIN mounts[u] = 1 .. Len(mounts[u])
        /\ \A i \in DOMAIN mounts[u] : mounts[u][i] \in Y!Entry
    BY <1>b
  <2>2. /\ DOMAIN mounts'[u] = DOMAIN mounts[u]
        /\ mounts'[u] = [i \in 1 .. Len(mounts[u]) |-> mounts'[u][i]]
        /\ \A i \in DOMAIN mounts[u] :
             mounts'[u][i] = IF u \in Y!Listed /\ Y!Releasable(mounts[u][i], m)
                             THEN After(mounts[u][i]) ELSE mounts[u][i]
    BY <1>a, <2>1
  <2>3. \A i \in DOMAIN mounts[u] : /\ mounts'[u][i] \in Y!Entry
                                    /\ mounts'[u][i].mount = mounts[u][i].mount
                                    /\ mounts'[u][i].remove = mounts[u][i].remove
                                    /\ mounts[u][i].release => mounts'[u][i].release
    BY <1>c, <2>1, <2>2
  <2>4. mounts'[u] \in Seq(Y!Entry)
    BY <2>1, <2>2, <2>3, EntrySequence
  <2> QED
    BY <2>1, <2>2, <2>3, <2>4
<1>1. Y!TypeOK' /\ PassFits' /\ Asked'
  <2>1. update' \in BOOLEAN /\ missed' \in SUBSET Station /\ swallowed' \in SUBSET Station
    BY <1>a, <1>b
  <2>2. mounts' \in [Url -> Seq(Y!Entry)]
    BY <1>a, <1>d
  <2>3. newMounts' \in [Url -> Seq(Y!Entry)] /\ counter' \in 0 .. Y!Never
    BY <1>a, <1>b
  <2> QED
    BY <2>1, <2>2, <2>3, AppliesFits
<1>2. EntriesFit'
  <2>1. ASSUME NEW u \in Url \ Y!Listed PROVE mounts'[u] = <<>> /\ newMounts'[u] = <<>>
    <3>1. mounts[u] = <<>> /\ newMounts[u] = <<>>
      BY DEF DirectoryInv, EntriesFit
    <3> QED
      BY <1>a, <1>d, <3>1
  <2>2. ASSUME NEW u \in Url, NEW i \in DOMAIN mounts'[u], mounts'[u][i].remove
        PROVE  mounts'[u][i].release
    BY <1>d, <2>2 DEF DirectoryInv, EntriesFit
  <2> QED
    BY <1>h, <2>1, <2>2 DEF EntriesFit
<1>3. Flagged'
  <2> SUFFICES ASSUME ~update', ~down, NEW u \in Y!Listed
               PROVE  newMounts'[u] = <<>> /\ \A i \in DOMAIN mounts'[u] : ~mounts'[u][i].remove
    <3>1. ~update' => ~update
      BY <1>a
    <3> QED
      BY <1>h, <3>1 DEF DirectoryInv, Flagged, Applies
  <2>1. newMounts[u] = <<>> /\ \A i \in DOMAIN mounts[u] : ~mounts[u][i].remove
    BY <1>a DEF DirectoryInv, Flagged
  <2> QED
    BY <1>a, <1>d, <1>h, <2>1
<1>4. Timed'
  <2> SUFFICES ASSUME NEW i \in DOMAIN active, NEW j \in DOMAIN mounts'[active[i]], Visited(i, j)
               PROVE  \/ mounts'[active[i]][j].release
                      \/ counter <= mounts'[active[i]][j].next
    BY <1>a DEF Timed, Visited, Applies
  <2>1. active[i] \in Url
    BY <1>b
  <2>2. mounts[active[i]][j].release \/ counter <= mounts[active[i]][j].next
    BY <1>d, <2>1 DEF DirectoryInv, Timed
  <2>3. \/ mounts'[active[i]][j].release
        \/ mounts'[active[i]][j] = mounts[active[i]][j]
    BY <1>c, <1>d, <2>1
  <2> QED
    BY <2>2, <2>3
<1>5. Reflected'
  <2> SUFFICES ASSUME running, NEW k \in Station
               PROVE  /\ public[k] = 0 /\ k \notin missed' =>
                            ToDo("remove", k)' \/ \A u \in Y!Listed : ~Remains(u, k)'
                      /\ public[k] = 1 /\ k \notin swallowed =>
                            ToDo("add", k)' \/ \A u \in Y!Listed : Remains(u, k)'
    BY <1>a, <1>h DEF Reflected, Applies
  <2>1. /\ \A o : ToDo(o, k) => ToDo(o, k)' \/ ("remove" = o /\ m = k)
        /\ \A o, by : Overruled(o, by, k) /\ "remove" = o /\ m = k => ToDo(by, k)'
    <3>1. list \in Seq(Change) /\ changes \in Seq(Change)
      BY DEF DirectoryInv, Y!TypeOK, Change
    <3> QED
      BY <3>1, HeadDone DEF Applies
  <2>2. CASE k = m
    <3>1. public[k] = 1 => ToDo("add", k)'
      BY <2>1, <2>2 DEF DirectoryInv, Asked
    <3>2. ASSUME k \notin missed', NEW u \in Y!Listed PROVE ~Remains(u, k)'
      <4>1. \A i \in DOMAIN newMounts[u] : newMounts[u][i].mount # m
        BY <1>a, <2>2, <3>2 DEF Y!Has, Y!Range
      <4>2. \A i \in DOMAIN mounts'[u] : ~Y!Releasable(mounts'[u][i], m)
        BY <1>c, <1>d, <1>h DEF Y!Releasable
      <4> QED
        BY <1>a, <2>2, <4>1, <4>2 DEF Remains, Y!Releasable
    <3> QED
      BY <3>1, <3>2
  <2>3. CASE k # m
    <3>1. ASSUME NEW u \in Y!Listed PROVE Remains(u, k)' <=> Remains(u, k)
      <4>1. \A i \in DOMAIN mounts[u] :
               Y!Releasable(mounts'[u][i], k) <=> Y!Releasable(mounts[u][i], k)
        BY <1>c, <1>d, <1>h, <2>3 DEF Y!Releasable
      <4> QED
        BY <1>a, <1>d, <1>h, <4>1 DEF Remains
    <3>2. missed' \in {missed, missed \cup {m}}
      BY <1>a
    <3> QED
      BY <2>1, <2>3, <3>1, <3>2 DEF DirectoryInv, Reflected
  <2> QED
    BY <2>2, <2>3
<1> QED
  BY <1>1, <1>2, <1>3, <1>4, <1>5 DEF DirectoryInv

\* yp_touch_callback: the counter is lowered with the time of the entry.
LEMMA TouchCallbackTrue ==
  ASSUME Y!Settings, DirectoryInv, Applies, NEW m \in Station, Head(list).op = "touch",
         Head(list).mount = m, Y!TouchCallback(m)
  PROVE  DirectoryInv'
<1> DEFINE moves(u, i) == /\ u \in Y!Listed /\ i \in Y!Touched(mounts[u], m)
                          /\ mounts[u][i].process = "touch" /\ mounts[u][i].next > 0
           After(e, d) == [e EXCEPT !.next = d]
<1>b. /\ active \in Seq(Url) /\ mounts \in [Url -> Seq(Y!Entry)]
      /\ newMounts \in [Url -> Seq(Y!Entry)] /\ update \in BOOLEAN
      /\ counter \in 0 .. Y!Never /\ MaxDelay \in Nat
      /\ missed \in SUBSET Station /\ swallowed \in SUBSET Station
  BY DEF DirectoryInv, Y!TypeOK, Y!Settings
<1>a. /\ \E d \in 0 .. MaxDelay :
            \/ /\ mounts' = [u \in Url |-> [i \in DOMAIN mounts[u] |->
                      IF moves(u, i) THEN After(mounts[u][i], d) ELSE mounts[u][i]]]
               /\ counter' = IF mounts' = mounts THEN counter ELSE Y!Earlier(counter, d)
            \/ UNCHANGED <<mounts, counter>>
      /\ UNCHANGED <<newMounts, update, missed, swallowed>>
  BY Zenon DEF Y!TouchCallback
<1> HIDE DEF moves
<1>c. PICK d \in 0 .. MaxDelay :
            \/ /\ mounts' = [u \in Url |-> [i \in DOMAIN mounts[u] |->
                      IF moves(u, i) THEN After(mounts[u][i], d) ELSE mounts[u][i]]]
               /\ counter' = IF mounts' = mounts THEN counter ELSE Y!Earlier(counter, d)
            \/ UNCHANGED <<mounts, counter>>
  BY <1>a
<1>d. ASSUME NEW e \in Y!Entry
      PROVE  /\ After(e, d) \in Y!Entry /\ After(e, d).mount = e.mount
             /\ After(e, d).release = e.release /\ After(e, d).remove = e.remove
             /\ After(e, d).next = d
  BY <1>b DEF Y!Entry
<1>e. /\ counter' \in 0 .. Y!Never /\ counter' <= counter
      /\ mounts' = mounts \/ counter' <= d
  <2>1. counter \in Int /\ d \in Int
    BY <1>b DEF Y!Never
  <2>2. /\ Y!Earlier(counter, d) \in {counter, d} /\ Y!Earlier(counter, d) <= counter
        /\ Y!Earlier(counter, d) <= d
    BY <2>1, EarlierOf
  <2>3. \/ mounts' = mounts /\ counter' = counter
        \/ counter' = Y!Earlier(counter, d)
    BY <1>c
  <2> QED
    BY <1>b, <2>1, <2>2, <2>3 DEF Y!Never
<1>h. Y!Listed' = Y!Listed /\ \A u \in Y!Listed : u \in Url
  BY <1>b DEF Y!Listed, Y!Range, Applies
<1>f. ASSUME NEW u \in Url
      PROVE  /\ mounts'[u] \in Seq(Y!Entry) /\ DOMAIN mounts'[u] = DOMAIN mounts[u]
             /\ \A i \in DOMAIN mounts[u] :
                  /\ mounts[u][i] \in Y!Entry
                  /\ mounts'[u][i].mount = mounts[u][i].mount
                  /\ mounts'[u][i].remove = mounts[u][i].remove
                  /\ mounts'[u][i].release = mounts[u][i].release
                  /\ mounts'[u][i] = mounts[u][i] \/ mounts'[u][i].next = d
  <2>1. /\ mounts[u] \in Seq(Y!Entry) /\ Len(mounts[u]) \in Nat
        /\ DOMAIN mounts[u] = 1 .. Len(mounts[u])
        /\ \A i \in DOMAIN mounts[u] : mounts[u][i] \in Y!Entry
    BY <1>b
  <2> HIDE DEF After
  <2>2. CASE mounts' = [w \in Url |-> [i \in DOMAIN mounts[w] |->
                IF moves(w, i) THEN After(mounts[w][i], d) ELSE mounts[w][i]]]
    <3>1. /\ DOMAIN mounts'[u] = DOMAIN mounts[u]
          /\ mounts'[u] = [i \in 1 .. Len(mounts[u]) |-> mounts'[u][i]]
          /\ \A i \in DOMAIN mounts[u] : mounts'[u][i] \in {mounts[u][i], After(mounts[u][i], d)}
      BY <2>1, <2>2
    <3>2. ASSUME NEW i \in DOMAIN mounts[u]
          PROVE  /\ mounts'[u][i] \in Y!Entry
                 /\ mounts'[u][i].mount = mounts[u][i].mount
                 /\ mounts'[u][i].remove = mounts[u][i].remove
                 /\ mounts'[u][i].release = mounts[u][i].release
                 /\ mounts'[u][i] = mounts[u][i] \/ mounts'[u][i].next = d
      <4>1. mounts[u][i] \in Y!Entry
        BY <2>1
      <4>2. CASE mounts'[u][i] = mounts[u][i]
        BY <4>1, <4>2
      <4>3. CASE mounts'[u][i] = After(mounts[u][i], d)
        BY <1>d, <4>1, <4>3
      <4> QED
        BY <3>1, <4>2, <4>3
    <3>3. mounts'[u] \in Seq(Y!Entry)
      BY <2>1, <3>1, <3>2, EntrySequence
    <3> QED
      BY <2>1, <3>1, <3>2, <3>3
  <2> QED
    BY <1>c, <2>1, <2>2
<1>1. Y!TypeOK' /\ PassFits' /\ Asked'
  <2>1. update' \in BOOLEAN /\ missed' \in SUBSET Station /\ swallowed' \in SUBSET Station
    BY <1>a, <1>b
  <2>2. mounts' \in [Url -> Seq(Y!Entry)]
    <3>1. DOMAIN mounts' = Url /\ mounts' = [u \in Url |-> mounts'[u]]
      BY <1>b, <1>c
    <3> QED
      BY <1>f, <3>1
  <2>3. newMounts' \in [Url -> Seq(Y!Entry)]
    BY <1>a, <1>b
  <2> QED
    BY <1>e, <2>1, <2>2, <2>3, AppliesFits
<1>2. EntriesFit'
  <2>1. ASSUME NEW u \in Url \ Y!Listed PROVE mounts'[u] = <<>> /\ newMounts'[u] = <<>>
    <3>1. mounts[u] = <<>> /\ newMounts[u] = <<>>
      BY DEF DirectoryInv, EntriesFit
    <3> QED
      BY <1>a, <1>f, <3>1
  <2>2. ASSUME NEW u \in Url, NEW i \in DOMAIN mounts'[u], mounts'[u][i].remove
        PROVE  mounts'[u][i].release
    BY <1>f, <2>2 DEF DirectoryInv, EntriesFit
  <2> QED
    BY <1>h, <2>1, <2>2 DEF EntriesFit
<1>3. Flagged'
  <2> SUFFICES ASSUME ~update, ~down, NEW u \in Y!Listed
               PROVE  newMounts[u] = <<>> /\ \A i \in DOMAIN mounts'[u] : ~mounts'[u][i].remove
    BY <1>a, <1>h DEF DirectoryInv, Flagged, Applies
  <2>1. newMounts[u] = <<>> /\ \A i \in DOMAIN mounts[u] : ~mounts[u][i].remove
    BY DEF DirectoryInv, Flagged
  <2> QED
    BY <1>f, <1>h, <2>1
<1>4. Timed'
  <2> SUFFICES ASSUME NEW i \in DOMAIN active, NEW j \in DOMAIN mounts'[active[i]], Visited(i, j)
               PROVE  \/ mounts'[active[i]][j].release
                      \/ counter' <= mounts'[active[i]][j].next
    BY DEF Timed, Visited, Applies
  <2>1. active[i] \in Url
    BY <1>b
  <2>2. /\ j \in DOMAIN mounts[active[i]] /\ mounts[active[i]][j] \in Y!Entry
        /\ mounts'[active[i]][j].release = mounts[active[i]][j].release
        /\ \/ mounts'[active[i]][j] = mounts[active[i]][j]
           \/ mounts'[active[i]][j].next = d
    BY <1>f, <2>1
  <2>3. mounts[active[i]][j].release \/ counter <= mounts[active[i]][j].next
    BY <2>2 DEF DirectoryInv, Timed
  <2>4. mounts[active[i]][j].next \in Int /\ counter \in Int /\ counter' \in Int
    BY <1>b, <1>e, <2>2 DEF Y!Entry, Y!Never
  <2>5. CASE mounts'[active[i]][j] = mounts[active[i]][j]
    BY <1>e, <2>3, <2>4, <2>5
  <2>6. CASE mounts'[active[i]][j].next = d /\ mounts'[active[i]][j] # mounts[active[i]][j]
    BY <1>e, <2>6
  <2> QED
    BY <2>2, <2>5, <2>6
<1>5. Reflected'
  <2> SUFFICES ASSUME running, NEW k \in Station
               PROVE  /\ public[k] = 0 /\ k \notin missed =>
                            ToDo("remove", k)' \/ \A u \in Y!Listed : ~Remains(u, k)'
                      /\ public[k] = 1 /\ k \notin swallowed =>
                            ToDo("add", k)' \/ \A u \in Y!Listed : Remains(u, k)'
    BY <1>a, <1>h DEF Reflected, Applies
  <2>1. \A o : ToDo(o, k) => ToDo(o, k)' \/ "touch" = o
    <3>1. list \in Seq(Change) /\ changes \in Seq(Change)
      BY DEF DirectoryInv, Y!TypeOK, Change
    <3> QED
      BY <3>1, HeadDone DEF Applies
  <2>2. ASSUME NEW u \in Y!Listed PROVE Remains(u, k)' <=> Remains(u, k)
    <3>1. \A i \in DOMAIN mounts[u] :
             Y!Releasable(mounts'[u][i], k) <=> Y!Releasable(mounts[u][i], k)
      BY <1>f, <1>h DEF Y!Releasable
    <3> QED
      BY <1>a, <1>f, <1>h, <3>1 DEF Remains
  <2> QED
    BY <2>1, <2>2 DEF DirectoryInv, Reflected
<1> QED
  BY <1>1, <1>2, <1>3, <1>4, <1>5 DEF DirectoryInv

\* yp_pending_update: one change under the write lock.
LEMMA ApplyTrue ==
  ASSUME Y!Settings, DirectoryInv, Y!Apply
  PROVE  DirectoryInv'
<1>1. Applies
  BY DEF Y!Apply, Applies, Y!serverVars, Y!passVars
<1>2. Head(list) \in Change
  <2>1. list \in Seq(Change) /\ list # <<>>
    BY <1>1 DEF DirectoryInv, Y!TypeOK, Change, Applies
  <2> QED
    BY <2>1
<1>3. Head(list).mount \in Station
  BY <1>2 DEF Change
<1>4. CASE stop
  <2>1. UNCHANGED <<mounts, newMounts, update, counter, missed, swallowed>>
    BY <1>4 DEF Y!Apply, Y!entryVars, Y!ghosts
  <2> QED
    BY <1>1, <1>4, <2>1, StoppedTrue
<1>5. CASE ~stop
  <2>1. \/ Head(list).op = "add" /\ Y!AddCallback(Head(list).mount)
        \/ Head(list).op = "remove" /\ Y!RemoveCallback(Head(list).mount)
        \/ Head(list).op = "touch" /\ Y!TouchCallback(Head(list).mount)
    BY <1>5 DEF Y!Apply
  <2> QED
    BY <1>1, <1>3, <2>1, AddCallbackTrue, RemoveCallbackTrue, TouchCallbackTrue
<1> QED
  BY <1>4, <1>5

\* yp_initialize: the servers of the first configuration wait for an update.
LEMMA DirectoryStart ==
  ASSUME Y!Settings, Y!Init
  PROVE  DirectoryInv
<1>1. PICK urls \in SUBSET Url : /\ pending = Y!SetToSeq(urls)
                                 /\ client = IF urls = {} THEN "none" ELSE "active"
  BY DEF Y!Init
<1>2. pending \in Seq(Url)
  <2>1. IsFiniteSet(urls)
    <3>1. IsFiniteSet(Url)
      BY DEF Y!Settings, Y!IsFiniteSet, IsFiniteSet
    <3> QED
      BY <3>1, FS_Subset
  <2>2. Y!SetToSeq(urls) \in Seq(urls)
    BY <2>1, InSomeOrder
  <2> QED
    BY <1>1, <2>2
<1>3. /\ PassLimit \in Nat /\ MaxDelay \in Nat /\ MaxAsks \in Nat /\ MaxConfigs \in Nat
  BY DEF Y!Settings
<1>4. /\ active = <<>> /\ dropped = {} /\ update = TRUE /\ counter = 0 /\ twice = FALSE
      /\ mounts = [u \in Url |-> <<>>] /\ newMounts = [u \in Url |-> <<>>]
      /\ stop = FALSE /\ pass = "none" /\ at = <<1, 1>> /\ failed = FALSE /\ left = PassLimit
      /\ changes = <<>> /\ list = <<>> /\ changer = "none"
      /\ public = [m \in Station |-> 0] /\ running = TRUE /\ down = FALSE
      /\ missed = {} /\ swallowed = {} /\ asks = 0 /\ configs = 0
  BY DEF Y!Init
<1>5. Y!TypeOK
  <2>1. update \in BOOLEAN /\ twice \in BOOLEAN /\ stop \in BOOLEAN /\ failed \in BOOLEAN
    BY <1>4
  <2>2. running \in BOOLEAN /\ down \in BOOLEAN
    BY <1>4
  <2>3. at \in Nat \X Nat
    BY <1>4
  <2>4. client \in {"none", "active", "inactive"}
    BY <1>1
  <2>5. public \in [Station -> {-1, 0, 1}]
    BY <1>4
  <2>6. /\ active \in Seq(Url) /\ dropped \subseteq Url /\ counter \in 0 .. Y!Never
        /\ mounts \in [Url -> Seq(Y!Entry)] /\ newMounts \in [Url -> Seq(Y!Entry)]
        /\ pass \in {"none", "start", "servers", "update", "end"}
        /\ left \in 0 .. PassLimit /\ changer \in {"none", "sleep", "apply"}
        /\ changes \in Seq(Change) /\ list \in Seq(Change)
        /\ missed \subseteq Station /\ swallowed \subseteq Station
        /\ asks \in 0 .. MaxAsks /\ configs \in 0 .. MaxConfigs
    BY <1>3, <1>4 DEF Y!Never
  <2> QED
    BY <1>2, <2>1, <2>2, <2>3, <2>4, <2>5, <2>6 DEF Y!TypeOK, Change
<1>6. PassFits
  BY <1>1, <1>4 DEF PassFits
<1>7. EntriesFit /\ Flagged /\ Timed
  BY <1>4 DEF EntriesFit, Flagged, Timed
<1>8. Asked
  <2>1. DOMAIN Awaited = {}
    BY <1>4 DEF Awaited
  <2> QED
    BY <2>1 DEF Asked, Overruled
<1>9. Reflected
  <2>1. Y!Listed = {}
    BY <1>4 DEF Y!Listed, Y!Range
  <2> QED
    BY <2>1 DEF Reflected
<1> QED
  BY <1>5, <1>6, <1>7, <1>8, <1>9 DEF DirectoryInv

\* A step that changes nothing.
LEMMA DirectoryStays ==
  ASSUME DirectoryInv, UNCHANGED Y!vars
  PROVE  DirectoryInv'
<1> USE DEF Y!vars
<1>1. Y!TypeOK' /\ PassFits'
  BY DEF DirectoryInv, Y!TypeOK, PassFits
<1>2. EntriesFit' /\ Flagged' /\ Timed'
  BY DEF DirectoryInv, EntriesFit, Flagged, Timed, Visited, Y!Listed
<1>3. Asked'
  BY AskedStays DEF DirectoryInv
<1>4. Reflected'
  BY EntriesStay DEF DirectoryInv
<1> QED
  BY <1>1, <1>2, <1>3, <1>4 DEF DirectoryInv

\* Every step of the directory client.
LEMMA DirectoryStep ==
  ASSUME Y!Settings, DirectoryInv, Y!Next
  PROVE  DirectoryInv'
<1>1. \/ \E urls \in SUBSET Url : Y!RecheckConfig(urls)
      \/ Y!DirectoryStarts \/ Y!DirectoryLeaves
      \/ Y!PassBegins \/ Y!Visit \/ Y!NextServer \/ Y!PassEnds \/ Y!Update \/ Y!ThreadEnds
      \/ \E m \in Station : \/ Y!SettingsPublic(m) \/ Y!SettingsPrivate(m)
                            \/ Y!RelayFails(m) \/ Y!NewTitle(m)
      \/ Y!Detach \/ Y!Apply \/ Y!ChangesDone
      \/ Y!Tick \/ Y!Halt \/ Y!Stop \/ Y!Shutdown
  BY DEF Y!Next
<1>2. ASSUME NEW m \in Station, \/ Y!SettingsPublic(m) \/ Y!SettingsPrivate(m)
                                \/ Y!RelayFails(m) \/ Y!NewTitle(m)
      PROVE  DirectoryInv'
  <2>1. \/ Y!Ask("add", m, 1) \/ Y!Ask("remove", m, 0) \/ Y!Ask("remove", m, -1)
        \/ public[m] = 1 /\ Y!Ask("touch", m, 1)
    BY <1>2 DEF Y!SettingsPublic, Y!SettingsPrivate, Y!RelayFails, Y!NewTitle
  <2> QED
    BY <2>1, AskTrue
<1> QED
  BY <1>1, <1>2, RecheckTrue, DirectoryStartsTrue, DirectoryLeavesTrue, PassBeginsTrue,
     VisitTrue, NextServerTrue, PassEndsTrue, UpdateTrue, ThreadEndsTrue, DetachTrue,
     ApplyTrue, ChangesDoneTrue, TickTrue, HaltTrue, StopTrue, ShutdownTrue

\* What the invariant says between two passes and with no changes left.
LEMMA DirectoryConsequence == DirectoryInv => Y!DirectoryTrue
<1> SUFFICES ASSUME DirectoryInv PROVE Y!DirectoryTrue
  OBVIOUS
<1>0. /\ active \in Seq(Url) /\ mounts \in [Url -> Seq(Y!Entry)]
      /\ newMounts \in [Url -> Seq(Y!Entry)]
  BY DEF DirectoryInv, Y!TypeOK
<1>1. Y!TypeOK
  BY DEF DirectoryInv
<1>2. Y!UpdateFlagged
  BY DEF DirectoryInv, Flagged, Y!UpdateFlagged, Y!Range
<1>3. Y!WakesInTime
  <2> SUFFICES ASSUME pass = "none", NEW u \in Y!Listed, NEW j \in DOMAIN mounts[u]
               PROVE  mounts[u][j].release \/ counter <= mounts[u][j].next
    BY DEF Y!WakesInTime
  <2>1. PICK i \in DOMAIN active : u = active[i]
    BY DEF Y!Listed, Y!Range
  <2> QED
    BY <2>1 DEF DirectoryInv, Timed, Visited
<1>4. ASSUME Y!Settled, NEW m, NEW o PROVE ~ToDo(o, m)
  <2>1. DOMAIN Awaited = {}
    BY <1>4 DEF Y!Settled, Awaited
  <2> QED
    BY <2>1 DEF ToDo
<1>5. Y!PrivateReleased
  <2> SUFFICES ASSUME Y!Settled, NEW u \in Y!Listed, NEW e \in Y!Entries(u),
                      public[e.mount] = 0, e.mount \notin missed
               PROVE  e.release \/ e.remove
    BY DEF Y!PrivateReleased
  <2>1. \/ \E i \in DOMAIN mounts[u] : e = mounts[u][i]
        \/ \E i \in DOMAIN newMounts[u] : e = newMounts[u][i]
    BY DEF Y!Entries, Y!Range
  <2>2. u \in Url
    BY <1>0 DEF Y!Listed, Y!Range
  <2>3. e \in Y!Entry
    BY <1>0, <2>1, <2>2
  <2>4. e.mount \in Station
    BY <2>3 DEF Y!Entry
  <2>5. ~Remains(u, e.mount)
    BY <1>4, <2>4 DEF DirectoryInv, Reflected, Y!Settled
  <2> QED
    BY <2>1, <2>5 DEF Remains, Y!Releasable
<1>6. Y!PublicKept
  <2> SUFFICES ASSUME Y!Settled, NEW u \in Y!Listed, NEW m \in Station, public[m] = 1,
                      m \notin swallowed
               PROVE  \E e \in Y!Entries(u) : Y!Releasable(e, m)
    BY DEF Y!PublicKept
  <2>1. Remains(u, m)
    BY <1>4 DEF DirectoryInv, Reflected, Y!Settled
  <2> QED
    BY <2>1 DEF Remains, Y!Entries, Y!Range
<1>7. Y!ShutdownQuiet
  BY DEF DirectoryInv, PassFits, Y!ShutdownQuiet
<1> QED
  BY <1>1, <1>2, <1>3, <1>5, <1>6, <1>7 DEF Y!DirectoryTrue

\* Whatever the servers, the mounts, the delays, the length of a pass and the
\* changes (yp.c): no update is forgotten and no time slept through, the mounts
\* that are public are listed and no others once the changes are applied, but
\* for the exceptions that DirectoryTrue names, and the client is not freed
\* while its thread runs.
THEOREM DirectoryStaysTrue ==
  ASSUME Y!Settings
  PROVE  Y!Spec => []Y!DirectoryTrue
<1>1. Y!Init => DirectoryInv
  BY DirectoryStart
<1>2. DirectoryInv /\ [Y!Next]_Y!vars => DirectoryInv'
  BY DirectoryStep, DirectoryStays
<1>3. DirectoryInv => Y!DirectoryTrue
  BY DirectoryConsequence
<1> QED
  BY <1>1, <1>2, <1>3, PTL DEF Y!Spec
=============================================================================
