---------------------------- MODULE ServicesProofs ----------------------------
(***************************************************************************)
(* What the server does beside serving is in order in every reachable      *)
(* state of MCServices, whatever the constants: proofs of RelaysAccounted, *)
(* of UsersKept and of LogKept, each with its inductive invariant.         *)
(*                                                                         *)
(* Relays.  Details are replaced behind the back of the client that uses   *)
(* them: the new ones hang off the old until the client looks.  What keeps *)
(* that sound is that only details with a source are replaced so, and that *)
(* the new ones get their source from the old; so a chain has one link,    *)
(* and the details at its end are those of no client.  Details that are to *)
(* be released have no link, or what is in the tree would lose its client. *)
(*                                                                         *)
(* The password file.  Every time an authenticator notes is one the file   *)
(* had; while one thread at most reloads it, the tree it has or is about   *)
(* to be given is that of the time it notes.  The one deletion there is    *)
(* leaves the file whole until the copy is.                                *)
(*                                                                         *)
(* The logs.  The list is the last of the lines that were logged, so what  *)
(* is purged is told by its length; the run there is has come to the line  *)
(* after the last written, and when no line is noted as written nothing    *)
(* was purged, but for a log that is being closed with an empty list.      *)
(***************************************************************************)
EXTENDS MCServices, Sequences, FiniteSetTheorems, WellFoundedInduction, TLAPS

(***************************************************************************)
(* The inductive invariant                                                 *)
(***************************************************************************)
Structs == [st : {"live", "free"}, run : BOOLEAN, cleanup : BOOLEAN,
            listed : BOOLEAN, master : BOOLEAN, new : Details \cup {Nil},
            updated : 0 .. MaxClock, src : BOOLEAN,
            host : Host \cup {Nil}, skip : SUBSET Host]

Checks == 0 .. Cardinality(RListener)

Sources == [owner : RClient \cup {Nil}, run : BOOLEAN, pause : BOOLEAN,
            term : BOOLEAN, sync : BOOLEAN, demand : BOOLEAN,
            fallback : BOOLEAN, tc : Checks]

Heard == [st : {"off", "on", "paused", "wait", "moving"}, pos : BOOLEAN]

Places == {"none", "init", "startup", "thread", "client", "release"}

(* TypeOK but for the two counters, whose range follows from Counted *)
Types ==
    /\ ops \in [RClient -> Places]
    /\ det \in [RClient -> Details \cup {Nil}]
    /\ polled \in [RClient -> BOOLEAN]
    /\ rs \in [Details -> Structs]
    /\ tree \subseteq Details
    /\ barrier \in [{"xml", "master"} -> 0 .. MaxClock + 1]
    /\ clock \in 0 .. MaxClock /\ updates \in 0 .. MaxUpdates
    /\ src \in Sources
    /\ lst \in [RListener -> Heard]
    /\ contime \subseteq RClient
    /\ left \in [RClient -> SUBSET Host]
    /\ up \in BOOLEAN /\ ondemand \in BOOLEAN

(* each client has details of its own while it exists *)
Owned ==
    /\ \A c \in RClient : ops[c] = "none" <=> det[c] = Nil
    /\ \A c \in RClient : det[c] # Nil => rs[det[c]].st = "live"
    /\ \A a, b \in RClient : det[a] # Nil /\ det[a] = det[b] => a = b

(* details that replace others: these are not listed and go on, the new    *)
(* ones have no source, no client, no other predecessor and no successor   *)
Linked ==
    \A e \in Details : rs[e].new # Nil =>
        /\ rs[e].st = "live" /\ ~rs[e].listed /\ ~rs[e].cleanup
        /\ rs[rs[e].new].st = "live" /\ ~rs[rs[e].new].src /\ rs[rs[e].new].new = Nil
        /\ \A c \in RClient : det[c] # rs[e].new
        /\ \A f \in Details : rs[f].new = rs[e].new => f = e

InTree ==
    /\ \A d \in tree : rs[d].st = "live" /\ rs[d].listed
    /\ \A d, e \in tree : d = e
    /\ ListedServed

(* a client that is to be released is done with the tree *)
Leaving ==
    \A c \in RClient : ops[c] = "release" => rs[det[c]].cleanup /\ ~rs[det[c]].listed

(* the source is that of the client whose details have it *)
Sourced ==
    /\ \A c \in RClient : det[c] # Nil /\ rs[det[c]].src => src.owner = c
    /\ \A c \in RClient : ops[c] \in {"startup", "thread", "client", "release"} => rs[det[c]].src

Threads == {c \in RClient : ops[c] = "thread"}

Counted ==
    /\ \A c \in contime : ops[c] \in {"thread", "client"}
    /\ sources = Cardinality(contime)
    /\ connecting = Cardinality(Threads)

Pointers == Owned /\ Linked /\ InTree /\ Leaving
IInv == Types /\ Pointers /\ Sourced /\ Counted

-----------------------------------------------------------------------------
(***************************************************************************)
(* What the operators of the module return                                 *)
(***************************************************************************)

\* A set of natural numbers that is not empty has a least element, the host
\* that open_relay tries next.
LEMMA NextHost ==
  ASSUME NEW S \in SUBSET Nat, S # {}
  PROVE  (CHOOSE x \in S : \A y \in S : x <= y) \in S
<1>1. PICK m \in S : \A k \in S : <<k, m>> \notin OpToRel(<, Nat)
  BY NatLessThanWellFounded, WFMin
<1>2. ASSUME NEW k \in S PROVE m <= k
  <2>1. k \in Nat /\ m \in Nat
    OBVIOUS
  <2>2. ~(k < m)
    BY <1>1, <2>1 DEF OpToRel
  <2> QED
    BY <2>1, <2>2
<1> QED
  BY <1>2

\* New and freed details, and details that leave the tree, are details.
LEMMA NewType ==
  ASSUME NEW t \in 0 .. MaxClock, NEW m \in BOOLEAN
  PROVE  NewDetails(m, t) \in Structs
BY DEF NewDetails, Structs

LEMMA FreeType ==
  ASSUME Settings
  PROVE  FreeDetails \in Structs
<1>1. NewDetails(FALSE, 0) \in Structs
  BY DEF NewDetails, Structs, Settings
<1> QED
  BY <1>1 DEF FreeDetails, Structs

LEMMA DetachType ==
  ASSUME NEW r \in Structs, NEW b \in BOOLEAN
  PROVE  Detach(r, b) \in Structs
BY DEF Detach, Structs

\* source->listeners and termination_count stay in their range.
LEMMA CountTypes ==
  ASSUME Settings, Types
  PROVE  Count \in Checks /\ CheckedOff \in Checks /\ 0 \in Checks
<1>1. Cardinality(RListener) \in Nat
  BY FS_CardinalityType DEF Settings
<1>2. IsFiniteSet(Listeners) /\ Cardinality(Listeners) <= Cardinality(RListener)
  BY FS_Subset DEF Settings, Listeners
<1>3. Cardinality(Listeners) \in Nat
  BY <1>2, FS_CardinalityType
<1>4. src.tc \in Checks
  BY DEF Types, Sources
<1> QED
  BY <1>1, <1>2, <1>3, <1>4 DEF Checks, Count, CheckedOff

\* The state before the first configuration is read.
LEMMA Start ==
  ASSUME Settings, Init
  PROVE  IInv
<1>1. FreeDetails \in Structs
  BY FreeType
<1>2. NoSource \in Sources
  BY CountTypes, FS_CardinalityType DEF NoSource, Sources, Checks, Settings
<1>3. Types
  BY <1>1, <1>2 DEF Init, Types, Settings, Places, Heard
<1>4. \A e \in Details : rs[e].new = Nil
  BY DEF Init, FreeDetails, NewDetails
<1>5. Pointers
  BY <1>4 DEF Init, Pointers, Owned, Linked, InTree, ListedServed, Leaving
<1>6. Sourced
  BY DEF Init, Sourced
<1>7. Threads = {}
  BY DEF Init, Threads
<1>8. Counted
  BY <1>7, FS_EmptySet DEF Init, Counted
<1> QED
  BY <1>3, <1>5, <1>6, <1>8 DEF IInv

-----------------------------------------------------------------------------
(***************************************************************************)
(* The counters                                                            *)
(***************************************************************************)

\* Steps in which no connection and no thread comes or goes.
LEMMA CountsFramed ==
  ASSUME Counted, contime' = contime, sources' = sources, connecting' = connecting,
         \A c \in RClient : ops'[c] = "thread" <=> ops[c] = "thread",
         \A c \in contime : ops'[c] \in {"thread", "client"}
  PROVE  Counted'
<1>1. Threads' = Threads
  BY DEF Threads
<1> QED
  BY <1>1 DEF Counted

\* A client that becomes a relay thread, or stops being one.
LEMMA ThreadsCounted ==
  ASSUME Settings, Counted, Types, NEW c \in RClient, NEW d \in Int,
         contime' = contime, sources' = sources, connecting' = connecting + d,
         \A b \in RClient \ {c} : ops'[b] = ops[b],
         c \in contime => ops'[c] \in {"thread", "client"},
         \/ d = 1 /\ ops[c] # "thread" /\ ops'[c] = "thread"
         \/ d = -1 /\ ops[c] = "thread" /\ ops'[c] # "thread"
  PROVE  Counted'
<1>1. IsFiniteSet(Threads) /\ Cardinality(Threads) \in Nat
  BY FS_Subset, FS_CardinalityType DEF Threads, Settings
<1>2. CASE d = 1
  <2>1. Threads' = Threads \cup {c} /\ c \notin Threads
    BY <1>2 DEF Threads
  <2>2. Cardinality(Threads') = Cardinality(Threads) + 1
    BY <2>1, <1>1, FS_AddElement
  <2> QED
    BY <2>2, <1>2, <1>1 DEF Counted, Types
<1>3. CASE d = -1
  <2>1. Threads' = Threads \ {c} /\ c \in Threads
    BY <1>3 DEF Threads
  <2>2. Cardinality(Threads') = Cardinality(Threads) - 1
    BY <2>1, <1>1, FS_RemoveElement
  <2> QED
    BY <2>2, <1>3, <1>1 DEF Counted, Types
<1> QED
  BY <1>2, <1>3

\* A client that is disconnected, and goes on or is released.
LEMMA Disconnected ==
  ASSUME Settings, Counted, Types, NEW c \in RClient, Disconnect(c),
         ops[c] = "client", ops'[c] # "thread", connecting' = connecting,
         \A b \in RClient \ {c} : ops'[b] = ops[b]
  PROVE  Counted'
<1>1. Threads' = Threads
  BY DEF Threads
<1>2. IsFiniteSet(contime) /\ Cardinality(contime) \in Nat
  BY FS_Subset, FS_CardinalityType DEF Types, Settings
<1>3. sources' = Cardinality(contime')
  <2>1. CASE c \in contime
    BY <2>1, <1>2, FS_RemoveElement DEF Disconnect, Counted
  <2>2. CASE c \notin contime
    <3>1. contime' = contime
      BY <2>2 DEF Disconnect
    <3> QED
      BY <2>2, <3>1 DEF Disconnect, Counted
  <2> QED
    BY <2>1, <2>2
<1>4. \A b \in contime' : ops'[b] \in {"thread", "client"}
  BY DEF Disconnect, Counted, Types
<1> QED
  BY <1>1, <1>3, <1>4 DEF Counted

-----------------------------------------------------------------------------
(***************************************************************************)
(* Who points to what                                                      *)
(***************************************************************************)

\* Steps in which no details change hands; a client's own may get the source.
LEMMA PointersFramed ==
  ASSUME Types, Pointers, det' = det, tree' = tree,
         \A c \in RClient : /\ ops'[c] = "none" <=> ops[c] = "none"
                            /\ ops'[c] = "release" => ops[c] = "release",
         \A e \in Details : /\ rs'[e].st = rs[e].st /\ rs'[e].listed = rs[e].listed
                            /\ rs'[e].new = rs[e].new /\ rs'[e].cleanup = rs[e].cleanup
                            /\ rs'[e].src = rs[e].src \/ \E c \in RClient : det[c] = e
  PROVE  Pointers'
<1>1. \A c \in RClient : det[c] # Nil => det[c] \in Details
  BY DEF Types
<1>2. \A e \in Details : rs[e].new # Nil => rs[e].new \in Details
  BY DEF Types, Structs
<1>3. Owned'
  BY <1>1 DEF Pointers, Owned
<1>4. Linked'
  BY <1>2 DEF Pointers, Linked
<1>5. InTree'
  BY <1>1 DEF Pointers, InTree, ListedServed, Types
<1>6. Leaving'
  BY <1>1, <1>3 DEF Pointers, Owned, Leaving
<1> QED
  BY <1>3, <1>4, <1>5, <1>6 DEF Pointers

\* Steps in which the source stays with the client that has it.
LEMMA SourceFramed ==
  ASSUME Types, Owned, Sourced, det' = det, src'.owner = src.owner,
         \A c \in RClient : ops'[c] \in {"startup", "thread", "client", "release"} =>
                               ops[c] \in {"startup", "thread", "client", "release"},
         \A e \in Details : rs'[e].src = rs[e].src
  PROVE  Sourced'
<1>1. \A c \in RClient : det[c] # Nil => det[c] \in Details
  BY DEF Types
<1>2. \A c \in RClient : ops[c] \in {"startup", "thread", "client", "release"} => det[c] # Nil
  BY DEF Owned
<1> QED
  BY <1>1, <1>2 DEF Sourced

-----------------------------------------------------------------------------
(***************************************************************************)
(* Types                                                                   *)
(***************************************************************************)

\* A client that exists has details.
LEMMA HasDetails ==
  ASSUME Types, Pointers, NEW c \in RClient, ops[c] # "none"
  PROVE  det[c] \in Details /\ rs[det[c]] \in Structs /\ rs[det[c]].st = "live"
BY DEF Types, Pointers, Owned

\* relay_installed
LEMMA InstallTypes ==
  ASSUME Settings, Types, NEW c \in RClient, NEW d \in Details,
         NEW master \in BOOLEAN, NEW t \in 0 .. MaxClock,
         NEW base \in [Details -> Structs], Install(base, c, d, master, t)
  PROVE  /\ rs' \in [Details -> Structs] /\ src' \in Sources /\ tree' \subseteq Details
         /\ ops' \in [RClient -> Places] /\ det' \in [RClient -> Details \cup {Nil}]
<1>1. CanReserve \in BOOLEAN
  BY DEF CanReserve
<1>2. [NewDetails(master, t) EXCEPT !.src = CanReserve] \in Structs
  BY <1>1, NewType DEF Structs
<1>3. rs' \in [Details -> Structs]
  BY <1>2 DEF Install
<1>4. src' \in Sources
  BY DEF Install, Types, Sources
<1> QED
  BY <1>3, <1>4 DEF Install, Types, Places

\* The updates of the tree.
LEMMA UpdateTypes ==
  ASSUME Settings, Types, NEW t \in 0 .. MaxClock,
         \/ UpdateRelays(t) \/ UpdateWithout(t)
         \/ \E listed, ok \in BOOLEAN : StreamList(t, listed, ok)
  PROVE  Types'
<1>1. /\ clock' \in 0 .. MaxClock /\ updates' \in 0 .. MaxUpdates
      /\ barrier' \in [{"xml", "master"} -> 0 .. MaxClock + 1]
      /\ UNCHANGED <<polled, lst, contime, left, up, ondemand>>
  <2>1. t \in 0 .. MaxClock + 1
    BY DEF Settings
  <2>2. \A b \in {"xml", "master"} :
           [barrier EXCEPT ![b] = t] \in [{"xml", "master"} -> 0 .. MaxClock + 1]
    BY <2>1 DEF Types
  <2>3. /\ \/ barrier' = barrier
           \/ \E b \in {"xml", "master"} : barrier' = [barrier EXCEPT ![b] = t]
        /\ clock' = t /\ updates' = updates + 1 /\ updates < MaxUpdates
        /\ UNCHANGED <<polled, lst, contime, left, up, ondemand>>
    BY DEF UpdateRelays, UpdateWithout, StreamList
  <2>4. barrier' \in [{"xml", "master"} -> 0 .. MaxClock + 1]
    BY <2>2, <2>3 DEF Types
  <2>5. updates' \in 0 .. MaxUpdates
    BY <2>3 DEF Types, Settings
  <2> QED
    BY <2>3, <2>4, <2>5
<1>2. [e \in Details |-> IF e \in tree THEN Detach(rs[e], FALSE) ELSE rs[e]]
        \in [Details -> Structs]
  <2>1. \A e \in Details : Detach(rs[e], FALSE) \in Structs
    BY DetachType DEF Types
  <2> QED
    BY <2>1 DEF Types
<1>3. /\ rs' \in [Details -> Structs] /\ src' \in Sources /\ tree' \subseteq Details
      /\ ops' \in [RClient -> Places] /\ det' \in [RClient -> Details \cup {Nil}]
  <2>1. CASE UpdateRelays(t)
    <3>1. PICK d \in Details :
            \/ /\ rs' = [e \in Details |->
                            CASE e = d -> NewDetails(FALSE, t)
                              [] e \in tree -> [Detach(rs[e], FALSE) EXCEPT !.new = d]
                              [] OTHER -> rs[e]]
               /\ tree' = {d}
               /\ UNCHANGED <<ops, det, src>>
            \/ \E c \in RClient :
                  Install([e \in Details |-> IF e \in tree THEN Detach(rs[e], FALSE) ELSE rs[e]],
                          c, d, FALSE, t)
      BY <2>1 DEF UpdateRelays, Unused, UnusedClients, AnyOf
    <3>2. CASE /\ rs' = [e \in Details |->
                            CASE e = d -> NewDetails(FALSE, t)
                              [] e \in tree -> [Detach(rs[e], FALSE) EXCEPT !.new = d]
                              [] OTHER -> rs[e]]
               /\ tree' = {d}
               /\ UNCHANGED <<ops, det, src>>
      <4>1. NewDetails(FALSE, t) \in Structs
        BY NewType
      <4>2. \A e \in Details : Detach(rs[e], FALSE) \in Structs
        BY DetachType DEF Types
      <4>3. \A e \in Details : [Detach(rs[e], FALSE) EXCEPT !.new = d] \in Structs
        BY <4>2 DEF Structs
      <4> QED
        BY <3>2, <4>1, <4>3 DEF Types
    <3>3. CASE \E c \in RClient :
                  Install([e \in Details |-> IF e \in tree THEN Detach(rs[e], FALSE) ELSE rs[e]],
                          c, d, FALSE, t)
      BY <3>3, <1>2, InstallTypes
    <3> QED
      BY <3>1, <3>2, <3>3
  <2>2. CASE UpdateWithout(t)
    BY <2>2 DEF UpdateWithout, Types
  <2>3. CASE \E listed, ok \in BOOLEAN : StreamList(t, listed, ok)
    <3>1. AddMasterRelay(t) \/ UNCHANGED <<ops, det, rs, tree, src>>
      BY <2>3 DEF StreamList
    <3>2. CASE AddMasterRelay(t)
      <4>1. CASE \E d \in Unused, c \in UnusedClients :
                   Install([e \in Details |-> IF e \in tree THEN Detach(rs[e], FALSE) ELSE rs[e]],
                           c, d, TRUE, t)
        <5>1. PICK d \in Details, c \in RClient :
                Install([e \in Details |-> IF e \in tree THEN Detach(rs[e], FALSE) ELSE rs[e]],
                        c, d, TRUE, t)
          BY <4>1 DEF Unused, UnusedClients, AnyOf
        <5> QED
          BY <5>1, <1>2, InstallTypes
      <4>2. CASE /\ rs' = [e \in Details |-> IF e \in tree THEN [rs[e] EXCEPT !.updated = t] ELSE rs[e]]
                 /\ UNCHANGED <<ops, det, tree, src>>
        <5>1. \A e \in Details : [rs[e] EXCEPT !.updated = t] \in Structs
          BY DEF Types, Structs
        <5> QED
          BY <4>2, <5>1 DEF Types
      <4> QED
        BY <3>2, <4>1, <4>2 DEF AddMasterRelay
    <3> QED
      BY <3>1, <3>2 DEF Types
  <2> QED
    BY <2>1, <2>2, <2>3
<1> QED
  BY <1>1, <1>3 DEF Types

\* The slave thread, and the first half of a process call.
LEMMA DetailsTypes ==
  ASSUME Settings, Types, Pointers,
         \/ \E on \in BOOLEAN : ManageRelay(on)
         \/ Halt
         \/ \E c \in RClient : GetDetails(c)
  PROVE  Types'
<1>1. CASE \E on \in BOOLEAN : ManageRelay(on)
  <2>1. PICK on \in BOOLEAN : ManageRelay(on)
    BY <1>1
  <2>2. PICK e \in tree : rs' = [rs EXCEPT ![e].run = on]
    BY <2>1 DEF ManageRelay
  <2>3. rs' \in [Details -> Structs]
    BY <2>2 DEF Types, Structs
  <2> QED
    BY <2>1, <2>3 DEF ManageRelay, updvars, Types
<1>2. CASE Halt
  <2>1. MaxClock + 1 \in 0 .. MaxClock + 1
    BY DEF Settings
  <2>2. barrier' \in [{"xml", "master"} -> 0 .. MaxClock + 1]
    BY <1>2, <2>1 DEF Halt
  <2>3. up' \in BOOLEAN
    BY <1>2 DEF Halt
  <2> QED
    BY <1>2, <2>2, <2>3 DEF Halt, Types
<1>3. CASE \E c \in RClient : GetDetails(c)
  <2>1. PICK c \in RClient : GetDetails(c)
    BY <1>3
  <2> DEFINE old == det[c]
             cur == IF rs[old].new # Nil THEN rs[old].new ELSE old
             moved == IF cur = old THEN rs[old] ELSE [rs[cur] EXCEPT !.src = rs[old].src]
             ends == moved.cleanup \/ Expired(moved)
  <2>2. old \in Details /\ rs[old] \in Structs
    BY <2>1, HasDetails DEF GetDetails
  <2>3. cur \in Details
    BY <2>2 DEF Structs
  <2>4. moved \in Structs
    <3>1. rs[cur] \in Structs
      BY <2>3 DEF Types
    <3> HIDE DEF cur
    <3> QED
      BY <3>1, <2>2 DEF Structs
  <2>5. ends \in BOOLEAN
    BY DEF Expired
  <2>6. [moved EXCEPT !.cleanup = ends, !.run = @ /\ ~ends] \in Structs
    <3> HIDE DEF moved, ends
    <3> QED
      BY <2>4, <2>5 DEF Structs
  <2>7. rs' = [e \in Details |->
                 CASE e = cur -> [moved EXCEPT !.cleanup = ends, !.run = @ /\ ~ends]
                   [] e = old /\ e # cur -> FreeDetails
                   [] OTHER -> rs[e]]
    BY <2>1 DEF GetDetails
  <2>8. /\ det' = [det EXCEPT ![c] = cur]
        /\ polled' = [polled EXCEPT ![c] = TRUE]
        /\ UNCHANGED <<ops, updvars, src, lst, contime, left, sources, connecting, up, ondemand>>
    BY <2>1 DEF GetDetails
  <2> HIDE DEF cur, moved, ends, old
  <2>9. rs' \in [Details -> Structs]
    BY <2>6, <2>7, FreeType DEF Types
  <2> QED
    BY <2>3, <2>8, <2>9 DEF Types, updvars
<1> QED
  BY <1>1, <1>2, <1>3

\* relay_initialise, relay_startup and the relay thread.
LEMMA ClientTypes ==
  ASSUME Settings, Types, Pointers, NEW c \in RClient,
         \/ InitialiseWaits(c) \/ Initialise(c)
         \/ StartupStops(c) \/ StartupWaits(c) \/ Startup(c)
         \/ ThreadBegin(c) \/ HostConnects(c) \/ ThreadFails(c)
         \/ \E skip \in BOOLEAN : HostFails(c, skip)
  PROVE  Types'
<1>1. CASE InitialiseWaits(c)
  BY <1>1 DEF InitialiseWaits, Done, updvars, Types
<1>2. CASE Initialise(c)
  <2>1. det[c] \in Details /\ rs[det[c]] \in Structs
    BY <1>2, HasDetails DEF Initialise, Now
  <2>2. rs' \in [Details -> Structs]
    <3>1. rs' = [rs EXCEPT ![det[c]].src = TRUE]
      BY <1>2 DEF Initialise
    <3>2. [rs[det[c]] EXCEPT !.src = TRUE] \in Structs
      BY <2>1 DEF Structs
    <3> QED
      BY <3>1, <3>2, <2>1 DEF Types
  <2>3. src' \in Sources
    <3>1. [NoSource EXCEPT !.owner = c] \in Sources
      BY CountTypes DEF NoSource, Sources
    <3>2. \E s \in Sources : src' = s \/ src' = [s EXCEPT !.demand = TRUE]
      BY <1>2, <3>1 DEF Initialise, Types
    <3> QED
      BY <3>2 DEF Sources
  <2>4. ops' \in [RClient -> Places]
    BY <1>2 DEF Initialise, Types, Places
  <2> QED
    BY <1>2, <2>2, <2>3, <2>4 DEF Initialise, Done, updvars, Types
<1>3. CASE StartupStops(c)
  BY <1>3 DEF StartupStops, Done, updvars, Types, Places
<1>4. CASE StartupWaits(c)
  <2>1. src' \in Sources
    BY <1>4 DEF StartupWaits, Types, Sources
  <2> QED
    BY <1>4, <2>1 DEF StartupWaits, Done, updvars, Types
<1>5. CASE Startup(c)
  <2>1. src' \in Sources
    BY <1>5 DEF Startup, Types, Sources
  <2> QED
    BY <1>5, <2>1 DEF Startup, Done, updvars, Types, Places
<1>6. CASE ThreadBegin(c)
  <2>1. src' \in Sources
    BY <1>6 DEF ThreadBegin, Types, Sources
  <2>2. left' \in [RClient -> SUBSET Host]
    BY <1>6 DEF ThreadBegin, Types
  <2> QED
    BY <1>6, <2>1, <2>2 DEF ThreadBegin, updvars, Types
<1>7. CASE HostConnects(c) \/ \E skip \in BOOLEAN : HostFails(c, skip)
  <2>1. det[c] \in Details /\ rs[det[c]] \in Structs
    BY <1>7, HasDetails DEF HostConnects, HostFails
  <2>2. PICK h : h = CHOOSE x \in left[c] : \A y \in left[c] : x <= y
    OBVIOUS
  <2>3. left[c] \in SUBSET Nat /\ left[c] # {} /\ left[c] \in SUBSET Host
    BY <1>7 DEF HostConnects, HostFails, Types, Settings
  <2>4. h \in Host
    BY <2>2, <2>3, NextHost
  <2>5. PICK s \in SUBSET Host : rs' = [rs EXCEPT ![det[c]].host = h, ![det[c]].skip = s]
    <3>1. CASE HostConnects(c)
      <4>1. rs' = [rs EXCEPT ![det[c]].host = h]
        BY <3>1, <2>2 DEF HostConnects
      <4>2. rs' = [rs EXCEPT ![det[c]].host = h, ![det[c]].skip = rs[det[c]].skip]
        BY <4>1, <2>1 DEF Types, Structs
      <4> QED
        BY <4>2, <2>1 DEF Structs
    <3>2. CASE \E skip \in BOOLEAN : HostFails(c, skip)
      <4>1. PICK skip \in BOOLEAN : HostFails(c, skip)
        BY <3>2
      <4>2. rs' = [rs EXCEPT ![det[c]].host = h,
                             ![det[c]].skip = IF skip THEN @ \cup {h} ELSE @]
        BY <4>1, <2>2 DEF HostFails
      <4>3. rs[det[c]].skip \cup {h} \in SUBSET Host /\ rs[det[c]].skip \in SUBSET Host
        BY <2>1, <2>4 DEF Structs
      <4>4. CASE skip
        BY <4>2, <4>3, <4>4, <2>1 DEF Types, Structs
      <4>5. CASE ~skip
        BY <4>2, <4>3, <4>5, <2>1 DEF Types, Structs
      <4> QED
        BY <4>4, <4>5
    <3> QED
      BY <1>7, <3>1, <3>2
  <2>6. rs' \in [Details -> Structs]
    <3>1. [rs[det[c]] EXCEPT !.host = h, !.skip = s] \in Structs
      BY <2>1, <2>4 DEF Structs
    <3>2. rs' = [rs EXCEPT ![det[c]] = [rs[det[c]] EXCEPT !.host = h, !.skip = s]]
      BY <2>5, <2>1 DEF Types, Structs
    <3> QED
      BY <3>1, <3>2 DEF Types
  <2>7. src' \in Sources /\ ops' \in [RClient -> Places] /\ left' \in [RClient -> SUBSET Host]
    <3>1. src' \in Sources
      BY <1>7 DEF HostConnects, HostFails, Types, Sources
    <3>2. ops' \in [RClient -> Places]
      BY <1>7 DEF HostConnects, HostFails, Types, Places
    <3>3. left' \in [RClient -> SUBSET Host]
      BY <1>7 DEF HostConnects, HostFails, Types
    <3> QED
      BY <3>1, <3>2, <3>3
  <2> QED
    BY <1>7, <2>6, <2>7 DEF HostConnects, HostFails, updvars, Types
<1>8. CASE ThreadFails(c)
  <2>1. det[c] \in Details /\ rs[det[c]] \in Structs
    BY <1>8, HasDetails DEF ThreadFails
  <2>2. [rs[det[c]] EXCEPT !.host = Nil] \in Structs
    BY <2>1 DEF Structs
  <2>3. rs' \in [Details -> Structs]
    BY <1>8, <2>1, <2>2 DEF ThreadFails, Types
  <2>4. src' \in Sources
    BY <1>8 DEF ThreadFails, Types, Sources
  <2> QED
    BY <1>8, <2>3, <2>4 DEF ThreadFails, updvars, Types, Places
<1> QED
  BY <1>1, <1>2, <1>3, <1>4, <1>5, <1>6, <1>7, <1>8

\* relay_read and relay_release.
LEMMA ReadTypes ==
  ASSUME Settings, Types, Pointers, NEW c \in RClient,
         \/ ReadOn(c) \/ ReadStops(c) \/ ReadWaits(c)
         \/ ReadRechecks(c) \/ ReadEnds(c) \/ ReadRestarts(c) \/ Release(c)
  PROVE  Types'
<1>1. det[c] \in Details /\ rs[det[c]] \in Structs
  BY HasDetails DEF ReadOn, ReadStops, ReadWaits, ReadRechecks, ReadEnds, ReadRestarts,
     Release, Checked, Now
<1>2. Count \in Checks /\ CheckedOff \in Checks /\ 0 \in Checks
  BY CountTypes
<1>3. Settled \in Sources
  BY DEF Settled, Types, Sources
<1>4. \A s \in SUBSET Host : [rs EXCEPT ![det[c]].skip = s] \in [Details -> Structs]
  <2>1. ASSUME NEW s \in SUBSET Host
        PROVE  [rs EXCEPT ![det[c]].skip = s] \in [Details -> Structs]
    <3>1. [rs[det[c]] EXCEPT !.skip = s] \in Structs
      BY <1>1 DEF Structs
    <3> QED
      BY <1>1, <3>1 DEF Types
  <2> QED
    BY <2>1
<1>5. CASE ReadOn(c)
  BY <1>5 DEF ReadOn, Done, updvars, Types
<1>6. CASE ReadStops(c)
  <2>1. src' \in Sources
    <3>1. PICK fb \in BOOLEAN :
            src' = [src EXCEPT !.run = FALSE, !.term = TRUE, !.sync = TRUE,
                               !.demand = FALSE, !.tc = Count, !.fallback = fb,
                               !.pause = @ /\ rs[det[c]].run]
      BY <1>6 DEF ReadStops
    <3>2. src \in Sources /\ rs[det[c]].run \in BOOLEAN
      BY <1>1 DEF Types, Structs
    <3> QED
      BY <3>1, <3>2, <1>2 DEF Sources
  <2>2. rs' \in [Details -> Structs]
    <3>1. \/ rs' = rs
          \/ \E skip \in {rs[det[c]].skip \cup (IF rs[det[c]].host = Nil THEN {} ELSE {rs[det[c]].host}), {}} :
                rs' = [rs EXCEPT ![det[c]].skip = skip]
      BY <1>6 DEF ReadStops
    <3>2. rs[det[c]].skip \cup (IF rs[det[c]].host = Nil THEN {} ELSE {rs[det[c]].host})
            \in SUBSET Host
      BY <1>1 DEF Structs
    <3>3. {} \in SUBSET Host
      OBVIOUS
    <3>4. CASE rs' = rs
      BY <3>4 DEF Types
    <3>5. CASE \E skip \in SUBSET Host : rs' = [rs EXCEPT ![det[c]].skip = skip]
      BY <3>5, <1>4
    <3> QED
      BY <3>1, <3>2, <3>3, <3>4, <3>5
  <2> QED
    BY <1>6, <2>1, <2>2 DEF ReadStops, updvars, Types
<1>7. CASE ReadWaits(c)
  <2>1. src' \in Sources
    BY <1>7 DEF ReadWaits, Types, Sources
  <2> QED
    BY <1>7, <2>1 DEF ReadWaits, Done, updvars, Types
<1>8. CASE ReadRechecks(c)
  <2>1. src' \in Sources
    BY <1>8, <1>2, <1>3 DEF ReadRechecks, Sources
  <2>2. contime' \subseteq RClient
    BY <1>8 DEF ReadRechecks, Disconnect, Types
  <2> QED
    BY <1>8, <2>1, <2>2 DEF ReadRechecks, Done, updvars, Types
<1>9. CASE ReadEnds(c)
  <2>1. Detach(rs[det[c]], TRUE) \in Structs
    BY <1>1, DetachType
  <2>2. rs' \in [Details -> Structs] /\ tree' \subseteq Details
    BY <1>9, <1>1, <2>1 DEF ReadEnds, Types
  <2>3. contime' \subseteq RClient
    BY <1>9 DEF ReadEnds, Disconnect, Types
  <2>4. ops' \in [RClient -> Places]
    BY <1>9 DEF ReadEnds, Types, Places
  <2> QED
    BY <1>9, <1>3, <2>2, <2>3, <2>4 DEF ReadEnds, Done, updvars, Types
<1>10. CASE ReadRestarts(c)
  <2>1. rs[det[c]].skip \in SUBSET Host
    BY <1>1 DEF Structs
  <2>2. rs' \in [Details -> Structs]
    <3>1. \E s \in {rs[det[c]].skip, {}} : rs' = [rs EXCEPT ![det[c]].skip = s]
      BY <1>10, <1>1 DEF ReadRestarts, Types, Structs
    <3> QED
      BY <3>1, <2>1, <1>4
  <2>3. contime' \subseteq RClient
    BY <1>10 DEF ReadRestarts, Disconnect, Types
  <2>4. ops' \in [RClient -> Places]
    BY <1>10 DEF ReadRestarts, Types, Places
  <2> QED
    BY <1>10, <1>3, <2>2, <2>3, <2>4 DEF ReadRestarts, Done, updvars, Types
<1>11. CASE Release(c)
  <2>1. NoSource \in Sources
    BY <1>2 DEF NoSource, Sources
  <2>2. src' \in Sources
    BY <1>11, <2>1 DEF Release, Types
  <2>3. rs' \in [Details -> Structs]
    BY <1>11, FreeType DEF Release, Types
  <2> QED
    BY <1>11, <2>2, <2>3 DEF Release, updvars, Types, Places
<1> QED
  BY <1>5, <1>6, <1>7, <1>8, <1>9, <1>10, <1>11

\* The listeners of the source.
LEMMA ListenerTypes ==
  ASSUME Settings, Types, NEW l \in RListener,
         \/ Join(l) \/ Listen(l) \/ Processed(l) \/ MoveBegins(l) \/ MoveEnds(l)
         \/ Resume(l) \/ Tired(l)
  PROVE  Types' /\ src'.owner = src.owner
<1>1. \E st \in {"off", "on", "paused", "wait", "moving"}, pos \in BOOLEAN :
         lst' = [lst EXCEPT ![l] = [st |-> st, pos |-> pos]]
  <2>1. lst[l].pos \in BOOLEAN
    BY DEF Types, Heard
  <2> QED
    BY <2>1 DEF Join, Listen, Processed, MoveBegins, MoveEnds, Resume, Tired, SetListener
<1>2. lst' \in [RListener -> Heard]
  BY <1>1 DEF Types, Heard
<1>3. src' = src \/ src' = [src EXCEPT !.tc = CheckedOff]
  BY DEF Join, Listen, Processed, MoveBegins, MoveEnds, Resume, Tired
<1>4. src' \in Sources /\ src'.owner = src.owner
  BY <1>3, CountTypes DEF Types, Sources
<1>5. UNCHANGED <<ops, det, polled, rs, updvars, contime, left, sources, connecting, up, ondemand>>
  BY DEF Join, Listen, Processed, MoveBegins, MoveEnds, Resume, Tired
<1> QED
  BY <1>2, <1>4, <1>5 DEF updvars, Types

-----------------------------------------------------------------------------
(***************************************************************************)
(* The steps in which details change hands                                 *)
(***************************************************************************)
Detached == [e \in Details |-> IF e \in tree THEN Detach(rs[e], FALSE) ELSE rs[e]]

\* A relay client with details of its own, and the source if that is to be had.
LEMMA InstallKept ==
  ASSUME Settings, Types, Pointers, Sourced, NEW c \in RClient, NEW d \in Details,
         NEW master \in BOOLEAN, NEW t \in 0 .. MaxClock,
         Install(Detached, c, d, master, t),
         ops[c] = "none", rs[d].st = "free", ~Referenced(d)
  PROVE  Pointers' /\ Sourced'
<1>1. /\ rs'[d].st = "live" /\ rs'[d].listed /\ ~rs'[d].cleanup
      /\ rs'[d].new = Nil /\ (rs'[d].src <=> CanReserve)
  <2>1. rs'[d] = [NewDetails(master, t) EXCEPT !.src = CanReserve]
    BY DEF Install, Detached
  <2> QED
    BY <2>1 DEF NewDetails
<1>2. \A e \in Details \ {d} :
         /\ rs'[e].st = rs[e].st /\ rs'[e].new = rs[e].new
         /\ rs'[e].cleanup = rs[e].cleanup /\ rs'[e].src = rs[e].src
         /\ rs'[e].listed => rs[e].listed
  <2>1. ASSUME NEW e \in Details \ {d}
        PROVE  /\ rs'[e].st = rs[e].st /\ rs'[e].new = rs[e].new
               /\ rs'[e].cleanup = rs[e].cleanup /\ rs'[e].src = rs[e].src
               /\ rs'[e].listed => rs[e].listed
    <3>1. rs'[e] = IF e \in tree THEN Detach(rs[e], FALSE) ELSE rs[e]
      BY DEF Install, Detached
    <3>2. rs[e] \in Structs
      BY DEF Types
    <3> QED
      BY <3>1, <3>2 DEF Detach, Structs
  <2> QED
    BY <2>1
<1>3. /\ det[c] = Nil /\ det' = [det EXCEPT ![c] = d] /\ ops' = [ops EXCEPT ![c] = "init"]
      /\ tree' = {d} /\ src' = IF CanReserve THEN [src EXCEPT !.owner = c] ELSE src
  BY DEF Install, Pointers, Owned
<1>4. /\ \A b \in RClient : det[b] # d
      /\ \A e \in Details : rs[e].new # d
  BY DEF Referenced, Pointers, Linked, Settings
<1>5. \A b \in RClient : det[b] # Nil => det[b] \in Details \ {d}
  BY <1>4 DEF Types
<1>6. \A e \in Details : rs[e].new # Nil => rs[e].new \in Details \ {d}
  BY <1>4 DEF Types, Structs
<1>7. \A b \in RClient \ {c} : det'[b] = det[b] /\ ops'[b] = ops[b]
  BY <1>3 DEF Types
<1>8. det'[c] = d /\ ops'[c] = "init" /\ d # Nil
  BY <1>3 DEF Types, Settings
<1>9. Owned'
  BY <1>1, <1>2, <1>5, <1>7, <1>8 DEF Pointers, Owned
<1>10. Linked'
  BY <1>1, <1>2, <1>6, <1>7, <1>8, <1>4 DEF Pointers, Linked
<1>11. InTree'
  BY <1>1, <1>3, <1>8 DEF InTree, ListedServed
<1>12. Leaving'
  BY <1>2, <1>5, <1>7, <1>8 DEF Pointers, Owned, Leaving
<1>13. Sourced'
  <2>1. ASSUME NEW b \in RClient, det'[b] # Nil, rs'[det'[b]].src PROVE src'.owner = b
    <3>1. CASE b = c
      BY <3>1, <2>1, <1>1, <1>3, <1>8 DEF Types, Sources
    <3>2. CASE b # c
      <4>1. src.owner = b
        BY <3>2, <2>1, <1>2, <1>5, <1>7 DEF Sourced
      <4>2. ~CanReserve
        BY <4>1 DEF CanReserve, Settings
      <4> QED
        BY <4>1, <4>2, <1>3
    <3> QED
      BY <3>1, <3>2
  <2>2. ASSUME NEW b \in RClient, ops'[b] \in {"startup", "thread", "client", "release"}
        PROVE  rs'[det'[b]].src
    <3>1. b # c
      BY <2>2, <1>8
    <3>2. ops[b] = ops'[b] /\ det[b] # Nil
      BY <2>2, <3>1, <1>7 DEF Pointers, Owned
    <3> QED
      BY <2>2, <3>1, <3>2, <1>2, <1>5, <1>7 DEF Sourced
  <2> QED
    BY <2>1, <2>2 DEF Sourced
<1> QED
  BY <1>9, <1>10, <1>11, <1>12, <1>13 DEF Pointers

Replaced(d, t) ==
    rs' = [e \in Details |->
              CASE e = d -> NewDetails(FALSE, t)
                [] e \in tree -> [Detach(rs[e], FALSE) EXCEPT !.new = d]
                [] OTHER -> rs[e]]

\* update_relays: new details hang off those that are in the tree.
LEMMA ReplaceKept ==
  ASSUME Settings, Types, Pointers, Sourced, NEW d \in Details, NEW t \in 0 .. MaxClock,
         CanReplace, rs[d].st = "free", ~Referenced(d),
         Replaced(d, t),
         tree' = {d}, ops' = ops, det' = det, src' = src
  PROVE  Pointers' /\ Sourced'
<1>1. PICK f \in tree : TRUE
  BY DEF CanReplace
<1>2. tree = {f} /\ f \in Details /\ f # d /\ f # Nil
  BY <1>1 DEF Pointers, InTree, Types, Settings
<1>3. /\ rs[f].st = "live" /\ rs[f].listed /\ ~rs[f].cleanup /\ rs[f].src
      /\ rs[f].new = Nil
  BY <1>1, <1>2 DEF CanReplace, Pointers, InTree, Linked
<1>4. /\ rs'[d].st = "live" /\ rs'[d].listed /\ ~rs'[d].cleanup
      /\ rs'[d].new = Nil /\ ~rs'[d].src
  <2>1. rs'[d] = NewDetails(FALSE, t)
    BY <1>2 DEF Replaced
  <2> QED
    BY <2>1 DEF NewDetails
<1>5. /\ rs'[f].st = "live" /\ ~rs'[f].listed /\ ~rs'[f].cleanup /\ rs'[f].src
      /\ rs'[f].new = d
  <2>1. rs'[f] = [Detach(rs[f], FALSE) EXCEPT !.new = d]
    BY <1>2 DEF Replaced
  <2>2. Detach(rs[f], FALSE) \in Structs /\ rs[f] \in Structs
    BY <1>2, DetachType DEF Types
  <2>3. /\ Detach(rs[f], FALSE).st = "live" /\ ~Detach(rs[f], FALSE).listed
        /\ ~Detach(rs[f], FALSE).cleanup /\ Detach(rs[f], FALSE).src
    BY <2>2, <1>3 DEF Detach, Structs
  <2> QED
    BY <2>1, <2>2, <2>3 DEF Structs
<1>6. \A e \in Details \ {d, f} : rs'[e] = rs[e]
  BY <1>2 DEF Replaced
<1>7. /\ \A b \in RClient : det[b] # d
      /\ \A e \in Details : rs[e].new # d
  BY DEF Referenced, Pointers, Linked, Settings
<1>8. \A b \in RClient : det[b] # Nil => det[b] \in Details \ {d}
  BY <1>7 DEF Types
<1>9. \A e \in Details : rs[e].new # Nil => rs[e].new \in Details \ {d, f}
  BY <1>7, <1>3 DEF Types, Structs, Pointers, Linked
<1>10. PICK c \in RClient : det[c] = f
  BY <1>1, <1>2, <1>9 DEF Pointers, InTree, ListedServed, Types
<1>. /\ ops' = ops /\ det' = det /\ src' = src /\ tree' = {d}
  OBVIOUS
<1>17. \A e \in Details \ {d} :
          /\ rs'[e].st = rs[e].st
          /\ rs'[e].src <=> rs[e].src
          /\ rs'[e].cleanup <=> rs[e].cleanup
          /\ rs'[e].listed => rs[e].listed
  BY <1>3, <1>5, <1>6
<1>11. Owned'
  BY <1>17, <1>8 DEF Pointers, Owned
<1>12. Linked'
  <2>1. ASSUME NEW e \in Details, rs'[e].new # Nil
        PROVE  /\ rs'[e].st = "live" /\ ~rs'[e].listed /\ ~rs'[e].cleanup
               /\ rs'[rs'[e].new].st = "live" /\ ~rs'[rs'[e].new].src /\ rs'[rs'[e].new].new = Nil
               /\ \A b \in RClient : det'[b] # rs'[e].new
               /\ \A g \in Details : rs'[g].new = rs'[e].new => g = e
    <3>1. CASE e = d
      BY <3>1, <2>1, <1>4
    <3>2. CASE e = f
      BY <3>2, <1>4, <1>5, <1>6, <1>7 DEF Settings
    <3>3. CASE e \in Details \ {d, f}
      BY <3>3, <2>1, <1>4, <1>5, <1>6, <1>9 DEF Pointers, Linked
    <3> QED
      BY <3>1, <3>2, <3>3
  <2> QED
    BY <2>1 DEF Linked
<1>13. InTree'
  BY <1>4, <1>5, <1>10, <1>2 DEF InTree, ListedServed
<1>14. Leaving'
  BY <1>17, <1>8 DEF Pointers, Owned, Leaving
<1>16. Sourced'
  BY <1>17, <1>8 DEF Sourced, Pointers, Owned
<1> QED
  BY <1>11, <1>12, <1>13, <1>14, <1>16 DEF Pointers

\* get_relay_details: a client that stays with its details, or takes up those
\* that replace them, with the source.
LEMMA GetDetailsKept ==
  ASSUME Settings, Types, Pointers, Sourced, NEW c \in RClient, GetDetails(c)
  PROVE  Pointers' /\ Sourced'
<1> DEFINE old == det[c]
           cur == IF rs[old].new # Nil THEN rs[old].new ELSE old
           moved == IF cur = old THEN rs[old] ELSE [rs[cur] EXCEPT !.src = rs[old].src]
           ends == moved.cleanup \/ Expired(moved)
<1>1. /\ rs' = [e \in Details |->
                  CASE e = cur -> [moved EXCEPT !.cleanup = ends, !.run = @ /\ ~ends]
                    [] e = old /\ e # cur -> FreeDetails
                    [] OTHER -> rs[e]]
      /\ det' = [det EXCEPT ![c] = cur]
      /\ UNCHANGED <<ops, tree, src>>
  BY DEF GetDetails, updvars
<1>2. old \in Details /\ rs[old] \in Structs /\ rs[old].st = "live" /\ old # Nil
  BY HasDetails DEF GetDetails, Settings
<1>3. cur \in Details /\ cur # Nil /\ rs[cur] \in Structs
  <2>1. cur \in Details
    BY <1>2 DEF Structs
  <2> HIDE DEF cur
  <2> QED
    BY <2>1 DEF Settings, Types
<1>4. ops[c] \notin {"none", "release"}
  BY DEF GetDetails
<1>5. rs[cur].st = "live" /\ rs[cur].new = Nil
  BY <1>2 DEF Pointers, Linked
<1>6. \A b \in RClient \ {c} : det[b] # Nil => det[b] \in Details \ {old, cur}
  BY <1>2 DEF Types, Pointers, Owned, Linked
<1>7. cur # old => ~rs[old].listed
  BY <1>2 DEF Pointers, Linked
<1>8. \A e \in Details \ {old} : rs[e].new # Nil => rs[e].new \in Details \ {old, cur}
  BY <1>2 DEF Types, Structs, Pointers, Linked
<1>9. cur = old \/ ~rs[cur].src
  BY <1>2 DEF Pointers, Linked
<1>20. cur # old => rs[old].new = cur
  OBVIOUS
<1>10. /\ rs'[cur].st = "live" /\ rs'[cur].new = Nil
       /\ rs'[cur].listed <=> rs[cur].listed
       /\ rs'[cur].src <=> rs[old].src
  <2>1. rs'[cur] = [moved EXCEPT !.cleanup = ends, !.run = @ /\ ~ends]
    <3> HIDE DEF cur, moved, ends, old
    <3> QED
      BY <1>1, <1>3
  <2>2. /\ moved \in Structs /\ moved.st = "live" /\ moved.new = Nil
        /\ moved.listed = rs[cur].listed /\ moved.src = rs[old].src
    <3>1. CASE cur = old
      <4>1. moved = rs[cur]
        BY <3>1
      <4> HIDE DEF moved, cur
      <4> QED
        BY <3>1, <4>1, <1>3, <1>5
    <3>2. CASE cur # old
      <4>1. moved = [rs[cur] EXCEPT !.src = rs[old].src]
        BY <3>2
      <4> HIDE DEF moved, cur
      <4> QED
        BY <4>1, <1>2, <1>3, <1>5 DEF Structs
    <3> QED
      BY <3>1, <3>2
  <2> HIDE DEF cur, moved, ends, old
  <2> QED
    BY <2>1, <2>2 DEF Structs
<1>11. cur # old => rs'[old] = FreeDetails
  <2> HIDE DEF cur, moved, ends
  <2> QED
    BY <1>1, <1>2
<1>12. \A e \in Details \ {old, cur} : rs'[e] = rs[e]
  <2> HIDE DEF cur, moved, ends, old
  <2> QED
    BY <1>1
<1>13. FreeDetails.st = "free" /\ FreeDetails.new = Nil
  BY DEF FreeDetails, NewDetails
<1>14. /\ det'[c] = cur /\ \A b \in RClient \ {c} : det'[b] = det[b]
       /\ ops' = ops /\ tree' = tree /\ src' = src
  <2> HIDE DEF cur
  <2> QED
    BY <1>1 DEF Types
<1> HIDE DEF moved, ends
<1>15. old = det[c]
  OBVIOUS
<1> HIDE DEF cur, old
<1>16. Owned'
  <2>1. \A b \in RClient : ops'[b] = "none" <=> det'[b] = Nil
    BY <1>14, <1>3, <1>4 DEF Pointers, Owned
  <2>2. \A b \in RClient : det'[b] # Nil => rs'[det'[b]].st = "live"
    BY <1>14, <1>6, <1>10, <1>12 DEF Pointers, Owned
  <2>3. \A a, b \in RClient : det'[a] # Nil /\ det'[a] = det'[b] => a = b
    BY <1>14, <1>6 DEF Pointers, Owned
  <2> QED
    BY <2>1, <2>2, <2>3 DEF Owned
<1>17. Linked'
  <2>1. ASSUME NEW e \in Details, rs'[e].new # Nil
        PROVE  /\ rs'[e].st = "live" /\ ~rs'[e].listed /\ ~rs'[e].cleanup
               /\ rs'[rs'[e].new].st = "live" /\ ~rs'[rs'[e].new].src /\ rs'[rs'[e].new].new = Nil
               /\ \A b \in RClient : det'[b] # rs'[e].new
               /\ \A g \in Details : rs'[g].new = rs'[e].new => g = e
    <3>1. e \in Details \ {old, cur}
      BY <2>1, <1>10, <1>11, <1>13
    <3>2. rs'[e] = rs[e] /\ rs[e].new \in Details \ {old, cur}
      BY <3>1, <2>1, <1>8, <1>12
    <3>3. rs'[rs[e].new] = rs[rs[e].new]
      BY <3>2, <1>12
    <3>4. \A b \in RClient : det'[b] # rs[e].new
      BY <3>1, <3>2, <2>1, <1>14 DEF Pointers, Linked
    <3>5. \A g \in Details : rs'[g].new = rs[e].new => g = e
      <4>1. ASSUME NEW g \in Details, rs'[g].new = rs[e].new PROVE g = e
        <5>1. g \in Details \ {old, cur}
          BY <4>1, <3>2, <2>1, <1>10, <1>11, <1>13
        <5> QED
          BY <4>1, <5>1, <3>1, <3>2, <2>1, <1>12 DEF Pointers, Linked
      <4> QED
        BY <4>1
    <3> QED
      BY <3>1, <3>2, <3>3, <3>4, <3>5, <2>1 DEF Pointers, Linked
  <2> QED
    BY <2>1 DEF Linked
<1>18. InTree'
  <2>1. ASSUME NEW d \in tree PROVE rs'[d].st = "live" /\ rs'[d].listed
    <3>1. d \in Details /\ rs[d].st = "live" /\ rs[d].listed
      BY DEF Pointers, InTree, Types
    <3>2. d = old => cur = old
      BY <3>1, <1>7
    <3> QED
      BY <3>1, <3>2, <1>10, <1>12
  <2>2. ASSUME NEW d \in tree
        PROVE  \E b \in RClient : det'[b] # Nil /\ (det'[b] = d \/ rs'[det'[b]].new = d)
    <3>1. PICK b \in RClient : det[b] # Nil /\ (det[b] = d \/ rs[det[b]].new = d)
      BY DEF Pointers, InTree, ListedServed
    <3>2. CASE b # c
      BY <3>1, <3>2, <1>6, <1>12, <1>14
    <3>3. CASE b = c
      <4>1. rs[d].listed
        BY DEF Pointers, InTree
      <4>2. d = cur
        BY <3>1, <3>3, <4>1, <1>5, <1>7, <1>15, <1>20, <1>3 DEF Types, Settings
      <4> QED
        BY <4>2, <1>14, <1>3
    <3> QED
      BY <3>2, <3>3
  <2> QED
    BY <2>1, <2>2, <1>14 DEF Pointers, InTree, ListedServed
<1>19. Leaving'
  BY <1>4, <1>6, <1>12, <1>14 DEF Pointers, Owned, Leaving
<1>21. Sourced'
  <2>1. \A b \in RClient \ {c} : det[b] # Nil => rs'[det'[b]].src = rs[det[b]].src
    BY <1>6, <1>12, <1>14
  <2>2. rs'[det'[c]].src <=> rs[det[c]].src
    BY <1>10, <1>14, <1>15
  <2> QED
    BY <2>1, <2>2, <1>14, <1>2, <1>15 DEF Sourced, Pointers, Owned
<1> QED
  BY <1>16, <1>17, <1>18, <1>19, <1>21 DEF Pointers

\* A relay that ends leaves the tree.
LEMMA EndsKept ==
  ASSUME Settings, Types, Pointers, Sourced, NEW c \in RClient, ReadEnds(c)
  PROVE  Pointers' /\ Sourced'
<1>1. det[c] \in Details /\ rs[det[c]] \in Structs /\ rs[det[c]].cleanup /\ ops[c] = "client"
  BY HasDetails DEF ReadEnds, Checked, Now
<1>2. /\ det' = det /\ ops' = [ops EXCEPT ![c] = "release"] /\ src' = Settled
      /\ \/ ~rs[det[c]].listed /\ rs' = rs /\ tree' = tree
         \/ rs[det[c]].listed /\ rs' = [rs EXCEPT ![det[c]] = Detach(@, TRUE)] /\ tree' = {}
  <2>1. det' = det /\ ops' = [ops EXCEPT ![c] = "release"] /\ src' = Settled
    BY DEF ReadEnds
  <2>2. IF rs[det[c]].listed
        THEN rs' = [rs EXCEPT ![det[c]] = Detach(@, TRUE)] /\ tree' = {}
        ELSE UNCHANGED <<rs, tree>>
    BY Zenon DEF ReadEnds
  <2> QED
    BY <2>1, <2>2
<1>3. /\ rs'[det[c]].cleanup /\ ~rs'[det[c]].listed
      /\ rs'[det[c]].st = rs[det[c]].st /\ rs'[det[c]].new = rs[det[c]].new
      /\ rs'[det[c]].src = rs[det[c]].src
  <2>1. CASE ~rs[det[c]].listed
    BY <2>1, <1>1, <1>2
  <2>2. CASE rs[det[c]].listed
    <3>1. rs'[det[c]] = Detach(rs[det[c]], TRUE)
      BY <2>2, <1>1, <1>2 DEF Types
    <3> QED
      BY <3>1, <1>1 DEF Detach, Structs
  <2> QED
    BY <2>1, <2>2
<1>4. \A e \in Details \ {det[c]} : rs'[e] = rs[e]
  BY <1>1, <1>2 DEF Types
<1>5. \A b \in RClient : det[b] # Nil => det[b] \in Details
  BY DEF Types
<1>6. \A e \in Details : rs[e].new # Nil => rs[e].new \in Details \ {det[c]} /\ e # det[c]
  BY <1>1 DEF Types, Structs, Pointers, Linked
<1>7. ops'[c] = "release" /\ \A b \in RClient \ {c} : ops'[b] = ops[b]
  BY <1>2 DEF Types
<1>8. Owned'
  BY <1>1, <1>2, <1>3, <1>4, <1>5, <1>7 DEF Pointers, Owned
<1>9. \A e \in Details : /\ rs'[e].new = rs[e].new /\ rs'[e].st = rs[e].st
                         /\ rs'[e].src = rs[e].src
  BY <1>3, <1>4
<1>10. Linked'
  BY <1>2, <1>4, <1>6, <1>9 DEF Pointers, Linked
<1>11. InTree'
  <2>1. CASE tree' = {}
    BY <2>1 DEF InTree, ListedServed
  <2>2. CASE rs' = rs /\ tree' = tree
    BY <2>2, <1>2 DEF Pointers, InTree, ListedServed
  <2> QED
    BY <2>1, <2>2, <1>2
<1>12. Leaving'
  BY <1>2, <1>3, <1>4, <1>5, <1>7 DEF Pointers, Owned, Leaving
<1>13. src'.owner = src.owner
  BY <1>2 DEF Settled, Types, Sources
<1>14. Sourced'
  BY <1>1, <1>2, <1>5, <1>7, <1>9, <1>13 DEF Sourced, Pointers, Owned
<1> QED
  BY <1>8, <1>10, <1>11, <1>12, <1>14 DEF Pointers

\* relay_release: what is freed is that of no one else.
LEMMA ReleaseKept ==
  ASSUME Settings, Types, Pointers, Sourced, NEW c \in RClient, Release(c)
  PROVE  Pointers' /\ Sourced'
<1>1. /\ det[c] \in Details /\ det[c] # Nil /\ rs[det[c]] \in Structs
      /\ rs[det[c]].cleanup /\ ~rs[det[c]].listed /\ rs[det[c]].src
  BY HasDetails DEF Release, Pointers, Leaving, Sourced, Settings
<1>2. /\ rs' = [rs EXCEPT ![det[c]] = FreeDetails] /\ det' = [det EXCEPT ![c] = Nil]
      /\ ops' = [ops EXCEPT ![c] = "none"] /\ tree' = tree /\ src' = NoSource
  BY <1>1 DEF Release, updvars
<1>3. /\ det'[c] = Nil /\ ops'[c] = "none"
      /\ \A b \in RClient \ {c} : det'[b] = det[b] /\ ops'[b] = ops[b]
  BY <1>2 DEF Types
<1>4. rs'[det[c]] = FreeDetails /\ \A e \in Details \ {det[c]} : rs'[e] = rs[e]
  BY <1>1, <1>2 DEF Types
<1>5. FreeDetails.new = Nil
  BY DEF FreeDetails, NewDetails
<1>6. \A b \in RClient \ {c} : det[b] # Nil => det[b] \in Details \ {det[c]}
  BY <1>1 DEF Types, Pointers, Owned
<1>7. \A e \in Details : rs[e].new # Nil => rs[e].new \in Details \ {det[c]} /\ e # det[c]
  BY <1>1 DEF Types, Structs, Pointers, Linked
<1>8. Owned'
  BY <1>3, <1>4, <1>6 DEF Pointers, Owned
<1>9. Linked'
  <2>1. ASSUME NEW e \in Details, rs'[e].new # Nil
        PROVE  /\ rs'[e].st = "live" /\ ~rs'[e].listed /\ ~rs'[e].cleanup
               /\ rs'[rs'[e].new].st = "live" /\ ~rs'[rs'[e].new].src /\ rs'[rs'[e].new].new = Nil
               /\ \A b \in RClient : det'[b] # rs'[e].new
               /\ \A g \in Details : rs'[g].new = rs'[e].new => g = e
    <3>1. e # det[c] /\ rs'[e] = rs[e] /\ rs[e].new # Nil
      BY <2>1, <1>4, <1>5
    <3>2. rs'[rs[e].new] = rs[rs[e].new] /\ rs[e].new # Nil
      BY <3>1, <1>4, <1>7
    <3>3. \A g \in Details : rs'[g].new = rs[e].new => rs[g].new = rs[e].new
      BY <3>1, <1>4, <1>5
    <3> QED
      BY <3>1, <3>2, <3>3, <1>3 DEF Pointers, Linked
  <2> QED
    BY <2>1 DEF Linked
<1>10. InTree'
  <2>1. \A d \in tree : d \in Details \ {det[c]}
    BY <1>1 DEF Pointers, InTree, Types
  <2>2. ASSUME NEW d \in tree
        PROVE  \E b \in RClient : det'[b] # Nil /\ (det'[b] = d \/ rs'[det'[b]].new = d)
    <3>1. PICK b \in RClient : det[b] # Nil /\ (det[b] = d \/ rs[det[b]].new = d)
      BY DEF Pointers, InTree, ListedServed
    <3>2. b # c
      BY <3>1, <2>1, <1>1, <1>7 DEF Settings
    <3> QED
      BY <3>1, <3>2, <1>3, <1>4, <1>6
  <2> QED
    BY <2>1, <2>2, <1>2, <1>4 DEF Pointers, InTree, ListedServed
<1>11. Leaving'
  BY <1>3, <1>4, <1>6 DEF Pointers, Owned, Leaving
<1>12. src.owner = c
  BY <1>1 DEF Sourced
<1>13. Sourced'
  BY <1>3, <1>4, <1>6, <1>12 DEF Sourced, Pointers, Owned
<1> QED
  BY <1>8, <1>9, <1>10, <1>11, <1>13 DEF Pointers

-----------------------------------------------------------------------------
(***************************************************************************)
(* Every step keeps the invariant                                          *)
(***************************************************************************)
SameDetails ==
    \A e \in Details : /\ rs'[e].st = rs[e].st /\ rs'[e].listed = rs[e].listed
                       /\ rs'[e].new = rs[e].new /\ rs'[e].cleanup = rs[e].cleanup
                       /\ rs'[e].src = rs[e].src

(* no details and no source change hands *)
Stays ==
    /\ det' = det /\ tree' = tree /\ src'.owner = src.owner /\ SameDetails
    /\ \A c \in RClient :
          /\ ops'[c] = "none" <=> ops[c] = "none"
          /\ ops'[c] = "release" => ops[c] = "release"
          /\ ops'[c] \in {"startup", "thread", "client", "release"} =>
                ops[c] \in {"startup", "thread", "client", "release"}

LEMMA StaysKept ==
  ASSUME Types, Pointers, Sourced, Stays
  PROVE  Pointers' /\ Sourced'
<1>1. Pointers'
  BY PointersFramed DEF Stays, SameDetails
<1>2. Sourced'
  BY SourceFramed DEF Stays, SameDetails, Pointers
<1> QED
  BY <1>1, <1>2

\* The client in question alone changes its state.
LEMMA OneMoves ==
  ASSUME Types, NEW c \in RClient, NEW o \in Places, ops' = [ops EXCEPT ![c] = o]
  PROVE  ops'[c] = o /\ \A b \in RClient \ {c} : ops'[b] = ops[b]
BY DEF Types

\* Updates of the tree.
LEMMA UpdateKept ==
  ASSUME Settings, IInv, NEW t \in 0 .. MaxClock,
         \/ UpdateRelays(t) \/ UpdateWithout(t)
         \/ \E listed, ok \in BOOLEAN : StreamList(t, listed, ok)
  PROVE  IInv'
<1>1. Types'
  BY UpdateTypes DEF IInv
<1>2. UNCHANGED <<contime, sources, connecting>>
  BY DEF UpdateRelays, UpdateWithout, StreamList
<1>3. ASSUME NEW d \in Unused, NEW c \in UnusedClients, NEW master \in BOOLEAN,
             Install(Detached, c, d, master, t)
      PROVE  Pointers' /\ Sourced' /\ Counted'
  <2>1. d \in Details /\ rs[d].st = "free" /\ ~Referenced(d)
    BY DEF Unused, AnyOf
  <2>2. c \in RClient /\ ops[c] = "none"
    BY DEF UnusedClients, AnyOf
  <2>3. Pointers' /\ Sourced'
    BY <1>3, <2>1, <2>2, InstallKept DEF IInv
  <2>4. ops'[c] = "init" /\ \A b \in RClient \ {c} : ops'[b] = ops[b]
    BY <1>3, <2>2, OneMoves DEF Install, IInv, Places
  <2>5. Counted'
    <3>1. \A b \in RClient : ops'[b] = "thread" <=> ops[b] = "thread"
      BY <2>2, <2>4
    <3>2. \A b \in contime : ops'[b] \in {"thread", "client"}
      BY <2>2, <2>4 DEF IInv, Counted, Types
    <3> QED
      BY <1>2, <3>1, <3>2, CountsFramed DEF IInv
  <2> QED
    BY <2>3, <2>5
<1>4. ASSUME UNCHANGED <<ops, det, tree, src>>, SameDetails
      PROVE  Pointers' /\ Sourced' /\ Counted'
  <2>1. Stays
    BY <1>4 DEF Stays
  <2>2. Counted'
    BY <1>2, <1>4, CountsFramed DEF IInv, Counted
  <2> QED
    BY <2>1, <2>2, StaysKept DEF IInv
<1>5. CASE UpdateRelays(t)
  <2>1. PICK d \in Unused :
          IF CanReplace
          THEN Replaced(d, t) /\ tree' = {d} /\ UNCHANGED <<ops, det, src>>
          ELSE \E c \in UnusedClients : Install(Detached, c, d, FALSE, t)
    BY <1>5, Zenon DEF UpdateRelays, Replaced, Detached
  <2>2. CASE CanReplace
    <3>1. Replaced(d, t) /\ tree' = {d} /\ UNCHANGED <<ops, det, src>>
      BY <2>1, <2>2
    <3>2. d \in Details /\ rs[d].st = "free" /\ ~Referenced(d)
      BY DEF Unused, AnyOf
    <3>3. Pointers' /\ Sourced'
      BY <2>2, <3>1, <3>2, ReplaceKept DEF IInv
    <3>4. Counted'
      BY <1>2, <3>1, CountsFramed DEF IInv, Counted
    <3> QED
      BY <1>1, <3>3, <3>4 DEF IInv
  <2>3. CASE ~CanReplace
    <3>1. FALSE \in BOOLEAN
      OBVIOUS
    <3>2. Pointers' /\ Sourced' /\ Counted'
      BY <1>3, <2>1, <2>3, <3>1, Zenon
    <3> QED
      BY <1>1, <3>2 DEF IInv
  <2> QED
    BY <2>2, <2>3
<1>6. CASE UpdateWithout(t)
  <2>1. UNCHANGED <<ops, det, tree, src, rs>>
    BY <1>6 DEF UpdateWithout
  <2>2. SameDetails
    BY <2>1 DEF SameDetails
  <2>3. Pointers' /\ Sourced' /\ Counted'
    BY <1>4, <2>1, <2>2
  <2> QED
    BY <1>1, <2>3 DEF IInv
<1>7. CASE \E listed, ok \in BOOLEAN : StreamList(t, listed, ok)
  <2>1. AddMasterRelay(t) \/ UNCHANGED <<ops, det, rs, tree, src>>
    BY <1>7 DEF StreamList
  <2>2. CASE \E d \in Unused, c \in UnusedClients : Install(Detached, c, d, TRUE, t)
    <3>1. TRUE \in BOOLEAN
      OBVIOUS
    <3>2. Pointers' /\ Sourced' /\ Counted'
      BY <1>3, <2>2, <3>1, Zenon
    <3> QED
      BY <1>1, <3>2 DEF IInv
  <2>3. CASE /\ rs' = [e \in Details |-> IF e \in tree THEN [rs[e] EXCEPT !.updated = t] ELSE rs[e]]
             /\ UNCHANGED <<ops, det, tree, src>>
    <3>1. SameDetails
      <4>1. ASSUME NEW e \in Details
            PROVE  /\ rs'[e].st = rs[e].st /\ rs'[e].listed = rs[e].listed
                   /\ rs'[e].new = rs[e].new /\ rs'[e].cleanup = rs[e].cleanup
                   /\ rs'[e].src = rs[e].src
        <5>1. rs'[e] = rs[e] \/ rs'[e] = [rs[e] EXCEPT !.updated = t]
          BY <2>3
        <5>2. rs[e] \in Structs
          BY DEF IInv, Types
        <5> QED
          BY <5>1, <5>2 DEF Structs
      <4> QED
        BY <4>1 DEF SameDetails
    <3>2. Pointers' /\ Sourced' /\ Counted'
      BY <1>4, <2>3, <3>1
    <3> QED
      BY <1>1, <3>2 DEF IInv
  <2>4. CASE UNCHANGED <<ops, det, rs, tree, src>>
    <3>1. SameDetails
      BY <2>4 DEF SameDetails
    <3>2. Pointers' /\ Sourced' /\ Counted'
      BY <1>4, <2>4, <3>1
    <3> QED
      BY <1>1, <3>2 DEF IInv
  <2>5. AddMasterRelay(t) =>
          \/ \E d \in Unused, c \in UnusedClients : Install(Detached, c, d, TRUE, t)
          \/ /\ rs' = [e \in Details |-> IF e \in tree THEN [rs[e] EXCEPT !.updated = t] ELSE rs[e]]
             /\ UNCHANGED <<ops, det, tree, src>>
    BY Zenon DEF AddMasterRelay, Detached
  <2> QED
    BY <2>1, <2>2, <2>3, <2>4, <2>5
<1> QED
  BY <1>5, <1>6, <1>7

\* Details of which nothing changes that other details, clients or the source
\* depend on.
LEMMA DetailsStay ==
  ASSUME Types, NEW d \in Details, NEW r, rs' = [rs EXCEPT ![d] = r],
         r.st = rs[d].st, r.listed = rs[d].listed, r.new = rs[d].new,
         r.cleanup = rs[d].cleanup, r.src = rs[d].src
  PROVE  SameDetails
<1>1. rs'[d] = r /\ \A e \in Details \ {d} : rs'[e] = rs[e]
  BY DEF Types
<1> QED
  BY <1>1 DEF SameDetails

\* Steps in which no client comes, goes or changes its details.
LEMMA IdleKept ==
  ASSUME IInv, UNCHANGED <<ops, det, tree, contime, sources, connecting>>,
         src'.owner = src.owner, SameDetails
  PROVE  Pointers' /\ Sourced' /\ Counted'
<1>1. Stays
  BY DEF Stays
<1>2. Counted'
  BY CountsFramed DEF IInv, Counted
<1> QED
  BY <1>1, <1>2, StaysKept DEF IInv

\* The slave thread, and the first half of a process call.
LEMMA SlaveKept ==
  ASSUME Settings, IInv,
         \/ \E on \in BOOLEAN : ManageRelay(on)
         \/ Halt
         \/ \E c \in RClient : GetDetails(c)
  PROVE  IInv'
<1>1. Types'
  BY DetailsTypes DEF IInv
<1>2. CASE \E on \in BOOLEAN : ManageRelay(on)
  <2>1. PICK on \in BOOLEAN : ManageRelay(on)
    BY <1>2
  <2>2. PICK e \in tree : rs' = [rs EXCEPT ![e].run = on]
    BY <2>1 DEF ManageRelay
  <2>3. e \in Details /\ rs[e] \in Structs
    BY DEF IInv, Types
  <2>4. SameDetails
    BY <2>2, <2>3, DetailsStay DEF IInv, Structs
  <2>5. UNCHANGED <<ops, det, tree, contime, sources, connecting, src>>
    BY <2>1 DEF ManageRelay, updvars
  <2> QED
    BY <1>1, <2>4, <2>5, IdleKept DEF IInv
<1>3. CASE Halt
  <2>1. SameDetails /\ UNCHANGED <<ops, det, tree, contime, sources, connecting, src>>
    BY <1>3 DEF Halt, SameDetails
  <2> QED
    BY <1>1, <2>1, IdleKept DEF IInv
<1>4. CASE \E c \in RClient : GetDetails(c)
  <2>1. PICK c \in RClient : GetDetails(c)
    BY <1>4
  <2>2. Pointers' /\ Sourced'
    BY <2>1, GetDetailsKept DEF IInv
  <2>3. UNCHANGED <<ops, contime, sources, connecting>>
    BY <2>1 DEF GetDetails
  <2>4. Counted'
    BY <2>3, CountsFramed DEF IInv, Counted
  <2> QED
    BY <1>1, <2>2, <2>4 DEF IInv
<1> QED
  BY <1>2, <1>3, <1>4

\* A listener comes, is processed, waits or goes.
LEMMA ListenerKept ==
  ASSUME Settings, IInv, NEW l \in RListener,
         \/ Join(l) \/ Listen(l) \/ Processed(l) \/ MoveBegins(l) \/ MoveEnds(l)
         \/ Resume(l) \/ Tired(l)
  PROVE  IInv'
<1>1. Types' /\ src'.owner = src.owner
  BY ListenerTypes DEF IInv
<1>2. UNCHANGED <<ops, det, tree, rs, contime, sources, connecting>>
  BY DEF Join, Listen, Processed, MoveBegins, MoveEnds, Resume, Tired, updvars
<1>3. SameDetails
  BY <1>2 DEF SameDetails
<1> QED
  BY <1>1, <1>2, <1>3, IdleKept DEF IInv

\* A client that waits, or reads on.
LEMMA WaitsKept ==
  ASSUME Settings, IInv, NEW c \in RClient,
         InitialiseWaits(c) \/ StartupWaits(c) \/ ReadOn(c) \/ ReadWaits(c)
  PROVE  Pointers' /\ Sourced' /\ Counted'
<1>1. UNCHANGED <<ops, det, tree, rs, contime, sources, connecting>>
  BY DEF InitialiseWaits, StartupWaits, ReadOn, ReadWaits, updvars
<1>2. src' = src \/ src' = [src EXCEPT !.demand = TRUE] \/ src' = [src EXCEPT !.term = FALSE]
  BY DEF InitialiseWaits, StartupWaits, ReadOn, ReadWaits
<1>3. src'.owner = src.owner
  BY <1>2 DEF IInv, Types, Sources
<1>4. SameDetails
  BY <1>1 DEF SameDetails
<1> QED
  BY <1>1, <1>3, <1>4, IdleKept

\* relay_initialise: the source goes to the client, unless it has it already;
\* no other client has it then.
LEMMA InitialiseKept ==
  ASSUME Settings, IInv, NEW c \in RClient, Initialise(c)
  PROVE  Pointers' /\ Sourced' /\ Counted'
<1>1. ops[c] = "init" /\ (rs[det[c]].src \/ src.owner = Nil)
  BY DEF Initialise, Now, CanReserve
<1>2. det[c] \in Details /\ rs[det[c]] \in Structs /\ det[c] # Nil
  BY <1>1, HasDetails DEF IInv, Settings
<1>3. /\ rs' = [rs EXCEPT ![det[c]].src = TRUE]
      /\ UNCHANGED <<det, tree, contime, sources, connecting>>
  BY DEF Initialise, updvars
<1>4. PICK o \in {"init", "startup", "client"} : ops' = [ops EXCEPT ![c] = o]
  BY DEF Initialise
<1>5. ops'[c] = o /\ \A b \in RClient \ {c} : ops'[b] = ops[b]
  BY <1>4, OneMoves DEF IInv, Places
<1>6. rs'[det[c]] = [rs[det[c]] EXCEPT !.src = TRUE]
      /\ \A e \in Details \ {det[c]} : rs'[e] = rs[e]
  BY <1>2, <1>3 DEF IInv, Types
<1>7. \A e \in Details : /\ rs'[e].st = rs[e].st /\ rs'[e].listed = rs[e].listed
                         /\ rs'[e].new = rs[e].new /\ rs'[e].cleanup = rs[e].cleanup
                         /\ rs'[e].src = rs[e].src \/ \E b \in RClient : det[b] = e
  BY <1>2, <1>6 DEF Structs
<1>8. rs'[det[c]].src
  BY <1>2, <1>6 DEF Structs
<1>9. Pointers'
  BY <1>1, <1>3, <1>5, <1>7, PointersFramed DEF IInv
<1>10. src'.owner = c
  <2>1. src'.owner = (IF rs[det[c]].src THEN src ELSE [NoSource EXCEPT !.owner = c]).owner
    BY CountTypes DEF Initialise, NoSource, IInv, Types, Sources
  <2>2. rs[det[c]].src => src.owner = c
    BY <1>2 DEF IInv, Sourced
  <2> QED
    BY <2>1, <2>2 DEF NoSource
<1>11. \A b \in RClient \ {c} : det[b] # Nil => det[b] \in Details \ {det[c]}
  BY <1>2 DEF IInv, Types, Pointers, Owned
<1>12. \A b \in RClient \ {c} : det[b] # Nil => ~rs[det[b]].src
  BY <1>1, <1>2 DEF IInv, Sourced, Settings
<1>13. Sourced'
  <2>1. ASSUME NEW b \in RClient, det'[b] # Nil, rs'[det'[b]].src
        PROVE  src'.owner = b
    BY <1>3, <1>6, <1>10, <1>11, <1>12, <2>1
  <2>2. ASSUME NEW b \in RClient, ops'[b] \in {"startup", "thread", "client", "release"}
        PROVE  rs'[det'[b]].src
    <3>1. CASE b = c
      BY <1>3, <1>8, <3>1
    <3>2. CASE b # c
      BY <1>3, <1>5, <1>6, <1>11, <2>2, <3>2 DEF IInv, Sourced, Pointers, Owned
    <3> QED
      BY <3>1, <3>2
  <2> QED
    BY <2>1, <2>2 DEF Sourced
<1>14. c \notin contime
  BY <1>1 DEF IInv, Counted
<1>15. Counted'
  <2>1. \A b \in RClient : ops'[b] = "thread" <=> ops[b] = "thread"
    BY <1>1, <1>5
  <2>2. \A b \in contime : ops'[b] \in {"thread", "client"}
    BY <1>5, <1>14 DEF IInv, Counted, Types
  <2> QED
    BY <1>3, <2>1, <2>2, CountsFramed DEF IInv
<1> QED
  BY <1>9, <1>13, <1>15

\* relay_startup, with the relay thread started or not.
LEMMA StartupKept ==
  ASSUME Settings, IInv, NEW c \in RClient, StartupStops(c) \/ Startup(c)
  PROVE  Pointers' /\ Sourced' /\ Counted'
<1>1. ops[c] = "startup" /\ UNCHANGED <<det, rs, tree, contime, sources>>
  BY DEF StartupStops, Startup, Now, updvars
<1>2. src' = src \/ src' = [src EXCEPT !.demand = TRUE]
  BY DEF StartupStops, Startup
<1>3. src'.owner = src.owner
  BY <1>2 DEF IInv, Types, Sources
<1>4. SameDetails
  BY <1>1 DEF SameDetails
<1>5. c \notin contime
  BY <1>1 DEF IInv, Counted
<1>6. CASE StartupStops(c)
  <2>1. ops' = [ops EXCEPT ![c] = "client"] /\ connecting' = connecting
    BY <1>6 DEF StartupStops
  <2>2. ops'[c] = "client" /\ \A b \in RClient \ {c} : ops'[b] = ops[b]
    BY <2>1, OneMoves DEF IInv, Places
  <2>3. Stays
    BY <1>1, <1>3, <1>4, <2>2 DEF Stays
  <2>4. Counted'
    <3>1. \A b \in RClient : ops'[b] = "thread" <=> ops[b] = "thread"
      BY <1>1, <2>2
    <3>2. \A b \in contime : ops'[b] \in {"thread", "client"}
      BY <1>5, <2>2 DEF IInv, Counted, Types
    <3> QED
      BY <1>1, <2>1, <3>1, <3>2, CountsFramed DEF IInv
  <2> QED
    BY <2>3, <2>4, StaysKept DEF IInv
<1>7. CASE Startup(c)
  <2>1. ops' = [ops EXCEPT ![c] = "thread"] /\ connecting' = connecting + 1
    BY <1>7 DEF Startup
  <2>2. ops'[c] = "thread" /\ \A b \in RClient \ {c} : ops'[b] = ops[b]
    BY <2>1, OneMoves DEF IInv, Places
  <2>3. Stays
    BY <1>1, <1>3, <1>4, <2>2 DEF Stays
  <2>4. Counted'
    BY <1>1, <1>5, <2>1, <2>2, ThreadsCounted DEF IInv
  <2> QED
    BY <2>3, <2>4, StaysKept DEF IInv
<1> QED
  BY <1>6, <1>7

\* The relay thread takes the client and counts its source.
LEMMA BeginKept ==
  ASSUME Settings, IInv, NEW c \in RClient, ThreadBegin(c)
  PROVE  Pointers' /\ Sourced' /\ Counted'
<1>1. /\ ops[c] = "thread" /\ c \notin contime
      /\ sources' = sources + 1 /\ contime' = contime \cup {c}
      /\ UNCHANGED <<ops, det, tree, rs, connecting>>
      /\ src' = [src EXCEPT !.pause = TRUE]
  BY DEF ThreadBegin, updvars
<1>2. src'.owner = src.owner
  BY <1>1 DEF IInv, Types, Sources
<1>3. Stays
  BY <1>1, <1>2 DEF Stays, SameDetails
<1>4. IsFiniteSet(contime)
  BY FS_Subset DEF IInv, Types, Settings
<1>5. Cardinality(contime') = Cardinality(contime) + 1
  BY <1>1, <1>4, FS_AddElement
<1>6. Threads' = Threads
  BY <1>1 DEF Threads
<1>7. Counted'
  BY <1>1, <1>5, <1>6 DEF IInv, Counted
<1> QED
  BY <1>3, <1>7, StaysKept DEF IInv

\* A host of the relay thread: the next one is tried, or it is the end of the
\* thread.
LEMMA ThreadKept ==
  ASSUME Settings, IInv, NEW c \in RClient,
         HostConnects(c) \/ ThreadFails(c) \/ \E skip \in BOOLEAN : HostFails(c, skip)
  PROVE  Pointers' /\ Sourced' /\ Counted'
<1>1. /\ ops[c] = "thread" /\ c \in contime
      /\ UNCHANGED <<det, tree, contime, sources>>
  BY DEF HostConnects, ThreadFails, HostFails, updvars
<1>2. det[c] \in Details /\ rs[det[c]] \in Structs
  BY <1>1, HasDetails DEF IInv
<1>3. SameDetails
  <2>1. CASE HostConnects(c) \/ ThreadFails(c)
    <3>1. PICK h : rs' = [rs EXCEPT ![det[c]].host = h]
      BY <2>1 DEF HostConnects, ThreadFails
    <3> QED
      BY <1>2, <3>1, DetailsStay DEF IInv, Structs
  <2>2. CASE \E skip \in BOOLEAN : HostFails(c, skip)
    <3>1. PICK skip \in BOOLEAN : HostFails(c, skip)
      BY <2>2
    <3>2. PICK h, s : rs' = [rs EXCEPT ![det[c]] = [[rs[det[c]] EXCEPT !.host = h] EXCEPT !.skip = s]]
      <4> DEFINE h == CHOOSE x \in left[c] : \A y \in left[c] : x <= y
      <4>1. rs' = [rs EXCEPT ![det[c]].host = h,
                             ![det[c]].skip = IF skip THEN @ \cup {h} ELSE @]
        BY <3>1 DEF HostFails
      <4>2. rs \in [Details -> Structs]
        BY DEF IInv, Types
      <4> HIDE DEF h
      <4>3. rs' = [rs EXCEPT ![det[c]] =
                     [[rs[det[c]] EXCEPT !.host = h] EXCEPT
                         !.skip = IF skip THEN @ \cup {h} ELSE @]]
        BY <1>2, <4>1, <4>2
      <4> QED
        BY <4>3, Zenon
    <3>3. LET r == [[rs[det[c]] EXCEPT !.host = h] EXCEPT !.skip = s] IN
          /\ r.st = rs[det[c]].st /\ r.listed = rs[det[c]].listed /\ r.new = rs[det[c]].new
          /\ r.cleanup = rs[det[c]].cleanup /\ r.src = rs[det[c]].src
      BY <1>2 DEF Structs
    <3> QED
      BY <1>2, <3>2, <3>3, DetailsStay DEF IInv
  <2> QED
    BY <2>1, <2>2
<1>4. \/ src' = src
      \/ src' = [src EXCEPT !.run = TRUE, !.demand = FALSE]
      \/ src' = [src EXCEPT !.pause = FALSE, !.run = FALSE]
  BY DEF HostConnects, ThreadFails, HostFails
<1>5. src'.owner = src.owner
  BY <1>4 DEF IInv, Types, Sources
<1>6. CASE HostConnects(c) \/ ThreadFails(c)
  <2>1. ops' = [ops EXCEPT ![c] = "client"] /\ connecting' = connecting + (-1)
    <3>1. connecting \in Int
      BY FS_Subset, FS_CardinalityType DEF IInv, Counted, Threads, Settings
    <3> QED
      BY <1>6, <3>1 DEF HostConnects, ThreadFails
  <2>2. ops'[c] = "client" /\ \A b \in RClient \ {c} : ops'[b] = ops[b]
    BY <2>1, OneMoves DEF IInv, Places
  <2>3. Stays
    BY <1>1, <1>3, <1>5, <2>2 DEF Stays
  <2>4. Counted'
    BY <1>1, <2>1, <2>2, ThreadsCounted DEF IInv
  <2> QED
    BY <2>3, <2>4, StaysKept DEF IInv
<1>7. CASE \E skip \in BOOLEAN : HostFails(c, skip)
  <2>1. UNCHANGED <<ops, connecting>>
    BY <1>7 DEF HostFails
  <2> QED
    BY <1>1, <1>3, <1>5, <2>1, IdleKept
<1> QED
  BY <1>6, <1>7

\* relay_read, when the source stops and its listeners are to be processed.
LEMMA StopsKept ==
  ASSUME Settings, IInv, NEW c \in RClient, ReadStops(c)
  PROVE  Pointers' /\ Sourced' /\ Counted'
<1>1. det[c] \in Details /\ rs[det[c]] \in Structs
  BY HasDetails DEF IInv, ReadStops, Now
<1>2. UNCHANGED <<ops, det, tree, contime, sources, connecting>>
  BY DEF ReadStops, updvars
<1>3. src'.owner = src.owner
  <2>1. PICK fb \in BOOLEAN :
          src' = [src EXCEPT !.run = FALSE, !.term = TRUE, !.sync = TRUE,
                             !.demand = FALSE, !.tc = Count, !.fallback = fb,
                             !.pause = @ /\ rs[det[c]].run]
    BY DEF ReadStops
  <2> QED
    BY <2>1 DEF IInv, Types, Sources
<1>4. rs' = rs \/ \E skip : rs' = [rs EXCEPT ![det[c]].skip = skip]
  BY DEF ReadStops
<1>5. SameDetails
  <2>1. CASE rs' = rs
    BY <2>1 DEF SameDetails
  <2>2. CASE \E skip : rs' = [rs EXCEPT ![det[c]].skip = skip]
    BY <1>1, <2>2, DetailsStay DEF IInv, Structs
  <2> QED
    BY <1>4, <2>1, <2>2
<1> QED
  BY <1>2, <1>3, <1>5, IdleKept

\* relay_read, when all listeners were checked, and relay_release.
LEMMA CheckedKept ==
  ASSUME Settings, IInv, NEW c \in RClient,
         ReadRechecks(c) \/ ReadEnds(c) \/ ReadRestarts(c) \/ Release(c)
  PROVE  Pointers' /\ Sourced' /\ Counted'
<1>1. det[c] \in Details /\ rs[det[c]] \in Structs
  BY HasDetails DEF IInv, ReadRechecks, ReadEnds, ReadRestarts, Release, Checked, Now
<1>2. Settled.owner = src.owner /\ [Settled EXCEPT !.tc = Count, !.pause = FALSE, !.sync = TRUE].owner = src.owner
  BY DEF Settled, IInv, Types, Sources
<1>3. CASE ReadRechecks(c)
  <2>1. /\ ops[c] = "client" /\ Disconnect(c)
        /\ UNCHANGED <<ops, det, tree, rs, connecting>>
    BY <1>3 DEF ReadRechecks, Checked, Now, updvars
  <2>2. Stays
    BY <1>2, <1>3, <2>1 DEF Stays, SameDetails, ReadRechecks
  <2>3. Counted'
    BY <2>1, Disconnected DEF IInv
  <2> QED
    BY <2>2, <2>3, StaysKept DEF IInv
<1>4. CASE ReadRestarts(c)
  <2>1. /\ ops[c] = "client" /\ Disconnect(c) /\ ops' = [ops EXCEPT ![c] = "init"]
        /\ UNCHANGED <<det, tree, connecting>> /\ src' = Settled
    BY <1>4 DEF ReadRestarts, Checked, Now, updvars
  <2>2. ops'[c] = "init" /\ \A b \in RClient \ {c} : ops'[b] = ops[b]
    BY <2>1, OneMoves DEF IInv, Places
  <2>3. PICK skip : rs' = [rs EXCEPT ![det[c]].skip = skip]
    <3>1. \E F \in BOOLEAN : rs' = [rs EXCEPT ![det[c]].skip = IF F THEN {} ELSE @]
      <4> DEFINE F == \/ ~Restarts(c)
                      \/ ondemand /\ Count = 0 /\ (rs[det[c]].host + 1) \in Host
      <4>1. rs' = [rs EXCEPT ![det[c]].skip = IF F THEN {} ELSE @] /\ F \in BOOLEAN
        BY <1>4 DEF ReadRestarts
      <4> HIDE DEF F
      <4> QED
        BY <4>1
    <3> QED
      BY <3>1
  <2>4. SameDetails
    BY <1>1, <2>3, DetailsStay DEF IInv, Structs
  <2>5. Stays
    BY <1>2, <2>1, <2>2, <2>4 DEF Stays
  <2>6. Counted'
    BY <2>1, <2>2, Disconnected DEF IInv
  <2> QED
    BY <2>5, <2>6, StaysKept DEF IInv
<1>5. CASE ReadEnds(c)
  <2>1. /\ ops[c] = "client" /\ Disconnect(c) /\ ops' = [ops EXCEPT ![c] = "release"]
        /\ connecting' = connecting
    BY <1>5 DEF ReadEnds, Checked, Now
  <2>2. ops'[c] = "release" /\ \A b \in RClient \ {c} : ops'[b] = ops[b]
    BY <2>1, OneMoves DEF IInv, Places
  <2>3. Counted'
    BY <2>1, <2>2, Disconnected DEF IInv
  <2> QED
    BY <1>5, <2>3, EndsKept DEF IInv
<1>6. CASE Release(c)
  <2>1. /\ ops[c] = "release" /\ ops' = [ops EXCEPT ![c] = "none"]
        /\ UNCHANGED <<contime, sources, connecting>>
    BY <1>6 DEF Release
  <2>2. ops'[c] = "none" /\ \A b \in RClient \ {c} : ops'[b] = ops[b]
    BY <2>1, OneMoves DEF IInv, Places
  <2>3. c \notin contime
    BY <2>1 DEF IInv, Counted
  <2>4. \A b \in RClient : ops'[b] = "thread" <=> ops[b] = "thread"
    BY <2>1, <2>2
  <2>5. \A b \in contime : ops'[b] \in {"thread", "client"}
    BY <2>2, <2>3 DEF IInv, Counted, Types
  <2>6. Counted'
    BY <2>1, <2>4, <2>5, CountsFramed DEF IInv
  <2> QED
    BY <1>6, <2>6, ReleaseKept DEF IInv
<1> QED
  BY <1>3, <1>4, <1>5, <1>6

-----------------------------------------------------------------------------
\* The counts, the details and the source are right after every step that
\* starts from a state in which they are.
LEMMA Inductive ==
  ASSUME Settings, IInv, [Next]_vars
  PROVE  IInv'
<1>1. CASE UNCHANGED vars
  BY <1>1 DEF vars, IInv, Types, Pointers, Owned, Linked, InTree, ListedServed, Leaving,
     Sourced, Counted, Threads
<1>2. ASSUME NEW t \in 0 .. MaxClock,
             \/ UpdateRelays(t) \/ UpdateWithout(t)
             \/ \E listed, ok \in BOOLEAN : StreamList(t, listed, ok)
      PROVE  IInv'
  BY <1>2, UpdateKept
<1>3. CASE (\E on \in BOOLEAN : ManageRelay(on)) \/ Halt \/ \E c \in RClient : GetDetails(c)
  BY <1>3, SlaveKept
<1>4. ASSUME NEW c \in RClient,
             \/ InitialiseWaits(c) \/ Initialise(c)
             \/ StartupStops(c) \/ StartupWaits(c) \/ Startup(c)
             \/ ThreadBegin(c) \/ HostConnects(c) \/ ThreadFails(c)
             \/ \E skip \in BOOLEAN : HostFails(c, skip)
      PROVE  IInv'
  <2>1. Types'
    BY <1>4, ClientTypes DEF IInv
  <2>2. Pointers' /\ Sourced' /\ Counted'
    BY <1>4, WaitsKept, InitialiseKept, StartupKept, BeginKept, ThreadKept
  <2> QED
    BY <2>1, <2>2 DEF IInv
<1>5. ASSUME NEW c \in RClient,
             \/ ReadOn(c) \/ ReadStops(c) \/ ReadWaits(c)
             \/ ReadRechecks(c) \/ ReadEnds(c) \/ ReadRestarts(c) \/ Release(c)
      PROVE  IInv'
  <2>1. Types'
    BY <1>5, ReadTypes DEF IInv
  <2>2. Pointers' /\ Sourced' /\ Counted'
    BY <1>5, WaitsKept, StopsKept, CheckedKept
  <2> QED
    BY <2>1, <2>2 DEF IInv
<1>6. ASSUME NEW l \in RListener,
             \/ Join(l) \/ Listen(l) \/ Processed(l) \/ MoveBegins(l) \/ MoveEnds(l)
             \/ Resume(l) \/ Tired(l)
      PROVE  IInv'
  BY <1>6, ListenerKept
<1>7. CASE Next
  BY <1>2, <1>3, <1>4, <1>5, <1>6, <1>7, Zenon DEF Next
<1> QED
  BY <1>1, <1>7

\* What the invariant says of the counters, of the details and of the source.
LEMMA Consequences ==
  ASSUME Settings, IInv
  PROVE  RelaysAccounted
<1>1. /\ IsFiniteSet(contime) /\ Cardinality(contime) <= Cardinality(RClient)
      /\ IsFiniteSet(Threads) /\ Cardinality(Threads) <= Cardinality(RClient)
  BY FS_Subset DEF Settings, Threads, IInv, Types
<1>2. /\ sources \in 0 .. Cardinality(RClient)
      /\ connecting \in 0 .. Cardinality(RClient)
  BY <1>1, FS_CardinalityType DEF Settings, IInv, Counted
<1>3. TypeOK
  BY <1>2 DEF IInv, Types, TypeOK, Structs, Sources, Checks, Heard, Places
<1>4. SourcesBalance /\ ConnectingMatches
  BY DEF SourcesBalance, ConnectingMatches, IInv, Counted, Threads
<1>5. DetailsAlive /\ ListedServed
  BY DEF DetailsAlive, IInv, Pointers, Owned, InTree
<1>6. OneRelayRuns
  BY DEF OneRelayRuns, IInv, Pointers, Owned, Sourced
<1> QED
  BY <1>3, <1>4, <1>5, <1>6 DEF RelaysAccounted

\* Whatever the number of relay clients, of servers and of listeners, through
\* failures, retries, reloads and updates from a master (slave.c): the global
\* counts of sources and of relays that connect are taken back once on every
\* path, no freed relay_server is used, a listed relay has a client, and one
\* relay at a time feeds the source of the mountpoint.
THEOREM RelaysStayAccounted ==
  ASSUME Settings
  PROVE  Spec => []RelaysAccounted
BY Start, Inductive, Consequences, PTL DEF Spec

(* The password file *)
Steps == {"idle", "stat", "open", "install", "use", "lock", "copy", "remove", "rename"}

PasswordTypes ==
    /\ fileP \in P!Files /\ tmp \in P!Files
    /\ users \in [Auth -> (SUBSET User) \cup {None}]
    /\ mtime \in [Auth -> 0 .. MaxSecond]
    /\ writer \in [Auth -> Thread \cup {None}]
    /\ pcP \in [Thread -> Steps]
    /\ onP \in [Thread -> Auth \cup {None}]
    /\ op \in [Thread -> {"none", "auth", "list", "add", "delete"}]
    /\ nameP \in [Thread -> User \cup {None}]
    /\ seen \in [Thread -> 0 .. MaxSecond] /\ readP \in [Thread -> SUBSET User]
    /\ second \in 1 .. MaxSecond /\ calls \in 0 .. MaxCalls
    /\ stamped \subseteq 0 .. MaxSecond /\ reused \subseteq stamped
    /\ overlapP \subseteq Auth /\ crossed \in BOOLEAN
    /\ wanted \subseteq User /\ gone \subseteq User
    /\ cut \subseteq User /\ lost \subseteq User

(* what a thread in a call has with it *)
CallsFit ==
    \A t \in Thread :
        /\ pcP[t] # "idle" => onP[t] \in Auth
        /\ op[t] \in {"add", "delete"} => nameP[t] \in User
        /\ pcP[t] \in {"lock", "copy", "remove", "rename"} => op[t] = "delete"

(* every time that is known of the file is one that its contents had *)
Stamps ==
    /\ fileP.mtime \in stamped \cup {0}
    /\ \A a \in Auth : mtime[a] \in stamped \cup {0}
    /\ \A t \in Thread : seen[t] \in stamped \cup {0}

TempFits ==
    /\ tmp.there => tmp.mtime # 0
    /\ ~tmp.there => tmp.users = {}

Loading(t, a) == pcP[t] = "install" /\ onP[t] = a

(* an authenticator that two threads do not reload at once: the tree it has, *)
(* or is about to be given, is that of the time it notes                     *)
Reloads ==
    \A a \in Auth \ overlapP :
        /\ \A t, u \in Thread : Loading(t, a) /\ Loading(u, a) => t = u
        /\ (fileP.there /\ mtime[a] = fileP.mtime /\ fileP.mtime \notin reused) =>
              /\ \A t \in Thread : Loading(t, a) => readP[t] = fileP.users
              /\ (\A t \in Thread : ~Loading(t, a)) => users[a] \in {None, fileP.users}

(* the one deletion there is: the file has all lines that were not lost until *)
(* it is removed, and the copy has those that were not cut                     *)
Deletions ==
    \/ crossed
    \/ /\ wanted \ lost \subseteq fileP.users \cup tmp.users
       /\ \A u \in gone : Stem[u] = u => u \notin fileP.users
       /\ \A t \in Thread : pcP[t] = "copy" => ~tmp.there
       /\ \A t \in Thread : pcP[t] \in {"remove", "rename"} =>
             /\ tmp.there /\ wanted \ (lost \cup cut) \subseteq tmp.users
             /\ pcP[t] = "rename" => cut \subseteq lost
             /\ \A u \in gone \cup {nameP[t]} : Stem[u] = u => u \notin tmp.users
             /\ \A u \in Thread : pcP[u] \in {"copy", "remove", "rename"} => u = t

PasswordInv == PasswordTypes /\ CallsFit /\ Stamps /\ TempFits /\ Reloads /\ Deletions

LEMMA FileFields == ASSUME NEW f \in P!Files
    PROVE f.there \in BOOLEAN /\ f.users \subseteq User /\ f.mtime \in 0 .. MaxSecond
  BY DEF P!Files

LEMMA FileMade ==
    /\ P!Missing \in P!Files
    /\ \A us \in SUBSET User, m \in 0 .. MaxSecond : P!Written(us, m) \in P!Files
  BY PasswordSettings DEF P!Settings, P!Files, P!Missing, P!Written

LEMMA PasswordStart == P!Init => PasswordInv
<1> SUFFICES ASSUME P!Init PROVE PasswordInv
  OBVIOUS
<1> USE PasswordSettings DEF P!Settings
<1>1. PasswordTypes
  <2>1. PICK us \in SUBSET User : fileP = P!Written(us, 1) /\ wanted = us
    BY DEF P!Init
  <2>2. fileP \in P!Files /\ tmp \in P!Files /\ fileP.mtime = 1 /\ fileP.users = us
    BY <2>1, FileMade DEF P!Init, P!Written
  <2>3. /\ users \in [Auth -> (SUBSET User) \cup {None}] /\ mtime \in [Auth -> 0 .. MaxSecond]
        /\ writer \in [Auth -> Thread \cup {None}]
    BY <2>2 DEF P!Init
  <2>4. /\ pcP \in [Thread -> Steps] /\ onP \in [Thread -> Auth \cup {None}]
        /\ op \in [Thread -> {"none", "auth", "list", "add", "delete"}]
        /\ nameP \in [Thread -> User \cup {None}]
        /\ seen \in [Thread -> 0 .. MaxSecond] /\ readP \in [Thread -> SUBSET User]
    BY DEF P!Init, Steps
  <2>5. second = 1 /\ calls = 0 /\ crossed \in BOOLEAN
    BY DEF P!Init
  <2>6. /\ stamped \subseteq 0 .. MaxSecond /\ reused \subseteq stamped
        /\ overlapP \subseteq Auth /\ gone \subseteq User
        /\ cut \subseteq User /\ lost \subseteq User
    BY DEF P!Init
  <2> QED
    BY <2>1, <2>2, <2>3, <2>4, <2>5, <2>6, 1 \in 1 .. MaxSecond /\ 0 \in 0 .. MaxCalls DEF PasswordTypes
<1>2. CallsFit /\ Stamps /\ TempFits
  BY DEF P!Init, P!Written, P!Missing, CallsFit, Stamps, TempFits
<1>3. Reloads
  BY DEF P!Init, P!Written, Reloads, Loading
<1>4. Deletions
  BY DEF P!Init, P!Written, P!Missing, Deletions
<1> QED
  BY <1>1, <1>2, <1>3, <1>4 DEF PasswordInv

LEMMA CallKeeps == ASSUME NEW t \in Thread, NEW a \in Auth, NEW o \in {"auth", "list", "add", "delete"},
                    NEW u \in User \cup {None}, o \in {"add", "delete"} => u \in User,
                    PasswordInv, P!Call(t, a, o, u)
    PROVE PasswordInv'
<1> USE PasswordSettings DEF P!Settings, PasswordInv, P!Call, P!Goes, P!Returns, P!AfterRecheck, P!cached, P!history, P!threads
<1>1. PasswordTypes'
  BY DEF PasswordTypes, CallsFit, Steps, P!Files, P!Written, P!Missing, P!Stamp, P!Copied, P!TakenAlong
<1>2. CallsFit'
  BY DEF PasswordTypes, CallsFit, Steps
<1>3. Stamps'
  BY DEF PasswordTypes, Stamps, P!Written, P!Missing, P!Stamp
<1>4. TempFits'
  BY DEF PasswordTypes, TempFits, P!Written, P!Missing
<1>5. Reloads'
  BY DEF PasswordTypes, CallsFit, Reloads, Loading, Stamps, P!Written, P!Missing, P!Stamp, P!Inside
<1>6. Deletions'
  BY DEF PasswordTypes, CallsFit, Deletions, TempFits, P!Written, P!Missing, P!Stamp, P!Deleting, P!Copied, P!TakenAlong
<1> QED
  BY <1>1, <1>2, <1>3, <1>4, <1>5, <1>6

LEMMA RecheckStatKeeps == ASSUME NEW t \in Thread, PasswordInv, P!RecheckStat(t)
    PROVE PasswordInv'
<1> USE PasswordSettings DEF P!Settings, PasswordInv, P!RecheckStat, P!Goes, P!Returns, P!AfterRecheck, P!cached, P!history, P!threads
<1>1. PasswordTypes'
  BY DEF PasswordTypes, CallsFit, Steps, P!Files, P!Written, P!Missing, P!Stamp, P!Copied, P!TakenAlong
<1>2. CallsFit'
  BY DEF PasswordTypes, CallsFit, Steps
<1>3. Stamps'
  BY DEF PasswordTypes, Stamps, P!Written, P!Missing, P!Stamp
<1>4. TempFits'
  BY DEF PasswordTypes, TempFits, P!Written, P!Missing
<1>5. Reloads'
  <2>1. \A u \in Thread, a \in Auth : Loading(u, a)' <=> Loading(u, a)
    BY DEF PasswordTypes, CallsFit, Loading
  <2>2. UNCHANGED <<fileP, mtime, reused, overlapP>>
    OBVIOUS
  <2>3. \A u \in Thread, a \in Auth : Loading(u, a) => readP'[u] = readP[u]
    BY DEF PasswordTypes, Loading
  <2>4. \A a \in Auth : fileP.there => users'[a] = users[a]
    BY DEF PasswordTypes
  <2> HIDE DEF P!RecheckStat, P!Goes, P!Returns, P!AfterRecheck, P!cached, P!history, P!threads,
               PasswordInv
  <2> QED
    BY <2>1, <2>2, <2>3, <2>4 DEF PasswordInv, Reloads
<1>6. Deletions'
  BY DEF PasswordTypes, CallsFit, Deletions, TempFits, P!Written, P!Missing, P!Stamp, P!Deleting, P!Copied, P!TakenAlong
<1> QED
  BY <1>1, <1>2, <1>3, <1>4, <1>5, <1>6

LEMMA RecheckOpenFailsKeeps == ASSUME NEW t \in Thread, PasswordInv, P!RecheckOpenFails(t)
    PROVE PasswordInv'
<1> USE PasswordSettings DEF P!Settings, PasswordInv, P!RecheckOpenFails, P!Goes, P!Returns, P!AfterRecheck, P!cached, P!history, P!threads
<1>1. PasswordTypes'
  BY DEF PasswordTypes, CallsFit, Steps, P!Files, P!Written, P!Missing, P!Stamp, P!Copied, P!TakenAlong
<1>2. CallsFit'
  BY DEF PasswordTypes, CallsFit, Steps
<1>3. Stamps'
  BY DEF PasswordTypes, Stamps, P!Written, P!Missing, P!Stamp
<1>4. TempFits'
  BY DEF PasswordTypes, TempFits, P!Written, P!Missing
<1>5. Reloads'
  BY DEF PasswordTypes, CallsFit, Reloads, Loading, Stamps, P!Written, P!Missing, P!Stamp, P!Inside
<1>6. Deletions'
  BY DEF PasswordTypes, CallsFit, Deletions, TempFits, P!Written, P!Missing, P!Stamp, P!Deleting, P!Copied, P!TakenAlong
<1> QED
  BY <1>1, <1>2, <1>3, <1>4, <1>5, <1>6

LEMMA RecheckReadKeeps == ASSUME NEW t \in Thread, PasswordInv, P!RecheckRead(t)
    PROVE PasswordInv'
<1> USE PasswordSettings DEF P!Settings, PasswordInv, P!RecheckRead, P!Goes, P!Returns, P!AfterRecheck, P!cached, P!history, P!threads
<1>1. PasswordTypes'
  <2>1. onP[t] \in Auth /\ fileP.users \subseteq User /\ seen[t] \in 0 .. MaxSecond
    BY FileFields DEF PasswordTypes, CallsFit
  <2>2. mtime' \in [Auth -> 0 .. MaxSecond] /\ readP' \in [Thread -> SUBSET User]
    BY <2>1 DEF PasswordTypes, P!Believed
  <2>3. overlapP' \subseteq Auth
    BY <2>1 DEF PasswordTypes
  <2> QED
    BY <2>2, <2>3 DEF PasswordTypes, Steps
<1>2. CallsFit'
  BY DEF PasswordTypes, CallsFit, Steps
<1>3. Stamps'
  <2>1. onP[t] \in Auth /\ \A a \in Auth : mtime'[a] = IF a = onP[t] THEN seen[t] ELSE mtime[a]
    BY DEF PasswordTypes, CallsFit, P!Believed
  <2> QED
    BY <2>1 DEF Stamps
<1>4. TempFits'
  BY DEF PasswordTypes, TempFits, P!Written, P!Missing
<1>5. Reloads'
  BY DEF PasswordTypes, CallsFit, Reloads, Loading, Stamps, P!Written, P!Missing, P!Stamp, P!Inside
<1>6. Deletions'
  BY DEF PasswordTypes, CallsFit, Deletions, TempFits, P!Written, P!Missing, P!Stamp, P!Deleting, P!Copied, P!TakenAlong
<1> QED
  BY <1>1, <1>2, <1>3, <1>4, <1>5, <1>6

LEMMA RecheckInstallKeeps == ASSUME NEW t \in Thread, PasswordInv, P!RecheckInstall(t)
    PROVE PasswordInv'
<1> USE PasswordSettings DEF P!Settings, PasswordInv, P!RecheckInstall, P!Goes, P!Returns, P!AfterRecheck, P!cached, P!history, P!threads
<1>1. PasswordTypes'
  BY DEF PasswordTypes, CallsFit, Steps, P!Files, P!Written, P!Missing, P!Stamp, P!Copied, P!TakenAlong
<1>2. CallsFit'
  BY DEF PasswordTypes, CallsFit, Steps
<1>3. Stamps'
  BY DEF PasswordTypes, Stamps, P!Written, P!Missing, P!Stamp
<1>4. TempFits'
  BY DEF PasswordTypes, TempFits, P!Written, P!Missing
<1>5. Reloads'
  <2>1. \A u \in Thread, a \in Auth : Loading(u, a)' <=> Loading(u, a) /\ u # t
    BY DEF PasswordTypes, CallsFit, Loading
  <2>2. UNCHANGED <<fileP, mtime, reused, overlapP>>
    OBVIOUS
  <2>3. \A u \in Thread : u # t => readP'[u] = readP[u]
    BY DEF PasswordTypes
  <2>4. /\ onP[t] \in Auth /\ Loading(t, onP[t]) /\ users'[onP[t]] = readP[t]
        /\ \A a \in Auth : a # onP[t] => users'[a] = users[a] /\ ~Loading(t, a)
    BY DEF PasswordTypes, CallsFit, Loading
  <2> HIDE DEF P!RecheckInstall, P!Goes, P!Returns, P!AfterRecheck, P!cached, P!history,
               P!threads, PasswordInv
  <2> QED
    BY <2>1, <2>2, <2>3, <2>4 DEF PasswordInv, Reloads
<1>6. Deletions'
  BY DEF PasswordTypes, CallsFit, Deletions, TempFits, P!Written, P!Missing, P!Stamp, P!Deleting, P!Copied, P!TakenAlong
<1> QED
  BY <1>1, <1>2, <1>3, <1>4, <1>5, <1>6

LEMMA LookupKeeps == ASSUME NEW t \in Thread, PasswordInv, P!Lookup(t)
    PROVE PasswordInv'
<1> USE PasswordSettings DEF P!Settings, PasswordInv, P!Lookup, P!Goes, P!Returns, P!AfterRecheck, P!cached, P!history, P!threads
<1>1. PasswordTypes'
  BY DEF PasswordTypes, CallsFit, Steps, P!Files, P!Written, P!Missing, P!Stamp, P!Copied, P!TakenAlong
<1>2. CallsFit'
  BY DEF PasswordTypes, CallsFit, Steps
<1>3. Stamps'
  BY DEF PasswordTypes, Stamps, P!Written, P!Missing, P!Stamp
<1>4. TempFits'
  BY DEF PasswordTypes, TempFits, P!Written, P!Missing
<1>5. Reloads'
  BY DEF PasswordTypes, CallsFit, Reloads, Loading, Stamps, P!Written, P!Missing, P!Stamp, P!Inside
<1>6. Deletions'
  BY DEF PasswordTypes, CallsFit, Deletions, TempFits, P!Written, P!Missing, P!Stamp, P!Deleting, P!Copied, P!TakenAlong
<1> QED
  BY <1>1, <1>2, <1>3, <1>4, <1>5, <1>6

LEMMA AddUserKeeps == ASSUME NEW t \in Thread, NEW whole \in BOOLEAN, PasswordInv, P!AddUser(t, whole)
    PROVE PasswordInv'
<1> USE PasswordSettings DEF P!Settings, PasswordInv, P!AddUser, P!Goes, P!Returns, P!AfterRecheck, P!cached, P!history, P!threads
<1>1. PasswordTypes'
  <2>1. CASE nameP[t] \in users[onP[t]]
    <3>1. UNCHANGED <<fileP, stamped, reused, overlapP, crossed, wanted, gone, cut, lost>>
      BY <2>1
    <3>2. /\ pcP' \in [Thread -> Steps] /\ onP' \in [Thread -> Auth \cup {None}]
          /\ op' \in [Thread -> {"none", "auth", "list", "add", "delete"}]
          /\ nameP' \in [Thread -> User \cup {None}]
          /\ seen' \in [Thread -> 0 .. MaxSecond] /\ readP' \in [Thread -> SUBSET User]
      BY DEF PasswordTypes, Steps
    <3> QED
      BY <3>1, <3>2 DEF PasswordTypes
  <2>2. CASE nameP[t] \notin users[onP[t]]
    <3>1. nameP[t] \in User /\ fileP.users \subseteq User /\ second \in 0 .. MaxSecond
      BY FileFields DEF PasswordTypes, CallsFit
    <3>2. fileP' \in P!Files
      BY <2>2, <3>1, FileMade DEF PasswordTypes
    <3>3. stamped' \subseteq 0 .. MaxSecond /\ reused' \subseteq stamped'
      BY <2>2, <3>1 DEF PasswordTypes, P!Stamp
    <3>4. /\ wanted' \subseteq User /\ gone' \subseteq User /\ crossed' \in BOOLEAN
          /\ cut' \subseteq User /\ lost' \subseteq User
      BY <2>2, <3>1 DEF PasswordTypes
    <3> QED
      BY <2>2, <3>2, <3>3, <3>4 DEF PasswordTypes, Steps
  <2> QED
    BY <2>1, <2>2
<1>2. CallsFit'
  BY DEF PasswordTypes, CallsFit, Steps
<1>3. Stamps'
  BY DEF PasswordTypes, Stamps, P!Written, P!Missing, P!Stamp
<1>4. TempFits'
  BY DEF PasswordTypes, TempFits, P!Written, P!Missing
<1>5. Reloads'
  BY DEF PasswordTypes, CallsFit, Reloads, Loading, Stamps, P!Written, P!Missing, P!Stamp, P!Inside
<1>6. Deletions'
  <2>1. CASE nameP[t] \in users[onP[t]]
    BY <2>1 DEF PasswordTypes, Deletions
  <2>2. CASE nameP[t] \notin users[onP[t]] /\ ~crossed /\ P!Deleting = {}
    <3> DEFINE added == IF whole THEN {nameP[t]} ELSE {}
    <3>1. /\ fileP'.users = fileP.users \cup added /\ added \subseteq {nameP[t]}
          /\ wanted' = wanted \cup {nameP[t]} /\ gone' = gone \ {nameP[t]}
          /\ lost' = (lost \ added) \cup ({nameP[t]} \ (fileP.users \cup added))
          /\ UNCHANGED tmp
      BY <2>2 DEF P!Written
    <3> HIDE DEF added
    <3>2. /\ wanted' \ lost' \subseteq fileP'.users \cup tmp'.users
          /\ \A u \in gone' : Stem[u] = u => u \notin fileP'.users
      BY <2>2, <3>1 DEF Deletions
    <3>3. \A u \in Thread : pcP'[u] \notin {"copy", "remove", "rename"}
      BY <2>2 DEF PasswordTypes, P!Deleting
    <3> QED
      BY <3>2, <3>3 DEF Deletions
  <2>3. CASE nameP[t] \notin users[onP[t]] /\ (crossed \/ P!Deleting # {})
    BY <2>3 DEF PasswordTypes, Deletions
  <2> QED
    BY <2>1, <2>2, <2>3
<1> QED
  BY <1>1, <1>2, <1>3, <1>4, <1>5, <1>6

LEMMA AddFailsKeeps == ASSUME NEW t \in Thread, PasswordInv, P!AddFails(t)
    PROVE PasswordInv'
<1> USE PasswordSettings DEF P!Settings, PasswordInv, P!AddFails, P!Goes, P!Returns, P!AfterRecheck, P!cached, P!history, P!threads
<1>1. PasswordTypes'
  BY DEF PasswordTypes, CallsFit, Steps, P!Files, P!Written, P!Missing, P!Stamp, P!Copied, P!TakenAlong
<1>2. CallsFit'
  BY DEF PasswordTypes, CallsFit, Steps
<1>3. Stamps'
  BY DEF PasswordTypes, Stamps, P!Written, P!Missing, P!Stamp
<1>4. TempFits'
  BY DEF PasswordTypes, TempFits, P!Written, P!Missing
<1>5. Reloads'
  BY DEF PasswordTypes, CallsFit, Reloads, Loading, Stamps, P!Written, P!Missing, P!Stamp, P!Inside
<1>6. Deletions'
  BY DEF PasswordTypes, CallsFit, Deletions, TempFits, P!Written, P!Missing, P!Stamp, P!Deleting, P!Copied, P!TakenAlong
<1> QED
  BY <1>1, <1>2, <1>3, <1>4, <1>5, <1>6

LEMMA DeleteCheckKeeps == ASSUME NEW t \in Thread, PasswordInv, P!DeleteCheck(t)
    PROVE PasswordInv'
<1> USE PasswordSettings DEF P!Settings, PasswordInv, P!DeleteCheck, P!Goes, P!Returns, P!AfterRecheck, P!cached, P!history, P!threads
<1>1. PasswordTypes'
  BY DEF PasswordTypes, CallsFit, Steps, P!Files, P!Written, P!Missing, P!Stamp, P!Copied, P!TakenAlong
<1>2. CallsFit'
  BY DEF PasswordTypes, CallsFit, Steps
<1>3. Stamps'
  BY DEF PasswordTypes, Stamps, P!Written, P!Missing, P!Stamp
<1>4. TempFits'
  BY DEF PasswordTypes, TempFits, P!Written, P!Missing
<1>5. Reloads'
  BY SMTT(30) DEF PasswordTypes, CallsFit, Reloads, Loading, Stamps, P!Written, P!Missing, P!Stamp, P!Inside
<1>6. Deletions'
  BY DEF PasswordTypes, CallsFit, Deletions, TempFits, P!Written, P!Missing, P!Stamp, P!Deleting, P!Copied, P!TakenAlong
<1> QED
  BY <1>1, <1>2, <1>3, <1>4, <1>5, <1>6

LEMMA DeleteCopyKeeps == ASSUME NEW t \in Thread, PasswordInv, P!DeleteCopy(t)
    PROVE PasswordInv'
<1> USE PasswordSettings DEF P!Settings, PasswordInv, P!DeleteCopy, P!Goes, P!Returns, P!AfterRecheck, P!cached, P!history, P!threads
<1>1. PasswordTypes'
  BY DEF PasswordTypes, CallsFit, Steps, P!Files, P!Written, P!Missing, P!Stamp, P!Copied, P!TakenAlong
<1>2. CallsFit'
  BY DEF PasswordTypes, CallsFit, Steps
<1>3. Stamps'
  BY DEF PasswordTypes, Stamps, P!Written, P!Missing, P!Stamp
<1>4. TempFits'
  BY DEF PasswordTypes, TempFits, P!Written, P!Missing
<1>5. Reloads'
  BY DEF PasswordTypes, CallsFit, Reloads, Loading, Stamps, P!Written, P!Missing, P!Stamp, P!Inside
<1>6. Deletions'
  <2> SUFFICES ASSUME ~crossed, P!Deleting = {t} PROVE Deletions'
    BY DEF Deletions
  <2>1. PICK fails \in SUBSET P!Copied(t) :
           tmp' = P!Written(P!Copied(t) \ fails, second) /\ cut' = fails \cup P!TakenAlong(t)
    OBVIOUS
  <2>2. /\ tmp'.there /\ tmp'.users = P!Copied(t) \ fails
        /\ ~tmp.there /\ tmp.users = {}
    BY <2>1 DEF P!Written, Deletions, TempFits
  <2>3. fileP.users = P!Copied(t) \cup P!TakenAlong(t) \cup (fileP.users \cap {nameP[t]})
    BY DEF P!Copied, P!TakenAlong
  <2>4. /\ wanted \ lost \subseteq fileP.users
        /\ \A u \in gone : Stem[u] = u => u \notin fileP.users
    BY <2>2 DEF Deletions
  <2>5. wanted' \ (lost' \cup cut') \subseteq tmp'.users /\ wanted' \ lost' \subseteq fileP'.users
    BY <2>1, <2>2, <2>3, <2>4
  <2>6. \A u \in gone' \cup {nameP'[t]} : Stem[u] = u => u \notin tmp'.users
    BY <2>2, <2>4 DEF P!Copied
  <2>7. /\ pcP'[t] = "remove"
        /\ \A u \in Thread : pcP'[u] \in {"copy", "remove", "rename"} => u = t
    BY DEF PasswordTypes, P!Deleting
  <2>8. gone' = gone /\ fileP' = fileP
    OBVIOUS
  <2> HIDE DEF P!DeleteCopy, PasswordInv, P!Goes, P!cached, P!history, P!threads
  <2> QED
    BY <2>2, <2>4, <2>5, <2>6, <2>7, <2>8 DEF Deletions
<1> QED
  BY <1>1, <1>2, <1>3, <1>4, <1>5, <1>6

LEMMA DeleteRemoveKeeps == ASSUME NEW t \in Thread, PasswordInv, P!DeleteRemove(t)
    PROVE PasswordInv'
<1> USE PasswordSettings DEF P!Settings, PasswordInv, P!DeleteRemove, P!Goes, P!Returns, P!AfterRecheck, P!cached, P!history, P!threads
<1>1. PasswordTypes'
  <2>1. onP[t] \in Auth /\ fileP' \in P!Files
    BY FileMade DEF PasswordTypes, CallsFit
  <2>2. writer' \in [Auth -> Thread \cup {None}]
    BY <2>1 DEF PasswordTypes
  <2> QED
    BY <2>1, <2>2 DEF PasswordTypes, Steps
<1>2. CallsFit'
  BY DEF PasswordTypes, CallsFit, Steps
<1>3. Stamps'
  BY DEF PasswordTypes, Stamps, P!Written, P!Missing, P!Stamp
<1>4. TempFits'
  BY DEF PasswordTypes, TempFits, P!Written, P!Missing
<1>5. Reloads'
  BY DEF PasswordTypes, CallsFit, Reloads, Loading, Stamps, P!Written, P!Missing, P!Stamp, P!Inside
<1>6. Deletions'
  BY DEF PasswordTypes, CallsFit, Deletions, TempFits, P!Written, P!Missing, P!Stamp, P!Deleting, P!Copied, P!TakenAlong
<1> QED
  BY <1>1, <1>2, <1>3, <1>4, <1>5, <1>6

LEMMA DeleteRenameKeeps == ASSUME NEW t \in Thread, NEW moved \in BOOLEAN, PasswordInv, P!DeleteRename(t, moved)
    PROVE PasswordInv'
<1> USE PasswordSettings DEF P!Settings, PasswordInv, P!DeleteRename, P!Goes, P!KeptTemp
<1>1. PasswordTypes'
  <2>1. /\ onP[t] \in Auth /\ nameP[t] \in User
        /\ fileP' \in P!Files /\ tmp' \in P!Files /\ tmp.mtime \in 0 .. MaxSecond
    BY FileMade, FileFields DEF PasswordTypes, CallsFit
  <2>2. writer' \in [Auth -> Thread \cup {None}] /\ pcP' \in [Thread -> Steps]
    BY <2>1 DEF PasswordTypes, Steps
  <2>3. stamped' \subseteq 0 .. MaxSecond /\ reused' \subseteq stamped' /\ gone' \subseteq User
    BY <2>1 DEF PasswordTypes, P!Stamp
  <2> QED
    BY <2>1, <2>2, <2>3 DEF PasswordTypes
<1>2. CallsFit'
  BY DEF PasswordTypes, CallsFit, Steps
<1>3. Stamps'
  BY DEF PasswordTypes, Stamps, P!Stamp
<1>4. TempFits'
  BY DEF PasswordTypes, TempFits, P!Missing
<1>5. Reloads'
  BY DEF PasswordTypes, CallsFit, Reloads, Loading, Stamps, TempFits, P!Stamp
<1>6. Deletions'
  BY DEF PasswordTypes, CallsFit, Deletions, TempFits, P!Missing
<1> QED
  BY <1>1, <1>2, <1>3, <1>4, <1>5, <1>6

LEMMA ConfigureKeeps == ASSUME NEW a \in Auth, NEW readable \in BOOLEAN, PasswordInv, P!Configure(a, readable)
    PROVE PasswordInv'
<1> USE PasswordSettings DEF P!Settings, PasswordInv, P!Configure, P!threads
<1>1. PasswordTypes'
  <2>1. fileP.users \subseteq User /\ fileP.mtime \in 0 .. MaxSecond
    BY FileFields DEF PasswordTypes
  <2> QED
    BY <2>1 DEF PasswordTypes
<1>2. CallsFit' /\ TempFits' /\ Deletions'
  BY DEF CallsFit, TempFits, Deletions
<1>3. Stamps'
  BY DEF PasswordTypes, Stamps
<1>4. Reloads'
  BY DEF PasswordTypes, Reloads, Loading, P!Inside
<1> QED
  BY <1>1, <1>2, <1>3, <1>4

LEMMA RestartKeeps == ASSUME PasswordInv, P!Restart PROVE PasswordInv'
<1> USE PasswordSettings DEF P!Settings, PasswordInv, P!Restart
<1>1. PasswordTypes'
  <2>1. fileP.users \subseteq User /\ fileP.mtime \in 0 .. MaxSecond
    BY FileFields DEF PasswordTypes
  <2> QED
    BY <2>1 DEF PasswordTypes, Steps
<1>2. CallsFit' /\ TempFits'
  BY DEF CallsFit, TempFits
<1>3. Deletions'
  BY DEF Deletions
<1>4. Stamps'
  BY DEF Stamps
<1>5. Reloads'
  BY DEF Reloads, Loading
<1> QED
  BY <1>1, <1>2, <1>3, <1>4, <1>5

LEMMA TickKeeps == ASSUME PasswordInv, P!Tick PROVE PasswordInv'
  BY PasswordSettings DEF P!Settings, PasswordInv, P!Tick, P!cached, P!threads, P!history,
      PasswordTypes, CallsFit, Stamps, TempFits, Reloads, Loading, Deletions

LEMMA PasswordStep == ASSUME PasswordInv, part = "password", MCNext
    PROVE PasswordInv' /\ part' = part
<1>1. part' = part
  BY DEF MCNext, OnlyRelay, OnlyDirectory, OnlyLogs, OnlyPassword
<1>2. P!Next
  BY DEF MCNext, P!Next
<1>3. PasswordInv'
  BY <1>2, CallKeeps, RecheckStatKeeps, RecheckOpenFailsKeeps, RecheckReadKeeps,
     RecheckInstallKeeps, LookupKeeps, AddUserKeeps, AddFailsKeeps, DeleteCheckKeeps,
     DeleteCopyKeeps, DeleteRemoveKeeps, DeleteRenameKeeps, ConfigureKeeps, RestartKeeps,
     TickKeeps DEF P!Next
<1> QED
  BY <1>1, <1>3

LEMMA PasswordStays == ASSUME PasswordInv, UNCHANGED passwordVars PROVE PasswordInv'
  BY DEF passwordVars, PasswordInv, PasswordTypes, CallsFit, Stamps, TempFits, Reloads,
         Loading, Deletions

LEMMA PasswordConsequence == PasswordInv => P!UsersKept
<1> SUFFICES ASSUME PasswordInv PROVE P!UsersKept
  OBVIOUS
<1> USE DEF PasswordInv
<1>1. P!TypeOK
  BY DEF PasswordTypes, P!TypeOK, Steps
<1>2. P!UsersCurrent
  BY DEF P!UsersCurrent, PasswordTypes, Reloads, Loading, P!Inside
<1>3. P!Recoverable /\ P!DeletedGone
  BY DEF Deletions, P!Recoverable, P!DeletedGone, P!Plain
<1> QED
  BY <1>1, <1>2, <1>3 DEF P!UsersKept

UsersInv == part = "password" => PasswordInv

\* Whatever the number of threads, authenticators and users, through failures
\* of open, remove and rename, reloads of the configuration and restarts
\* (auth_htpasswd.c): a table of users that counts as current is, and the file
\* loses no user that was not deleted and regains none that was, but for lines
\* that a failed write lost, names with a colon, and the crossings that
\* UsersKept names.
THEOREM UsersStayKept == MCSpec => []UsersKept
<1>1. MCInit => UsersInv
  BY PasswordStart DEF MCInit, UsersInv
<1>2. UsersInv /\ [MCNext]_allVars => UsersInv'
  <2>1. UsersInv /\ MCNext => UsersInv'
    <3>1. MCNext => part' = part
      BY DEF MCNext, OnlyRelay, OnlyDirectory, OnlyLogs, OnlyPassword
    <3> QED
      BY <3>1, PasswordStep DEF UsersInv
  <2>2. UsersInv /\ UNCHANGED allVars => UsersInv'
    BY PasswordStays DEF UsersInv, allVars
  <2> QED
    BY <2>1, <2>2
<1>3. UsersInv => UsersKept
  BY PasswordConsequence DEF UsersInv, UsersKept
<1> QED
  BY <1>1, <1>2, <1>3, PTL DEF MCSpec


-----------------------------------------------------------------------------
(***************************************************************************)
(* The logs                                                                *)
(***************************************************************************)
Running(r) == pc[r] # "idle"
Printing(r) == pc[r] = "print"

LogTypes ==
    /\ held \in BOOLEAN /\ inUse \in {0, 1, 3}
    /\ lines \in Seq(1 .. MaxLines) /\ badTail \in BOOLEAN
    /\ written \in 0 .. MaxLines /\ keep \in Keeps
    /\ file \in {"none", "open", "stderr"} /\ due \in BOOLEAN
    /\ made \in 0 .. MaxLines /\ out \in 0 .. MaxLines
    /\ signal \in BOOLEAN
    /\ fault \in {"no", "entry", "file", "tail"}
    /\ overlap \in BOOLEAN /\ noOpen \in BOOLEAN
    /\ opens \in 0 .. MaxOpens /\ reopens \in 0 .. MaxReopens

RunTypes ==
    /\ lock \in L!Runner \cup {"none"}
    /\ pc \in [L!Runner -> {"idle", "begin", "loop", "print", "end"}]
    /\ stack \in [L!Runner -> Seq(L!Frame)]
    /\ line \in [L!Runner -> 0 .. MaxLines]
    /\ loop \in [L!Runner -> 0 .. RunLimit] /\ tries \in [L!Runner -> 0 .. CloseRuns]

(* a run has a frame of its own at the bottom of its stack, and its count *)
(* of lines stays below the limit while it goes on                        *)
RunsFit ==
    \A r \in L!Runner :
        /\ Running(r) => stack[r] # <<>> /\ stack[r][Len(stack[r])] # "nested"
        /\ pc[r] \in {"loop", "print"} => loop[r] < RunLimit

(* a thread has the lock between the writes of its run *)
LockHeld == \A r \in L!Runner : lock = r <=> pc[r] \in {"begin", "loop", "end"}

(* the list is the last of the lines that were logged *)
Consecutive ==
    /\ Len(lines) <= made
    /\ \A i \in 1 .. Len(lines) : lines[i] = made - Len(lines) + i

(* while a line is written there is a file, and nobody has closed the log *)
InUse ==
    /\ \A r \in L!Runner : pc[r] \in {"loop", "print"} => inUse # 0
    /\ \A r \in L!Runner : Printing(r) => file # "none"
    /\ lock = "none" /\ inUse = 0 =>
          written = 0 /\ \A r \in L!Runner : ~Running(r)

(* the log of a user who has it is not being closed, unless a file could *)
(* not be opened                                                         *)
HeldOpen ==
    held =>
        /\ ~Running("closer")
        /\ pc["logger"] \in {"loop", "print"} => inUse = 3
        /\ ~noOpen => ~badTail
        /\ ~noOpen /\ Running("logger") => stack["logger"] = <<"commit">>
        /\ ~noOpen /\ pc["logger"] = "end" => inUse = 3
        /\ ~noOpen => inUse # 0

(* the run that there is has come to the line after the last written *)
Ordered ==
    held \/ ~overlap =>
        /\ ~(Running("closer") /\ Running("logger"))
        /\ written # 0 => written \in made - Len(lines) + 1 .. made
        /\ \A r \in L!Runner : Printing(r) => line[r] = out + 1 /\ written = line[r]
        /\ (\A r \in L!Runner : ~Printing(r)) => written \in {0, out}
        /\ \A r \in L!Runner : pc[r] = "loop" /\ line[r] # 0 =>
              line[r] = out + 1 /\ line[r] \in made - Len(lines) + 1 .. made
        /\ (written = 0 /\ (inUse # 0 \/ lock # "none") /\ made - Len(lines) # out) =>
              /\ lines = <<>> /\ lock # "none"
              /\ stack[lock][1] = "close" \/ (pc[lock] = "end" /\ inUse = 0)

Kept == held /\ ~noOpen => made - Len(lines) <= out

LogInv ==
    /\ LogTypes /\ RunTypes /\ RunsFit /\ LockHeld /\ Consecutive /\ HeldOpen /\ Ordered /\ Kept
    /\ fault = "no" => InUse
    /\ L!EntrySafe /\ L!TailSafe

-----------------------------------------------------------------------------
(***************************************************************************)
(* The lines of a log                                                      *)
(***************************************************************************)
LEMMA PurgedRest ==
  ASSUME NEW s \in Seq(Nat), keep \in Nat
  PROVE  \E k \in 0 .. Len(s) :
            /\ L!Purged(s) = SubSeq(s, k + 1, Len(s))
            /\ \A j \in 1 .. k : written # 0 /\ written # s[j]
<1> DEFINE Stops(k) == Len(s) - k <= keep \/ ~L!Pops(SubSeq(s, k + 1, Len(s)))
           S == {k \in 0 .. Len(s) : Stops(k)}
           K == CHOOSE k \in 0 .. Len(s) : Stops(k) /\ \A j \in 0 .. k - 1 : ~Stops(j)
<1>1. Len(s) \in S /\ S \in SUBSET Nat
  OBVIOUS
<1>2. PICK m \in S : \A k \in S : m <= k
  <2>1. PICK m \in S : \A k \in S : <<k, m>> \notin OpToRel(<, Nat)
    BY <1>1, NatLessThanWellFounded, WFMin
  <2>2. ASSUME NEW k \in S PROVE m <= k
    <3>1. k \in Nat /\ m \in Nat
      BY <1>1
    <3>2. ~(k < m)
      BY <2>1, <3>1 DEF OpToRel
    <3> QED
      BY <3>1, <3>2
  <2> QED
    BY <2>2
<1>3. m \in 0 .. Len(s) /\ Stops(m) /\ \A j \in 0 .. m - 1 : ~Stops(j)
  <2>1. m \in 0 .. Len(s) /\ Stops(m)
    OBVIOUS
  <2>2. ASSUME NEW j \in 0 .. m - 1 PROVE ~Stops(j)
    <3>1. j \in 0 .. Len(s) /\ ~(m <= j)
      BY <2>1
    <3>2. j \notin S
      BY <1>2, <3>1
    <3> HIDE DEF Stops
    <3> QED
      BY <3>1, <3>2
  <2> QED
    BY <2>1, <2>2
<1>4. K \in 0 .. Len(s) /\ Stops(K) /\ \A j \in 0 .. K - 1 : ~Stops(j)
  <2> HIDE DEF Stops
  <2> QED
    BY <1>3
<1>5. L!Purged(s) = SubSeq(s, K + 1, Len(s))
  BY DEF L!Purged
<1>6. ASSUME NEW j \in 1 .. K PROVE written # 0 /\ written # s[j]
  <2> HIDE DEF K
  <2>1. j - 1 \in 0 .. K - 1 /\ j \in 1 .. Len(s) /\ j - 1 + 1 = j
    BY <1>4
  <2>2. ~Stops(j - 1)
    <3> HIDE DEF Stops
    <3> QED
      BY <1>4, <2>1
  <2>3. L!Pops(SubSeq(s, j, Len(s)))
    BY <2>1, <2>2
  <2>4. Head(SubSeq(s, j, Len(s))) = s[j]
    BY <2>1
  <2> QED
    BY <2>3, <2>4 DEF L!Pops
<1> HIDE DEF K, Stops
<1> QED
  BY <1>4, <1>5, <1>6

LEMMA LineRange ==
  ASSUME LogTypes, Consecutive, NEW n \in Nat
  PROVE  n \in L!Range(lines) <=> n \in made - Len(lines) + 1 .. made
<1>1. made \in Nat /\ Len(lines) \in Nat /\ DOMAIN lines = 1 .. Len(lines)
  BY LogSettings DEF L!Settings, LogTypes
<1>2. \A i \in 1 .. Len(lines) : lines[i] = made - Len(lines) + i
  BY DEF Consecutive
<1>3. ASSUME n \in made - Len(lines) + 1 .. made PROVE n \in {lines[x] : x \in DOMAIN lines}
  <2>1. n - made + Len(lines) \in 1 .. Len(lines)
    BY <1>1, <1>3
  <2>2. lines[n - made + Len(lines)] = n
    BY <1>1, <1>2, <2>1
  <2> QED
    BY <1>1, <2>1, <2>2
<1>4. ASSUME n \in {lines[x] : x \in DOMAIN lines} PROVE n \in made - Len(lines) + 1 .. made
  BY <1>1, <1>2, <1>4
<1> QED
  BY <1>3, <1>4 DEF L!Range

LEMMA AfterLine ==
  ASSUME LogTypes, Consecutive, NEW n \in made - Len(lines) + 1 .. made
  PROVE  L!After(n) = IF n = made THEN 0 ELSE n + 1
<1>1. made \in Nat /\ Len(lines) \in Nat /\ DOMAIN lines = 1 .. Len(lines)
  BY LogSettings DEF L!Settings, LogTypes
<1>2. \A i \in 1 .. Len(lines) : lines[i] = made - Len(lines) + i
  BY DEF Consecutive
<1> DEFINE place == n - made + Len(lines)
<1>3. place \in 1 .. Len(lines) /\ lines[place] = n /\ place \in Int
  BY <1>1, <1>2
<1>4. \A i \in DOMAIN lines : lines[i] = n => i = place
  BY <1>1, <1>2
<1>5. (CHOOSE i \in DOMAIN lines : lines[i] = n) = place
  <2> HIDE DEF place
  <2> QED
    BY <1>1, <1>3, <1>4
<1>6. (\E i \in DOMAIN lines : lines[i] = n /\ i < Len(lines)) <=> place < Len(lines)
  <2> HIDE DEF place
  <2> QED
    BY <1>1, <1>3, <1>4
<1>7. place < Len(lines) => lines[1 + place] = n + 1
  BY <1>1, <1>2, <1>3
<1>8. place < Len(lines) <=> n # made
  BY <1>1
<1> HIDE DEF place
<1> QED
  BY <1>5, <1>6, <1>7, <1>8 DEF L!After

LEMMA LineTyped ==
  ASSUME LogTypes, NEW i \in 1 .. Len(lines)
  PROVE  lines[i] \in 0 .. MaxLines
  BY LogSettings DEF L!Settings, LogTypes

LEMMA AfterRange ==
  ASSUME LogTypes, Consecutive, NEW n \in Nat
  PROVE  L!After(n) = IF n \in made - Len(lines) + 1 .. made - 1 THEN n + 1 ELSE 0
<1>1. made \in Nat /\ Len(lines) \in Nat /\ DOMAIN lines = 1 .. Len(lines)
  BY LogSettings DEF L!Settings, LogTypes
<1>2. CASE n \in made - Len(lines) + 1 .. made
  BY <1>1, <1>2, AfterLine
<1>3. CASE n \notin made - Len(lines) + 1 .. made
  <2>1. \A i \in DOMAIN lines : lines[i] # n
    BY <1>1, <1>3 DEF Consecutive
  <2> QED
    BY <1>1, <1>3, <2>1 DEF L!After
<1> QED
  BY <1>2, <1>3

LEMMA FirstRange ==
  ASSUME LogTypes, Consecutive
  PROVE  L!FirstLine = IF lines = <<>> THEN 0 ELSE made - Len(lines) + 1
  BY LogSettings DEF L!Settings, LogTypes, Consecutive, L!FirstLine

\* What is left of a list when its first k elements are purged.
LEMMA RestOf ==
  ASSUME NEW T, NEW s \in Seq(T), NEW k \in 0 .. Len(s)
  PROVE  /\ SubSeq(s, k + 1, Len(s)) \in Seq(T)
         /\ Len(SubSeq(s, k + 1, Len(s))) = Len(s) - k
         /\ \A i \in 1 .. Len(s) - k : SubSeq(s, k + 1, Len(s))[i] = s[k + i]
<1> DEFINE r == SubSeq(s, k + 1, Len(s))
           n == Len(s)
<1>1. n \in Nat /\ k \in Nat /\ k <= n /\ DOMAIN s = 1 .. n /\ \A i \in 1 .. n : s[i] \in T
  OBVIOUS
<1>2. r = [i \in 1 .. n - k |-> s[k + i]]
  OBVIOUS
<1>3. n - k \in Nat /\ \A i \in 1 .. n - k : k + i \in 1 .. n
  <2> HIDE DEF n
  <2> QED
    BY <1>1
<1> HIDE DEF n, r
<1>4. r \in [1 .. n - k -> T]
  BY <1>1, <1>2, <1>3
<1>5. r \in Seq(T) /\ Len(r) = n - k
  BY <1>3, <1>4
<1> QED
  BY <1>2, <1>5 DEF r, n

LEMMA Appended ==
  ASSUME LogTypes, Consecutive, made < MaxLines
  PROVE  \E k \in 0 .. Len(lines) + 1 :
            /\ L!Purged(Append(lines, made + 1)) \in Seq(1 .. MaxLines)
            /\ Len(L!Purged(Append(lines, made + 1))) = Len(lines) + 1 - k
            /\ \A i \in 1 .. Len(lines) + 1 - k :
                  L!Purged(Append(lines, made + 1))[i] = made - Len(lines) + k + i
            /\ written = 0 => k = 0
            /\ written \in made - Len(lines) + 1 .. made => made - Len(lines) + k < written
<1> DEFINE s == Append(lines, made + 1)
<1>1. /\ made \in Nat /\ Len(lines) \in Nat /\ keep \in Nat /\ MaxLines \in Nat
      /\ lines \in Seq(1 .. MaxLines)
  BY LogSettings DEF L!Settings, LogTypes
<1>2. s \in Seq(1 .. MaxLines) /\ Len(s) = Len(lines) + 1
  BY <1>1
<1>3. \A i \in 1 .. Len(lines) + 1 : s[i] = made - Len(lines) + i
  BY <1>1 DEF Consecutive
<1>4. s \in Seq(Nat)
  BY <1>1
<1> HIDE DEF s
<1>5. PICK k \in 0 .. Len(s) :
          /\ L!Purged(s) = SubSeq(s, k + 1, Len(s))
          /\ \A j \in 1 .. k : written # 0 /\ written # s[j]
  BY <1>1, <1>4, PurgedRest
<1>6. k \in 0 .. Len(lines) + 1
  BY <1>2
<1>7. /\ L!Purged(s) \in Seq(1 .. MaxLines) /\ Len(L!Purged(s)) = Len(lines) + 1 - k
      /\ \A i \in 1 .. Len(lines) + 1 - k : L!Purged(s)[i] = s[k + i]
  <2> DEFINE r == SubSeq(s, k + 1, Len(s))
  <2>1. /\ r \in Seq(1 .. MaxLines) /\ Len(r) = Len(s) - k
        /\ \A i \in 1 .. Len(s) - k : r[i] = s[k + i]
    BY <1>2, RestOf
  <2>2. L!Purged(s) = r
    BY <1>5
  <2> HIDE DEF r
  <2> QED
    BY <1>2, <2>1, <2>2
<1>8. \A i \in 1 .. Len(lines) + 1 - k : L!Purged(s)[i] = made - Len(lines) + k + i
  BY <1>1, <1>3, <1>6, <1>7
<1>9. written = 0 => k = 0
  BY <1>5, <1>6
<1>10. ASSUME written \in made - Len(lines) + 1 .. made
       PROVE  made - Len(lines) + k < written
  <2>1. written - (made - Len(lines)) \in 1 .. Len(lines)
    BY <1>1, <1>10
  <2>2. s[written - (made - Len(lines))] = written
    BY <1>1, <1>3, <1>10, <2>1
  <2>3. ~(written - (made - Len(lines)) \in 1 .. k)
    BY <1>5, <2>2
  <2> QED
    BY <1>1, <1>6, <1>10, <2>1, <2>3
<1> QED
  BY <1>6, <1>7, <1>8, <1>9, <1>10 DEF s

LEMMA SetMade ==
  ASSUME RunTypes, NEW r \in L!Runner, NEW p \in {"idle", "begin", "loop", "print", "end"},
         NEW s \in Seq(L!Frame), NEW l \in 0 .. MaxLines, NEW n \in 0 .. RunLimit,
         L!Set(r, p, s, l, n)
  PROVE  /\ pc' \in [L!Runner -> {"idle", "begin", "loop", "print", "end"}]
         /\ stack' \in [L!Runner -> Seq(L!Frame)]
         /\ line' \in [L!Runner -> 0 .. MaxLines] /\ loop' \in [L!Runner -> 0 .. RunLimit]
         /\ pc'[r] = p /\ stack'[r] = s /\ line'[r] = l /\ loop'[r] = n
         /\ \A q \in L!Runner : q # r =>
                /\ pc'[q] = pc[q] /\ stack'[q] = stack[q] /\ line'[q] = line[q]
                /\ loop'[q] = loop[q]
<1> USE DEF L!Set
<1>1. pc' \in [L!Runner -> {"idle", "begin", "loop", "print", "end"}]
  BY DEF RunTypes
<1>2. stack' \in [L!Runner -> Seq(L!Frame)]
  BY DEF RunTypes
<1>3. line' \in [L!Runner -> 0 .. MaxLines] /\ loop' \in [L!Runner -> 0 .. RunLimit]
  BY DEF RunTypes
<1>4. pc'[r] = p /\ stack'[r] = s /\ line'[r] = l /\ loop'[r] = n
  BY DEF RunTypes
<1>5. \A q \in L!Runner : q # r =>
          /\ pc'[q] = pc[q] /\ stack'[q] = stack[q] /\ line'[q] = line[q]
          /\ loop'[q] = loop[q]
  BY DEF RunTypes
<1> QED
  BY <1>1, <1>2, <1>3, <1>4, <1>5

LEMMA OneFrame ==
  ASSUME NEW x
  PROVE  <<x>> # <<>> /\ <<x>>[Len(<<x>>)] = x /\ <<x>>[1] = x
  OBVIOUS

LEMMA Returned ==
  ASSUME RunTypes, NEW r \in L!Runner, NEW s \in Seq(L!Frame), L!Returns(r, s)
  PROVE  /\ pc' \in [L!Runner -> {"idle", "begin", "loop", "print", "end"}]
         /\ stack' \in [L!Runner -> Seq(L!Frame)]
         /\ line' \in [L!Runner -> 0 .. MaxLines] /\ loop' \in [L!Runner -> 0 .. RunLimit]
         /\ \A q \in L!Runner : q # r =>
                /\ pc'[q] = pc[q] /\ stack'[q] = stack[q] /\ line'[q] = line[q]
                /\ loop'[q] = loop[q]
         /\ \/ /\ s # <<>> /\ Head(s) = "nested" /\ pc'[r] = "end" /\ stack'[r] = Tail(s)
               /\ lock' = lock
            \/ /\ s # <<>> /\ Head(s) = "close" /\ pc'[r] = "begin" /\ stack'[r] = s
               /\ lock' = lock
            \/ pc'[r] = "idle" /\ lock' = "none"
<1>1. 0 \in 0 .. MaxLines /\ 0 \in 0 .. RunLimit /\ 1 \in 0 .. RunLimit
  BY LogSettings DEF L!Settings
<1>2. <<>> \in Seq(L!Frame) /\ (s # <<>> => Tail(s) \in Seq(L!Frame))
  OBVIOUS
<1>3. CASE s # <<>> /\ Head(s) = "nested"
  <2>1. L!Set(r, "end", Tail(s), 0, 1) /\ lock' = lock
    BY <1>3 DEF L!Returns
  <2> QED
    BY <1>1, <1>2, <1>3, <2>1, SetMade
<1>4. CASE s # <<>> /\ Head(s) = "close"
  <2>1. L!Set(r, "begin", s, 0, 0) /\ lock' = lock
    BY <1>4 DEF L!Returns
  <2> QED
    BY <1>1, <1>2, <1>4, <2>1, SetMade
<1>5. CASE ~(s # <<>> /\ Head(s) = "nested") /\ ~(s # <<>> /\ Head(s) = "close")
  <2>1. L!Set(r, "idle", <<>>, 0, 0) /\ lock' = "none"
    BY <1>5 DEF L!Returns
  <2> QED
    BY <1>1, <1>2, <2>1, SetMade
<1> QED
  BY <1>3, <1>4, <1>5

LEMMA TailFits ==
  ASSUME NEW s \in Seq(L!Frame), s # <<>>, s[Len(s)] # "nested"
  PROVE  /\ Head(s) = "nested" => Tail(s) # <<>>
         /\ Tail(s) # <<>> => Tail(s)[Len(Tail(s))] # "nested"
<1>1. Len(s) \in Nat \ {0} /\ Head(s) = s[1]
  OBVIOUS
<1>2. /\ Tail(s) \in Seq(L!Frame) /\ Len(Tail(s)) = Len(s) - 1
      /\ \A i \in 1 .. Len(s) - 1 : Tail(s)[i] = s[i + 1]
  OBVIOUS
<1>3. Head(s) = "nested" => Len(Tail(s)) # 0
  BY <1>1, <1>2
<1>4. Tail(s) # <<>> => Len(s) - 1 \in 1 .. Len(s) - 1 /\ Len(s) - 1 + 1 = Len(s)
  BY <1>1, <1>2
<1>5. Tail(s) # <<>> => Tail(s)[Len(Tail(s))] = s[Len(s)]
  BY <1>1, <1>2, <1>4
<1>6. Head(s) = "nested" => Tail(s) # <<>>
  <2>1. ASSUME Head(s) = "nested", Tail(s) = <<>> PROVE FALSE
    <3>1. Len(Tail(s)) = Len(<<>>) /\ Len(<<>>) = 0
      BY <2>1
    <3> QED
      BY <1>3, <2>1, <3>1
  <2> QED
    BY <2>1
<1> QED
  BY <1>5, <1>6

(* while the log is open, or nobody has run it beside another, one thread at *)
(* most runs it                                                              *)
LEMMA OneRuns ==
  ASSUME Ordered, held \/ ~overlap, NEW r \in L!Runner, Running(r)
  PROVE  \A q \in L!Runner : q # r => pc[q] = "idle"
  BY DEF Ordered, Running, L!Runner

LEMMA LogStart == L!Init => LogInv
<1> SUFFICES ASSUME L!Init PROVE LogInv
  OBVIOUS
<1> USE LogSettings DEF L!Settings, L!Init
<1>1. LogTypes
  <2>1. lines \in Seq(1 .. MaxLines)
    OBVIOUS
  <2>2. 0 \in 0 .. MaxLines /\ 0 \in 0 .. MaxOpens /\ 0 \in 0 .. MaxReopens
    OBVIOUS
  <2>3. /\ held \in BOOLEAN /\ badTail \in BOOLEAN /\ due \in BOOLEAN /\ signal \in BOOLEAN
        /\ overlap \in BOOLEAN /\ noOpen \in BOOLEAN
    OBVIOUS
  <2>4. /\ inUse \in {0, 1, 3} /\ written \in 0 .. MaxLines /\ keep \in Keeps
        /\ made \in 0 .. MaxLines /\ out \in 0 .. MaxLines
        /\ opens \in 0 .. MaxOpens /\ reopens \in 0 .. MaxReopens
    BY <2>2
  <2>5. file \in {"none", "open", "stderr"} /\ fault \in {"no", "entry", "file", "tail"}
    OBVIOUS
  <2> QED
    BY <2>1, <2>3, <2>4, <2>5 DEF LogTypes
<1>2. RunTypes
  <2>1. stack \in [L!Runner -> Seq(L!Frame)]
    OBVIOUS
  <2> QED
    BY <2>1 DEF RunTypes
<1>3. \A r \in L!Runner : pc[r] = "idle"
  OBVIOUS
<1>4. Len(lines) = 0
  OBVIOUS
<1>5. RunsFit /\ LockHeld /\ HeldOpen /\ InUse /\ Kept
  BY <1>3 DEF RunsFit, LockHeld, HeldOpen, InUse, Kept, Running, Printing, L!Runner
<1>6. Consecutive
  BY <1>4 DEF Consecutive
<1>7. Ordered
  BY <1>3, <1>4 DEF Ordered, Running, Printing, L!Runner
<1>8. L!EntrySafe /\ L!TailSafe
  BY DEF L!EntrySafe, L!TailSafe
<1> QED
  BY <1>1, <1>2, <1>5, <1>6, <1>7, <1>8 DEF LogInv

LEMMA OpenLogKeeps == ASSUME LogInv, fault = "no", L!Open
    PROVE LogInv'
<1> USE LogSettings DEF L!Settings, LogInv, L!Open, L!Set, L!logVars, L!runVars
<1>a. /\ written = 0 /\ \A r \in L!Runner : ~Running(r)
      /\ ~Running("closer") /\ ~Running("logger")
  BY DEF InUse, L!Runner
<1>b. /\ held' = TRUE /\ inUse' = 1 /\ lines' = <<>> /\ badTail' = FALSE
      /\ file' = "none" /\ due' = FALSE /\ made' = 0 /\ out' = 0 /\ opens' = opens + 1
      /\ lock = "none"
      /\ UNCHANGED <<written, keep, lock, pc, stack, line, loop, tries, signal, fault,
                     overlap, noOpen, reopens>>
  BY DEF L!ResetTail
<1>c. lines' \in Seq(1 .. MaxLines) /\ Len(lines') = 0 /\ made' - Len(lines') = 0
  <2>1. <<>> \in Seq(1 .. MaxLines) /\ Len(<<>>) = 0
    OBVIOUS
  <2>2. Len(lines') = 0 /\ made' = 0
    BY <1>b, <2>1
  <2>3. made' - Len(lines') = 0
    <3> HIDE DEF L!Open
    <3> QED
      BY <2>2
  <2> QED
    BY <1>b, <2>1, <2>2, <2>3
<1>d. opens' \in 0 .. MaxOpens /\ 0 \in 0 .. MaxLines
  BY <1>b DEF LogTypes
<1>1. LogTypes'
  BY <1>b, <1>c, <1>d DEF LogTypes
<1>2. RunTypes'
  BY DEF LogTypes, RunTypes, L!Frame
<1>3. RunsFit'
  BY DEF RunTypes, RunsFit, Running, L!Frame
<1>4. LockHeld'
  BY DEF RunTypes, LockHeld
<1>5. Consecutive'
  BY DEF Consecutive
<1>6. fault' = "no" => InUse'
  BY DEF RunTypes, InUse, LockHeld, Printing, Running
<1>7. HeldOpen'
  BY <1>a, <1>b DEF HeldOpen, Running
<1>8. Ordered'
  BY <1>a, <1>b, <1>c DEF Ordered, Running, Printing
<1>9. Kept'
  BY DEF Kept
<1>10. L!EntrySafe'
  BY DEF L!EntrySafe
<1>11. L!TailSafe'
  BY DEF L!TailSafe, HeldOpen
<1> QED
  BY <1>1, <1>2, <1>3, <1>4, <1>5, <1>6, <1>7, <1>8, <1>9, <1>10, <1>11 DEF LogInv

LEMMA WriteLogKeeps == ASSUME LogInv, fault = "no", L!Write
    PROVE LogInv'
<1> USE LogSettings DEF L!Settings, LogInv, L!Write, L!Set, L!logVars, L!runVars
<1>a. PICK k \in 0 .. Len(lines) + 1 :
          /\ lines' \in Seq(1 .. MaxLines) /\ Len(lines') = Len(lines) + 1 - k
          /\ \A i \in 1 .. Len(lines) + 1 - k : lines'[i] = made - Len(lines) + k + i
          /\ written = 0 => k = 0
          /\ written \in made - Len(lines) + 1 .. made => made - Len(lines) + k < written
  BY Appended
<1>b. /\ made \in Nat /\ Len(lines) \in Nat /\ Len(lines) <= made /\ made' = made + 1
      /\ k \in Nat /\ made' - Len(lines') = made - Len(lines) + k /\ made' \in 0 .. MaxLines
      /\ written = 0 => made' - Len(lines') = made - Len(lines)
  <2>1. made \in Nat /\ Len(lines) \in Nat /\ made < MaxLines /\ MaxLines \in Nat
    BY DEF LogTypes
  <2>2. Len(lines) <= made /\ made' = made + 1
    BY DEF Consecutive
  <2>3. k \in Nat
    BY <2>1
  <2>4. Len(lines') = Len(lines) + 1 - k /\ made' \in Nat /\ Len(lines') \in Nat
    BY <1>a, <2>1, <2>2
  <2>5. made' - Len(lines') = made - Len(lines) + k /\ made' \in 0 .. MaxLines
    <3> HIDE DEF L!Write, LogInv
    <3> QED
      BY <2>1, <2>2, <2>3, <2>4
  <2>6. written = 0 => made' - Len(lines') = made - Len(lines)
    <3>1. written = 0 => k = 0
      BY <1>a
    <3> HIDE DEF L!Write, LogInv
    <3> QED
      BY <3>1, <2>1, <2>5
  <2> QED
    BY <2>1, <2>2, <2>3, <2>4, <2>5, <2>6
<1>1. LogTypes'
  BY <1>a, <1>b DEF LogTypes
<1>2. RunTypes'
  BY DEF LogTypes, RunTypes, L!Frame
<1>3. RunsFit'
  BY DEF RunTypes, RunsFit, Running, L!Frame
<1>4. LockHeld'
  BY DEF RunTypes, LockHeld
<1>5. Consecutive'
  <2>1. Len(lines') <= made'
    BY <1>a, <1>b
  <2>2. ASSUME NEW i \in 1 .. Len(lines') PROVE lines'[i] = made' - Len(lines') + i
    BY <1>a, <1>b
  <2> QED
    BY <2>1, <2>2 DEF Consecutive
<1>6. fault' = "no" => InUse'
  BY DEF RunTypes, InUse, LockHeld, Printing, Running
<1>7. HeldOpen'
  BY DEF RunTypes, HeldOpen, Running, LockHeld, RunsFit
<1>8. Ordered'
  <2> SUFFICES ASSUME held \/ ~overlap PROVE Ordered'
    BY DEF Ordered
  <2>1. /\ ~(Running("closer") /\ Running("logger"))
        /\ written # 0 => written \in made - Len(lines) + 1 .. made
        /\ \A r \in L!Runner : Printing(r) => line[r] = out + 1 /\ written = line[r]
        /\ (\A r \in L!Runner : ~Printing(r)) => written \in {0, out}
        /\ \A r \in L!Runner : pc[r] # "loop"
    <3>1. \A r \in L!Runner : pc[r] # "loop"
      BY DEF LockHeld, L!Runner
    <3> QED
      BY <3>1 DEF Ordered
  <2>2. written' # 0 => written' \in made' - Len(lines') + 1 .. made'
    BY <1>a, <1>b, <2>1 DEF LogTypes
  <2>3. ~(written = 0 /\ inUse # 0 /\ made - Len(lines) # out)
    BY DEF Ordered
  <2>4. (written' = 0 /\ (inUse' # 0 \/ lock' # "none")) => made' - Len(lines') = out'
    BY <1>b, <2>3
  <2> QED
    BY <2>1, <2>2, <2>4 DEF Ordered, Running, Printing
<1>9. Kept'
  <2>1. CASE written = 0
    BY <1>a, <1>b, <2>1 DEF Kept
  <2>2. ASSUME written # 0, held, ~noOpen PROVE made' - Len(lines') <= out'
    <3>1. made - Len(lines) + k < written
      BY <1>a, <2>2 DEF Ordered
    <3>2. written \in {0, out} \/ written = out + 1
      BY <2>2 DEF Ordered
    <3> QED
      BY <1>b, <2>2, <3>1, <3>2 DEF LogTypes
  <2> QED
    BY <2>1, <2>2 DEF Kept
<1>10. L!EntrySafe'
  BY DEF L!EntrySafe
<1>11. L!TailSafe'
  BY DEF L!TailSafe, HeldOpen
<1> QED
  BY <1>1, <1>2, <1>3, <1>4, <1>5, <1>6, <1>7, <1>8, <1>9, <1>10, <1>11 DEF LogInv

LEMMA ReloadLogKeeps == ASSUME LogInv, fault = "no", L!Reload
    PROVE LogInv'
<1> USE LogSettings DEF L!Settings, LogInv, L!Reload, L!Set, L!logVars, L!runVars
<1>1. LogTypes'
  BY DEF LogTypes
<1>2. RunTypes'
  BY DEF LogTypes, RunTypes, L!Frame
<1>3. RunsFit'
  BY DEF RunTypes, RunsFit, Running, L!Frame
<1>4. LockHeld'
  BY DEF RunTypes, LockHeld
<1>5. Consecutive'
  BY DEF Consecutive
<1>6. fault' = "no" => InUse'
  BY DEF RunTypes, InUse, LockHeld, Printing, Running
<1>7. HeldOpen'
  BY DEF RunTypes, HeldOpen, Running, LockHeld, RunsFit
<1>8. Ordered'
  BY DEF RunTypes, LogTypes, Ordered, Running, Printing, LockHeld, InUse
<1>9. Kept'
  BY DEF Kept
<1>10. L!EntrySafe'
  BY DEF L!EntrySafe
<1>11. L!TailSafe'
  BY DEF L!TailSafe, HeldOpen
<1> QED
  BY <1>1, <1>2, <1>3, <1>4, <1>5, <1>6, <1>7, <1>8, <1>9, <1>10, <1>11 DEF LogInv

LEMMA CloseLogKeeps == ASSUME LogInv, fault = "no", L!Close
    PROVE LogInv'
<1> USE LogSettings DEF L!Settings, LogInv, L!Close, L!Set, L!logVars, L!runVars
<1>a. /\ inUse # 1 => UNCHANGED <<lock, pc, stack, line, loop, tries>>
      /\ inUse = 1 => /\ lock' = "closer" /\ L!Set("closer", "begin", <<"close">>, 0, 0)
                      /\ tries' = [tries EXCEPT !["closer"] = 1] /\ inUse' = 1
  OBVIOUS
<1>c. ASSUME inUse = 1
      PROVE /\ pc' \in [L!Runner -> {"idle", "begin", "loop", "print", "end"}]
            /\ stack' \in [L!Runner -> Seq(L!Frame)]
            /\ line' \in [L!Runner -> 0 .. MaxLines] /\ loop' \in [L!Runner -> 0 .. RunLimit]
            /\ pc'["closer"] = "begin" /\ stack'["closer"] = <<"close">>
            /\ \A q \in L!Runner : q # "closer" =>
                  /\ pc'[q] = pc[q] /\ stack'[q] = stack[q] /\ line'[q] = line[q]
                  /\ loop'[q] = loop[q]
  <2>1. "closer" \in L!Runner /\ <<"close">> \in Seq(L!Frame)
    BY DEF L!Runner, L!Frame
  <2>2. 0 \in 0 .. MaxLines /\ 0 \in 0 .. RunLimit
    OBVIOUS
  <2>3. RunTypes /\ L!Set("closer", "begin", <<"close">>, 0, 0)
    BY <1>c
  <2> HIDE DEF L!Close, L!Set
  <2> QED
    BY <2>1, <2>2, <2>3, SetMade
<1>b. UNCHANGED <<lines, badTail, written, keep, file, due, made, out, signal, fault, overlap, noOpen, opens, reopens>>
  OBVIOUS
<1> HIDE DEF L!Set
<1>1. LogTypes'
  BY DEF LogTypes
<1>2. RunTypes'
  <2>1. CASE inUse # 1
    BY <1>a, <2>1 DEF RunTypes
  <2>2. CASE inUse = 1
    <3>1. tries' \in [L!Runner -> 0 .. CloseRuns] /\ lock' \in L!Runner \cup {"none"}
      BY <1>a, <2>2 DEF RunTypes, L!Runner
    <3> QED
      BY <1>c, <2>2, <3>1 DEF RunTypes
  <2> QED
    BY <2>1, <2>2
<1>3. RunsFit'
  <2>1. CASE inUse # 1
    BY <1>a, <2>1 DEF RunTypes, RunsFit, Running
  <2>2. CASE inUse = 1
    <3>1. stack'["closer"] # <<>> /\ stack'["closer"][Len(stack'["closer"])] # "nested"
      BY <1>c, <2>2, OneFrame
    <3> QED
      BY <1>c, <2>2, <3>1, ZenonT(30) DEF RunsFit, Running
  <2> QED
    BY <2>1, <2>2
<1>4. LockHeld'
  <2>1. CASE inUse # 1
    BY <1>a, <2>1 DEF RunTypes, LockHeld, L!Runner
  <2>2. CASE inUse = 1
    BY <1>a, <1>c, <2>2 DEF RunTypes, LockHeld, L!Runner
  <2> QED
    BY <2>1, <2>2
<1>5. Consecutive'
  BY DEF Consecutive
<1>6. fault' = "no" => InUse'
  <2>1. CASE inUse # 1
    BY <1>a, <2>1 DEF RunTypes, LockHeld, InUse, Running, Printing
  <2>2. CASE inUse = 1
    BY <1>a, <1>c, <2>2 DEF RunTypes, LockHeld, InUse, Running, Printing
  <2> QED
    BY <2>1, <2>2
<1>7. HeldOpen'
  BY DEF RunTypes, HeldOpen, Running, LockHeld, RunsFit
<1>8. Ordered'
  <2>1. CASE inUse # 1
    BY <1>a, <1>b, <2>1 DEF Ordered, Running, Printing, L!Close
  <2>2. CASE inUse = 1
    <3> SUFFICES ASSUME held' \/ ~overlap' PROVE Ordered'
      BY DEF Ordered
    <3>1. (held \/ ~overlap) /\ lock = "none" /\ lock' = "closer"
      BY <1>b, <1>c, <2>2 DEF LogTypes, L!Close
    <3>2. pc["closer"] = "idle" /\ pc["logger"] = "idle"
      BY <1>b, <1>c, <2>2, <3>1 DEF LogTypes, HeldOpen, LockHeld, RunTypes, Running, L!Runner, L!Close
    <3>3. pc'["closer"] = "begin" /\ pc'["logger"] = "idle"
      BY <1>c, <2>2, <3>2 DEF L!Runner
    <3>4. \A r \in L!Runner : pc[r] # "print" /\ pc'[r] \notin {"loop", "print"}
      BY <3>2, <3>3 DEF L!Runner
    <3>5. /\ written # 0 => written \in made - Len(lines) + 1 .. made
          /\ written \in {0, out}
          /\ ~(written = 0 /\ made - Len(lines) # out)
      BY <2>2, <3>1, <3>4 DEF Ordered, Printing
    <3> QED
      BY <1>b, <3>3, <3>4, <3>5 DEF Ordered, Running, Printing
  <2> QED
    BY <2>1, <2>2
<1>9. Kept'
  BY DEF Kept
<1>10. L!EntrySafe'
  BY DEF L!EntrySafe
<1>11. L!TailSafe'
  BY DEF L!TailSafe, HeldOpen
<1> QED
  BY <1>1, <1>2, <1>3, <1>4, <1>5, <1>6, <1>7, <1>8, <1>9, <1>10, <1>11 DEF LogInv

LEMMA CommitLogKeeps == ASSUME LogInv, fault = "no", L!Commit
    PROVE LogInv'
<1> USE LogSettings DEF L!Settings, LogInv, L!Commit, L!Set, L!logVars, L!runVars
<1>a. inUse = 0 => UNCHANGED <<lock, pc, stack, line, loop, tries, overlap>>
  OBVIOUS
<1>c. ASSUME inUse # 0
      PROVE /\ pc' \in [L!Runner -> {"idle", "begin", "loop", "print", "end"}]
            /\ stack' \in [L!Runner -> Seq(L!Frame)]
            /\ line' \in [L!Runner -> 0 .. MaxLines] /\ loop' \in [L!Runner -> 0 .. RunLimit]
            /\ pc'["logger"] = "begin" /\ stack'["logger"] = <<"commit">>
            /\ \A q \in L!Runner : q # "logger" =>
                  /\ pc'[q] = pc[q] /\ stack'[q] = stack[q] /\ line'[q] = line[q]
                  /\ loop'[q] = loop[q]
            /\ lock' = "logger" /\ tries' = tries
            /\ overlap' = (overlap \/ pc["closer"] # "idle")
  <2>1. "logger" \in L!Runner /\ <<"commit">> \in Seq(L!Frame)
    BY DEF L!Runner, L!Frame
  <2>2. 0 \in 0 .. MaxLines /\ 0 \in 0 .. RunLimit
    OBVIOUS
  <2>3. RunTypes /\ L!Set("logger", "begin", <<"commit">>, 0, 0)
    BY <1>c
  <2> HIDE DEF L!Commit, L!Set
  <2>4. lock' = "logger" /\ tries' = tries /\ overlap' = (overlap \/ pc["closer"] # "idle")
    BY <1>c DEF L!Commit
  <2> QED
    BY <2>1, <2>2, <2>3, <2>4, SetMade
<1>b. UNCHANGED <<held, inUse, lines, badTail, written, keep, file, due, made, out, fault, noOpen, opens, reopens>>
  OBVIOUS
<1> HIDE DEF L!Set, L!Commit
<1>1. LogTypes'
  <2>1. overlap' \in BOOLEAN /\ signal' \in BOOLEAN
    BY DEF LogTypes, L!Commit
  <2> QED
    BY <1>b, <2>1 DEF LogTypes
<1>2. RunTypes'
  <2>1. CASE inUse = 0
    BY <1>a, <1>b, <2>1 DEF RunTypes, L!Runner
  <2>2. CASE inUse # 0
    BY <1>b, <1>c, <2>2 DEF RunTypes, L!Runner
  <2> QED
    BY <2>1, <2>2
<1>3. RunsFit'
  <2>1. CASE inUse = 0
    BY <1>a, <1>b, <2>1 DEF RunTypes, RunsFit, Running
  <2>2. CASE inUse # 0
    <3>1. stack'["logger"] # <<>> /\ stack'["logger"][Len(stack'["logger"])] # "nested"
      BY <1>c, <2>2, OneFrame
    <3> QED
      BY <1>c, <2>2, <3>1 DEF RunsFit, Running
  <2> QED
    BY <2>1, <2>2
<1>4. LockHeld'
  <2> USE DEF L!Commit
  <2>1. CASE inUse = 0
    BY <1>a, <1>b, <2>1 DEF RunTypes, LockHeld, L!Runner
  <2>2. CASE inUse # 0
    BY <1>b, <1>c, <2>2 DEF RunTypes, LockHeld, L!Runner
  <2> QED
    BY <2>1, <2>2
<1>5. Consecutive'
  BY <1>b DEF Consecutive
<1>6. fault' = "no" => InUse'
  <2>1. CASE inUse = 0
    BY <1>a, <1>b, <2>1 DEF RunTypes, LockHeld, InUse, Running, Printing
  <2>2. CASE inUse # 0
    BY <1>b, <1>c, <2>2 DEF RunTypes, LockHeld, InUse, Running, Printing
  <2> QED
    BY <2>1, <2>2
<1>7. HeldOpen'
  <2> USE DEF L!Commit
  <2>1. CASE inUse = 0
    BY <1>a, <1>b, <2>1 DEF RunTypes, LogTypes, LockHeld, HeldOpen, Running, L!Runner
  <2>2. CASE inUse # 0
    BY <1>b, <1>c, <2>2 DEF RunTypes, LogTypes, LockHeld, HeldOpen, Running, L!Runner
  <2> QED
    BY <2>1, <2>2
<1>8. Ordered'
  <2>1. CASE inUse = 0
    BY <1>a, <1>b, <2>1 DEF Ordered, Running, Printing, L!Commit
  <2>2. CASE inUse # 0
    <3> SUFFICES ASSUME held' \/ ~overlap' PROVE Ordered'
      BY DEF Ordered
    <3>1. (held \/ ~overlap) /\ lock = "none" /\ lock' = "logger"
      BY <1>b, <1>c, <2>2 DEF LogTypes, L!Commit
    <3>2. pc["closer"] = "idle" /\ pc["logger"] = "idle"
      <4>1. pc["logger"] = "idle"
        BY DEF L!Commit
      <4>2. CASE held
        BY <4>1, <4>2 DEF HeldOpen, Running
      <4>3. CASE ~overlap'
        BY <1>c, <2>2, <4>1, <4>3
      <4> QED
        BY <1>b, <4>2, <4>3
    <3>3. pc'["logger"] = "begin" /\ pc'["closer"] = "idle"
      BY <1>c, <2>2, <3>2 DEF L!Runner
    <3>4. \A r \in L!Runner : pc[r] # "print" /\ pc'[r] \notin {"loop", "print"}
      BY <3>2, <3>3 DEF L!Runner
    <3>5. /\ written # 0 => written \in made - Len(lines) + 1 .. made
          /\ written \in {0, out}
          /\ ~(written = 0 /\ made - Len(lines) # out)
      BY <2>2, <3>1, <3>4 DEF Ordered, Printing
    <3> QED
      BY <1>b, <3>3, <3>4, <3>5 DEF Ordered, Running, Printing
  <2> QED
    BY <2>1, <2>2
<1>9. Kept'
  BY <1>b DEF Kept
<1>10. L!EntrySafe'
  BY <1>b DEF L!EntrySafe
<1>11. L!TailSafe'
  BY <1>b DEF L!TailSafe
<1> QED
  BY <1>1, <1>2, <1>3, <1>4, <1>5, <1>6, <1>7, <1>8, <1>9, <1>10, <1>11 DEF LogInv

LEMMA BeginLogKeeps == ASSUME NEW r \in L!Runner, LogInv, fault = "no", L!Begin(r)
    PROVE LogInv'
<1> USE LogSettings DEF L!Settings, LogInv, L!Begin, L!Set, L!logVars, L!runVars
<1>c. /\ made \in Nat /\ out \in Nat /\ Len(lines) \in Nat /\ written \in Nat
      /\ lines = <<>> => Len(lines) = 0
  BY DEF LogTypes
<1>n. L!NextLine = IF written # 0
                   THEN IF written \in made - Len(lines) + 1 .. made - 1 THEN written + 1 ELSE 0
                   ELSE IF lines = <<>> THEN 0 ELSE made - Len(lines) + 1
  BY <1>c, AfterRange, FirstRange DEF L!NextLine
<1>m. L!NextLine \in 0 .. MaxLines
  <2> HIDE DEF L!NextLine
  <2>1. made <= MaxLines /\ Len(lines) <= made /\ (lines # <<>> => Len(lines) > 0)
    BY DEF LogTypes, Consecutive
  <2> QED
    BY <1>c, <1>n, <2>1
<1> HIDE DEF L!NextLine
<1>a. /\ pc' \in [L!Runner -> {"idle", "begin", "loop", "print", "end"}]
      /\ stack' \in [L!Runner -> Seq(L!Frame)]
      /\ line' \in [L!Runner -> 0 .. MaxLines] /\ loop' \in [L!Runner -> 0 .. RunLimit]
      /\ pc'[r] = "loop" /\ stack'[r] = stack[r] /\ line'[r] = L!NextLine /\ loop'[r] = 0
      /\ \A q \in L!Runner : q # r =>
            /\ pc'[q] = pc[q] /\ stack'[q] = stack[q] /\ line'[q] = line[q]
            /\ loop'[q] = loop[q]
  <2>1. L!NextLine \in 0 .. MaxLines /\ 0 \in 0 .. RunLimit /\ stack[r] \in Seq(L!Frame)
    BY <1>m DEF RunTypes
  <2>9. RunTypes /\ L!Set(r, "loop", stack[r], L!NextLine, 0)
    OBVIOUS
  <2> HIDE DEF L!Begin, L!Set, LogInv
  <2> QED
    BY <2>1, <2>9, SetMade
<1>1. LogTypes'
  BY DEF LogTypes
<1>2. RunTypes'
  <2>1. lock' \in L!Runner \cup {"none"} /\ tries' \in [L!Runner -> 0 .. CloseRuns]
    BY DEF RunTypes
  <2> QED
    BY <1>a, <2>1 DEF RunTypes
<1>3. RunsFit'
  BY DEF RunTypes, RunsFit, Running, L!Frame
<1>4. LockHeld'
  BY DEF RunTypes, LockHeld
<1>5. Consecutive'
  BY DEF Consecutive
<1>6. fault' = "no" => InUse'
  BY DEF RunTypes, InUse, LockHeld, Printing, Running
<1>7. HeldOpen'
  BY DEF RunTypes, HeldOpen, Running, LockHeld, RunsFit
<1>8. Ordered'
  <2> SUFFICES ASSUME held \/ ~overlap PROVE Ordered'
    BY DEF Ordered
  <2>1. \A q \in L!Runner : q # r => pc[q] = "idle" /\ pc'[q] = "idle"
    BY <1>a, OneRuns DEF Running
  <2>2. \A q \in L!Runner : pc[q] # "print" /\ pc'[q] # "print"
    BY <1>a, <2>1
  <2>3. /\ written # 0 => written = out /\ written \in made - Len(lines) + 1 .. made
        /\ written = 0 /\ made - Len(lines) # out => lines = <<>> /\ stack[r][1] = "close"
        /\ lock = r /\ lock # "none"
    <3>1. lock = r /\ lock # "none"
      BY DEF LockHeld, L!Runner
    <3> QED
      BY <2>2, <3>1 DEF Ordered, Printing
  <2>4. line'[r] # 0 => line'[r] = out + 1 /\ line'[r] \in made - Len(lines) + 1 .. made
    <3>1. lines # <<>> => Len(lines) > 0
      BY DEF LogTypes
    <3> QED
      BY <1>a, <1>c, <1>n, <2>3, <3>1
  <2>5. \A q \in L!Runner : pc'[q] = "loop" /\ line'[q] # 0 =>
            line'[q] = out + 1 /\ line'[q] \in made - Len(lines) + 1 .. made
    BY <1>a, <2>1, <2>4
  <2>6. ~(Running("closer") /\ Running("logger"))'
    BY <1>a, <2>1 DEF Running, L!Runner
  <2> QED
    BY <1>a, <2>2, <2>3, <2>5, <2>6 DEF Ordered, Printing
<1>9. Kept'
  BY DEF Kept
<1>10. L!EntrySafe'
  BY DEF L!EntrySafe
<1>11. L!TailSafe'
  BY DEF L!TailSafe, HeldOpen
<1> QED
  BY <1>1, <1>2, <1>3, <1>4, <1>5, <1>6, <1>7, <1>8, <1>9, <1>10, <1>11 DEF LogInv

LEMMA RunOverLogKeeps == ASSUME NEW r \in L!Runner, LogInv, fault = "no", L!RunOver(r)
    PROVE LogInv'
<1> USE LogSettings DEF L!Settings, LogInv, L!RunOver, L!Set, L!logVars, L!runVars, L!Over
<1>c. L!Counted(r) \in 0 .. RunLimit
  BY DEF RunTypes, RunsFit, L!Counted
<1> HIDE DEF L!Counted
<1>a. /\ pc' \in [L!Runner -> {"idle", "begin", "loop", "print", "end"}]
      /\ stack' \in [L!Runner -> Seq(L!Frame)]
      /\ line' \in [L!Runner -> 0 .. MaxLines] /\ loop' \in [L!Runner -> 0 .. RunLimit]
      /\ pc'[r] = "end" /\ stack'[r] = stack[r] /\ line'[r] = 0 /\ loop'[r] = L!Counted(r)
      /\ \A q \in L!Runner : q # r =>
            /\ pc'[q] = pc[q] /\ stack'[q] = stack[q] /\ line'[q] = line[q]
            /\ loop'[q] = loop[q]
  <2>1. 0 \in 0 .. MaxLines /\ L!Counted(r) \in 0 .. RunLimit /\ stack[r] \in Seq(L!Frame)
    BY <1>c DEF RunTypes
  <2>9. RunTypes /\ L!Set(r, "end", stack[r], 0, L!Counted(r))
    OBVIOUS
  <2> HIDE DEF L!RunOver, L!Set, LogInv
  <2> QED
    BY <2>1, <2>9, SetMade
<1>1. LogTypes'
  BY DEF LogTypes
<1>2. RunTypes'
  <2>1. lock' \in L!Runner \cup {"none"} /\ tries' \in [L!Runner -> 0 .. CloseRuns]
    BY DEF RunTypes
  <2> QED
    BY <1>a, <2>1 DEF RunTypes
<1>3. RunsFit'
  BY DEF RunTypes, RunsFit, Running, L!Frame
<1>4. LockHeld'
  BY DEF RunTypes, LockHeld
<1>5. Consecutive'
  BY DEF Consecutive
<1>6. fault' = "no" => InUse'
  BY DEF RunTypes, InUse, LockHeld, Printing, Running
<1>7. HeldOpen'
  BY DEF RunTypes, HeldOpen, Running, LockHeld, RunsFit
<1>8. Ordered'
  BY SMTT(30) DEF RunTypes, LogTypes, Ordered, Running, Printing, LockHeld, InUse
<1>9. Kept'
  BY DEF Kept
<1>10. L!EntrySafe'
  BY DEF L!EntrySafe
<1>11. L!TailSafe'
  BY DEF L!TailSafe, HeldOpen
<1> QED
  BY <1>1, <1>2, <1>3, <1>4, <1>5, <1>6, <1>7, <1>8, <1>9, <1>10, <1>11 DEF LogInv

LEMMA PrintStartsLogKeeps == ASSUME NEW r \in L!Runner, LogInv, fault = "no", L!PrintStarts(r)
    PROVE LogInv'
<1> USE LogSettings DEF L!Settings, LogInv, L!PrintStarts, L!Set, L!logVars, L!runVars, L!Over, L!WantsOpen
<1>c. /\ line[r] \in 1 .. MaxLines /\ loop[r] + 1 < RunLimit /\ loop[r] \in Nat
      /\ written' = line[r] /\ lock' = "none" /\ pc[r] = "loop" /\ lock = r
      /\ UNCHANGED <<held, inUse, lines, badTail, keep, made, out, tries, signal, overlap,
                     noOpen, opens, reopens>>
  BY DEF RunTypes, LockHeld
<1>a. /\ pc' \in [L!Runner -> {"idle", "begin", "loop", "print", "end"}]
      /\ stack' \in [L!Runner -> Seq(L!Frame)]
      /\ line' \in [L!Runner -> 0 .. MaxLines] /\ loop' \in [L!Runner -> 0 .. RunLimit]
      /\ pc'[r] = "print" /\ stack'[r] = stack[r] /\ line'[r] = line[r] /\ loop'[r] = loop[r] + 1
      /\ \A q \in L!Runner : q # r =>
            /\ pc'[q] = pc[q] /\ stack'[q] = stack[q] /\ line'[q] = line[q]
            /\ loop'[q] = loop[q]
  <2>1. line[r] \in 0 .. MaxLines /\ loop[r] + 1 \in 0 .. RunLimit /\ stack[r] \in Seq(L!Frame)
    BY <1>c DEF RunTypes
  <2>9. RunTypes /\ L!Set(r, "print", stack[r], line[r], loop[r] + 1)
    OBVIOUS
  <2> HIDE DEF L!PrintStarts, L!Set, LogInv
  <2> QED
    BY <2>1, <2>9, SetMade
<1>1. LogTypes'
  <2>1. file' \in {"none", "open", "stderr"} /\ due' \in BOOLEAN
        /\ fault' \in {"no", "entry", "file", "tail"}
    BY DEF LogTypes
  <2>2. written' \in 0 .. MaxLines
    BY <1>c
  <2> QED
    BY <1>c, <2>1, <2>2 DEF LogTypes
<1>2. RunTypes'
  <2>1. lock' \in L!Runner \cup {"none"} /\ tries' \in [L!Runner -> 0 .. CloseRuns]
    BY DEF RunTypes
  <2> QED
    BY <1>a, <2>1 DEF RunTypes
<1>3. RunsFit'
  BY DEF RunTypes, RunsFit, Running, L!Frame
<1>4. LockHeld'
  <2>1. ASSUME NEW q \in L!Runner PROVE lock' = q <=> pc'[q] \in {"begin", "loop", "end"}
    <3>1. lock = q <=> pc[q] \in {"begin", "loop", "end"}
      BY DEF LockHeld
    <3>2. q # "none"
      BY DEF L!Runner
    <3> HIDE DEF L!PrintStarts, LogInv
    <3> QED
      BY <1>a, <1>c, <3>1, <3>2
  <2> QED
    BY <2>1 DEF LockHeld
<1>5. Consecutive'
  BY DEF Consecutive
<1>6. fault' = "no" => InUse'
  BY DEF RunTypes, InUse, LockHeld, Printing, Running
<1>7. HeldOpen'
  BY DEF RunTypes, HeldOpen, Running, LockHeld, RunsFit
<1>8. Ordered'
  <2> SUFFICES ASSUME held \/ ~overlap PROVE Ordered'
    BY <1>c DEF Ordered
  <2>1. \A q \in L!Runner : q # r => pc[q] = "idle" /\ pc'[q] = "idle"
    BY <1>a, <1>c, OneRuns DEF Running
  <2>2. line[r] = out + 1 /\ line[r] \in made - Len(lines) + 1 .. made /\ line[r] # 0
    BY <1>c DEF Ordered
  <2>3. ~(Running("closer") /\ Running("logger"))'
    BY <1>a, <2>1 DEF Running, L!Runner
  <2>4. \A q \in L!Runner : pc'[q] = "print" => line'[q] = out + 1 /\ written' = line'[q]
    BY <1>a, <1>c, <2>1, <2>2
  <2>5. \A q \in L!Runner : pc'[q] # "loop"
    BY <1>a, <2>1
  <2> QED
    BY <1>a, <1>c, <2>2, <2>3, <2>4, <2>5 DEF Ordered, Printing
<1>9. Kept'
  BY DEF Kept
<1>10. L!EntrySafe'
  BY DEF L!EntrySafe
<1>11. L!TailSafe'
  BY DEF L!TailSafe, HeldOpen
<1> QED
  BY <1>1, <1>2, <1>3, <1>4, <1>5, <1>6, <1>7, <1>8, <1>9, <1>10, <1>11 DEF LogInv

LEMMA OpenFailsLogKeeps == ASSUME NEW r \in L!Runner, LogInv, fault = "no", L!OpenFails(r)
    PROVE LogInv'
<1> USE LogSettings DEF L!Settings, LogInv, L!OpenFails, L!Set, L!logVars, L!runVars, L!Over, L!WantsOpen
<1>c. /\ line[r] \in 1 .. MaxLines /\ loop[r] + 1 < RunLimit /\ loop[r] \in Nat
      /\ pc[r] = "loop" /\ lock = r /\ noOpen' = TRUE /\ lock # "none"
      /\ UNCHANGED <<held, inUse, lines, badTail, written, keep, due, made, out, lock,
                     tries, signal, fault, overlap, opens, reopens>>
  BY DEF RunTypes, LockHeld, L!Runner
<1>d. /\ stack[r] \in Seq(L!Frame) /\ stack[r] # <<>> /\ stack[r][Len(stack[r])] # "nested"
  BY <1>c DEF RunTypes, RunsFit, Running
<1>s. /\ <<"nested">> \o stack[r] \in Seq(L!Frame) /\ <<"nested">> \o stack[r] # <<>>
      /\ (<<"nested">> \o stack[r])[Len(<<"nested">> \o stack[r])] # "nested"
  <2>1. "nested" \in L!Frame
    BY DEF L!Frame
  <2> HIDE DEF L!OpenFails, LogInv
  <2>2. Len(<<"nested">> \o stack[r]) = 1 + Len(stack[r]) /\ Len(stack[r]) \in Nat \ {0}
    BY <1>d
  <2>3. (<<"nested">> \o stack[r])[1 + Len(stack[r])] = stack[r][Len(stack[r])]
    BY <1>d, <2>2
  <2>4. <<"nested">> \o stack[r] \in Seq(L!Frame)
    BY <1>d, <2>1
  <2> QED
    BY <1>d, <2>2, <2>3, <2>4
<1>a. /\ pc' \in [L!Runner -> {"idle", "begin", "loop", "print", "end"}]
      /\ stack' \in [L!Runner -> Seq(L!Frame)]
      /\ line' \in [L!Runner -> 0 .. MaxLines] /\ loop' \in [L!Runner -> 0 .. RunLimit]
      /\ pc'[r] \in {"begin", "end"} /\ stack'[r] # <<>>
      /\ stack'[r][Len(stack'[r])] # "nested"
      /\ \A q \in L!Runner : q # r =>
            /\ pc'[q] = pc[q] /\ stack'[q] = stack[q] /\ line'[q] = line[q]
            /\ loop'[q] = loop[q]
  <2>1. 0 \in 0 .. MaxLines /\ 0 \in 0 .. RunLimit /\ loop[r] + 1 \in 0 .. RunLimit
    BY <1>c
  <2>2. RunTypes /\ \/ L!Set(r, "begin", <<"nested">> \o stack[r], 0, 0)
                    \/ L!Set(r, "end", stack[r], 0, loop[r] + 1)
    OBVIOUS
  <2> HIDE DEF L!OpenFails, L!Set, LogInv
  <2>3. CASE L!Set(r, "begin", <<"nested">> \o stack[r], 0, 0)
    BY <1>s, <2>1, <2>2, <2>3, SetMade
  <2>4. CASE L!Set(r, "end", stack[r], 0, loop[r] + 1)
    BY <1>d, <2>1, <2>2, <2>4, SetMade
  <2> QED
    BY <2>2, <2>3, <2>4
<1>1. LogTypes'
  BY DEF LogTypes
<1>2. RunTypes'
  <2>1. lock' \in L!Runner \cup {"none"} /\ tries' \in [L!Runner -> 0 .. CloseRuns]
    BY DEF RunTypes
  <2> QED
    BY <1>a, <2>1 DEF RunTypes
<1>3. RunsFit'
  BY <1>a DEF RunsFit, Running
<1>4. LockHeld'
  <2>1. ASSUME NEW q \in L!Runner PROVE lock' = q <=> pc'[q] \in {"begin", "loop", "end"}
    <3>1. lock = q <=> pc[q] \in {"begin", "loop", "end"}
      BY DEF LockHeld
    <3>2. q # "none"
      BY DEF L!Runner
    <3> QED
      BY <1>a, <3>1, <3>2
  <2> QED
    BY <2>1 DEF LockHeld
<1>5. Consecutive'
  BY DEF Consecutive
<1>6. fault' = "no" => InUse'
  <2>1. \A q \in L!Runner : pc'[q] = "print" => file' # "none"
    BY <1>a, <1>c DEF InUse, Printing
  <2>2. \A q \in L!Runner : pc'[q] \in {"loop", "print"} => inUse # 0
    BY <1>a, <1>c DEF InUse
  <2> QED
    BY <1>c, <2>1, <2>2 DEF InUse, Printing
<1>7. HeldOpen'
  <2>1. held => r = "logger" /\ pc'["closer"] = pc["closer"]
    BY <1>a, <1>c DEF HeldOpen, Running, L!Runner
  <2> QED
    BY <1>a, <1>c, <2>1 DEF HeldOpen, Running
<1>8. Ordered'
  <2> SUFFICES ASSUME held \/ ~overlap PROVE Ordered'
    BY <1>c DEF Ordered
  <2>1. \A q \in L!Runner : q # r => pc[q] = "idle" /\ pc'[q] = "idle"
    BY <1>a, <1>c, OneRuns DEF Running
  <2>2. line[r] \in made - Len(lines) + 1 .. made
    BY <1>c DEF Ordered
  <2>3. lines # <<>>
    BY <2>2 DEF LogTypes
  <2>4. \A q \in L!Runner : pc[q] # "print" /\ pc'[q] \notin {"loop", "print"}
    BY <1>a, <1>c, <2>1
  <2>5. /\ written # 0 => written \in made - Len(lines) + 1 .. made
        /\ written \in {0, out} /\ ~(written = 0 /\ made - Len(lines) # out)
    BY <1>c, <2>3, <2>4 DEF Ordered, Printing
  <2>6. ~(Running("closer") /\ Running("logger"))'
    BY <1>a, <2>1 DEF Running, L!Runner
  <2> QED
    BY <1>a, <1>c, <2>4, <2>5, <2>6 DEF Ordered, Printing
<1>9. Kept'
  BY DEF Kept
<1>10. L!EntrySafe'
  BY DEF L!EntrySafe
<1>11. L!TailSafe'
  BY DEF L!TailSafe, HeldOpen
<1> QED
  BY <1>1, <1>2, <1>3, <1>4, <1>5, <1>6, <1>7, <1>8, <1>9, <1>10, <1>11 DEF LogInv

LEMMA PrintEndsLogKeeps == ASSUME NEW r \in L!Runner, LogInv, fault = "no", L!PrintEnds(r)
    PROVE LogInv'
<1> USE LogSettings DEF L!Settings, LogInv, L!PrintEnds, L!Set, L!logVars, L!runVars
<1>c. /\ line[r] \in Nat /\ loop[r] \in 0 .. RunLimit /\ stack[r] \in Seq(L!Frame)
      /\ made \in Nat /\ made <= MaxLines /\ out \in Nat /\ Len(lines) \in Nat
      /\ pc[r] = "print" /\ lock = "none" /\ lock' = r /\ out' = line[r]
      /\ UNCHANGED <<held, inUse, lines, badTail, written, keep, file, made, tries, signal,
                     overlap, noOpen, opens, reopens>>
  BY DEF RunTypes, LogTypes
<1>n. /\ L!After(line[r]) = IF line[r] \in made - Len(lines) + 1 .. made - 1
                            THEN line[r] + 1 ELSE 0
      /\ L!After(line[r]) \in 0 .. MaxLines
  <2>1. L!After(line[r]) = IF line[r] \in made - Len(lines) + 1 .. made - 1
                           THEN line[r] + 1 ELSE 0
    BY <1>c, AfterRange
  <2> HIDE DEF L!PrintEnds, LogInv
  <2> QED
    BY <1>c, <2>1
<1>o. (held \/ ~overlap) =>
          /\ \A q \in L!Runner : q # r => pc[q] = "idle"
          /\ line[r] = out + 1 /\ written = line[r] /\ line[r] # 0
          /\ line[r] \in made - Len(lines) + 1 .. made
  <2> SUFFICES ASSUME held \/ ~overlap
               PROVE  /\ \A q \in L!Runner : q # r => pc[q] = "idle"
                      /\ line[r] = out + 1 /\ written = line[r] /\ line[r] # 0
                      /\ line[r] \in made - Len(lines) + 1 .. made
    OBVIOUS
  <2>1. \A q \in L!Runner : q # r => pc[q] = "idle"
    BY <1>c, OneRuns DEF Running
  <2>2. line[r] = out + 1 /\ written = line[r]
    BY <1>c DEF Ordered, Printing
  <2>3. line[r] # 0
    BY <1>c, <2>2
  <2>4. written \in made - Len(lines) + 1 .. made
    BY <2>2, <2>3 DEF Ordered
  <2> QED
    BY <2>1, <2>2, <2>3, <2>4
<1>a. /\ pc' \in [L!Runner -> {"idle", "begin", "loop", "print", "end"}]
      /\ stack' \in [L!Runner -> Seq(L!Frame)]
      /\ line' \in [L!Runner -> 0 .. MaxLines] /\ loop' \in [L!Runner -> 0 .. RunLimit]
      /\ pc'[r] = "loop" /\ stack'[r] = stack[r] /\ line'[r] = L!After(line[r]) /\ loop'[r] = loop[r]
      /\ \A q \in L!Runner : q # r =>
            /\ pc'[q] = pc[q] /\ stack'[q] = stack[q] /\ line'[q] = line[q]
            /\ loop'[q] = loop[q]
  <2>1. /\ L!After(line[r]) \in 0 .. MaxLines /\ loop[r] \in 0 .. RunLimit
        /\ stack[r] \in Seq(L!Frame)
    BY <1>c, <1>n
  <2>9. RunTypes /\ L!Set(r, "loop", stack[r], L!After(line[r]), loop[r])
    OBVIOUS
  <2> HIDE DEF L!PrintEnds, L!Set, LogInv
  <2> QED
    BY <2>1, <2>9, SetMade
<1>1. LogTypes'
  <2>1. fault' \in {"no", "entry", "file", "tail"} /\ due' \in BOOLEAN
    BY DEF LogTypes
  <2>2. out' \in 0 .. MaxLines
    BY DEF RunTypes
  <2> QED
    BY <1>c, <2>1, <2>2 DEF LogTypes
<1>2. RunTypes'
  <2>1. lock' \in L!Runner \cup {"none"} /\ tries' \in [L!Runner -> 0 .. CloseRuns]
    BY DEF RunTypes
  <2> QED
    BY <1>a, <2>1 DEF RunTypes
<1>3. RunsFit'
  BY DEF RunTypes, RunsFit, Running, L!Frame
<1>4. LockHeld'
  <2>1. ASSUME NEW q \in L!Runner PROVE lock' = q <=> pc'[q] \in {"begin", "loop", "end"}
    <3>1. lock = q <=> pc[q] \in {"begin", "loop", "end"}
      BY DEF LockHeld
    <3>2. q # "none"
      BY DEF L!Runner
    <3> QED
      BY <1>a, <3>1, <3>2
  <2> QED
    BY <2>1 DEF LockHeld
<1>5. Consecutive'
  BY DEF Consecutive
<1>6. fault' = "no" => InUse'
  BY DEF RunTypes, InUse, LockHeld, Printing, Running
<1>7. HeldOpen'
  BY DEF RunTypes, HeldOpen, Running, LockHeld, RunsFit
<1>8. Ordered'
  <2> SUFFICES ASSUME held \/ ~overlap PROVE Ordered'
    BY <1>c DEF Ordered
  <2>1. \A q \in L!Runner : q # r => pc[q] = "idle" /\ pc'[q] = "idle"
    BY <1>a, <1>o
  <2>2. \A q \in L!Runner : pc'[q] # "print"
    BY <1>a, <2>1
  <2>3. line'[r] # 0 => line'[r] = out' + 1 /\ line'[r] \in made - Len(lines) + 1 .. made
    <3> HIDE DEF L!PrintEnds, LogInv
    <3> QED
      BY <1>a, <1>c, <1>n, <1>o
  <2>4. \A q \in L!Runner : pc'[q] = "loop" /\ line'[q] # 0 =>
            line'[q] = out' + 1 /\ line'[q] \in made - Len(lines) + 1 .. made
    BY <1>a, <2>1, <2>3
  <2>5. ~(Running("closer") /\ Running("logger"))'
    BY <1>a, <2>1 DEF Running, L!Runner
  <2>6. written' # 0 /\ written' = out' /\ written' \in made' - Len(lines') + 1 .. made'
    BY <1>c, <1>o
  <2> QED
    BY <1>a, <1>c, <2>2, <2>4, <2>5, <2>6 DEF Ordered, Printing
<1>9. Kept'
  <2> HIDE DEF L!PrintEnds
  <2> QED
    BY <1>c, <1>o DEF Kept
<1>10. L!EntrySafe'
  <2>1. ~overlap => line[r] \in L!Range(lines)
    BY <1>c, <1>o, LineRange
  <2> QED
    BY <2>1 DEF L!EntrySafe, LogTypes
<1>11. L!TailSafe'
  BY DEF L!TailSafe, HeldOpen
<1> QED
  BY <1>1, <1>2, <1>3, <1>4, <1>5, <1>6, <1>7, <1>8, <1>9, <1>10, <1>11 DEF LogInv

LEMMA EndClosesLogKeeps == ASSUME NEW r \in L!Runner, LogInv, fault = "no", L!EndCloses(r)
    PROVE LogInv'
<1> USE LogSettings DEF L!Settings, LogInv, L!EndCloses, L!Set, L!logVars, L!runVars
<1>1. LogTypes'
  BY DEF LogTypes
<1>2. RunTypes'
  BY SMTT(30) DEF LogTypes, RunTypes, L!Frame
<1>3. RunsFit'
  BY DEF RunTypes, RunsFit, Running, L!Frame
<1>4. LockHeld'
  BY DEF RunTypes, LockHeld
<1>5. Consecutive'
  BY DEF Consecutive
<1>6. fault' = "no" => InUse'
  BY DEF RunTypes, InUse, LockHeld, Printing, Running
<1>7. HeldOpen'
  BY DEF RunTypes, HeldOpen, Running, LockHeld, RunsFit
<1>8. Ordered'
  BY DEF RunTypes, LogTypes, Ordered, Running, Printing, LockHeld, InUse
<1>9. Kept'
  BY DEF Kept
<1>10. L!EntrySafe'
  BY DEF L!EntrySafe
<1>11. L!TailSafe'
  BY DEF L!TailSafe, HeldOpen
<1> QED
  BY <1>1, <1>2, <1>3, <1>4, <1>5, <1>6, <1>7, <1>8, <1>9, <1>10, <1>11 DEF LogInv

LEMMA EndReturnsLogKeeps == ASSUME NEW r \in L!Runner, LogInv, fault = "no", L!EndReturns(r)
    PROVE LogInv'
<1> USE LogSettings DEF L!Settings, LogInv, L!EndReturns, L!Set, L!logVars, L!runVars
<1>c. /\ pc[r] = "end" /\ inUse = 3 /\ Head(stack[r]) # "close" /\ inUse' = 1
      /\ lock = r /\ lock # "none"
      /\ UNCHANGED <<held, lines, badTail, written, keep, file, due, made, out, tries,
                     signal, fault, overlap, noOpen, opens, reopens>>
  BY DEF LockHeld, L!Runner
<1>d. stack[r] \in Seq(L!Frame) /\ stack[r] # <<>> /\ stack[r][Len(stack[r])] # "nested"
  BY <1>c DEF RunTypes, RunsFit, Running
<1>r. L!Returns(r, stack[r])
  OBVIOUS
<1>a. /\ pc' \in [L!Runner -> {"idle", "begin", "loop", "print", "end"}]
      /\ stack' \in [L!Runner -> Seq(L!Frame)]
      /\ line' \in [L!Runner -> 0 .. MaxLines] /\ loop' \in [L!Runner -> 0 .. RunLimit]
      /\ \A q \in L!Runner : q # r =>
            /\ pc'[q] = pc[q] /\ stack'[q] = stack[q] /\ line'[q] = line[q]
            /\ loop'[q] = loop[q]
  BY <1>r, <1>d, Returned
<1>e. \/ /\ stack[r] # <<>> /\ Head(stack[r]) = "nested" /\ pc'[r] = "end"
         /\ stack'[r] = Tail(stack[r]) /\ lock' = lock
      \/ /\ stack[r] # <<>> /\ Head(stack[r]) = "close" /\ pc'[r] = "begin"
         /\ stack'[r] = stack[r] /\ lock' = lock
      \/ pc'[r] = "idle" /\ lock' = "none"
  BY <1>r, <1>d, Returned
<1>f. \/ /\ Head(stack[r]) = "nested" /\ pc'[r] = "end" /\ stack'[r] = Tail(stack[r])
         /\ lock' = lock /\ stack'[r] # <<>> /\ stack'[r][Len(stack'[r])] # "nested"
      \/ pc'[r] = "idle" /\ lock' = "none"
  BY <1>c, <1>d, <1>e, TailFits
<1> HIDE DEF L!EndReturns
<1>1. LogTypes'
  BY <1>c DEF LogTypes
<1>2. RunTypes'
  <2>1. lock' \in L!Runner \cup {"none"} /\ tries' \in [L!Runner -> 0 .. CloseRuns]
    BY <1>c, <1>e DEF RunTypes
  <2> QED
    BY <1>a, <2>1 DEF RunTypes
<1>3. RunsFit'
  BY <1>a, <1>f DEF RunsFit, Running
<1>4. LockHeld'
  <2>1. ASSUME NEW q \in L!Runner PROVE lock' = q <=> pc'[q] \in {"begin", "loop", "end"}
    <3>1. lock = q <=> pc[q] \in {"begin", "loop", "end"}
      BY DEF LockHeld
    <3>2. q # "none"
      BY DEF L!Runner
    <3> QED
      BY <1>a, <1>c, <1>e, <3>1, <3>2
  <2> QED
    BY <2>1 DEF LockHeld
<1>5. Consecutive'
  BY <1>c DEF Consecutive
<1>6. fault' = "no" => InUse'
  <2>1. \A q \in L!Runner : pc'[q] = "print" => q # r /\ pc[q] = "print"
    BY <1>a, <1>f
  <2>2. \A q \in L!Runner : pc'[q] = "print" => file # "none"
    BY <2>1 DEF InUse, Printing
  <2> QED
    BY <1>c, <2>2 DEF InUse, Printing
<1>7. HeldOpen'
  <2> SUFFICES ASSUME held PROVE HeldOpen'
    BY <1>c DEF HeldOpen
  <2>1. r = "logger" /\ pc["closer"] = "idle" /\ pc'["closer"] = "idle"
    BY <1>a, <1>c DEF HeldOpen, Running, L!Runner
  <2>2. ~noOpen => stack[r] = <<"commit">> /\ ~badTail
    BY <1>c, <2>1 DEF HeldOpen, Running
  <2>3. ~noOpen => pc'["logger"] = "idle"
    BY <1>d, <1>f, <2>1, <2>2
  <2>4. pc'["logger"] \notin {"loop", "print"}
    BY <1>f, <2>1
  <2> QED
    BY <1>c, <2>1, <2>2, <2>3, <2>4 DEF HeldOpen, Running
<1>8. Ordered'
  <2> SUFFICES ASSUME held \/ ~overlap PROVE Ordered'
    BY <1>c DEF Ordered
  <2>1. \A q \in L!Runner : q # r => pc[q] = "idle" /\ pc'[q] = "idle"
    BY <1>a, <1>c, OneRuns DEF Running
  <2>2. \A q \in L!Runner : pc[q] # "print" /\ pc'[q] \notin {"loop", "print"}
    BY <1>c, <1>f, <2>1
  <2>3. stack[r][1] # "close"
    BY <1>c, <1>d
  <2>4. /\ written # 0 => written \in made - Len(lines) + 1 .. made
        /\ written \in {0, out} /\ ~(written = 0 /\ made - Len(lines) # out)
    BY <1>c, <2>2, <2>3 DEF Ordered, Printing
  <2>5. ~(Running("closer") /\ Running("logger"))'
    BY <1>a, <2>1 DEF Running, L!Runner
  <2> QED
    BY <1>a, <1>c, <2>2, <2>4, <2>5 DEF Ordered, Printing
<1>9. Kept'
  BY <1>c DEF Kept
<1>10. L!EntrySafe'
  BY <1>c DEF L!EntrySafe
<1>11. L!TailSafe'
  BY <1>c DEF L!TailSafe
<1> QED
  BY <1>1, <1>2, <1>3, <1>4, <1>5, <1>6, <1>7, <1>8, <1>9, <1>10, <1>11 DEF LogInv

LEMMA CloseAgainLogKeeps == ASSUME NEW r \in L!Runner, LogInv, fault = "no", L!CloseAgain(r)
    PROVE LogInv'
<1> USE LogSettings DEF L!Settings, LogInv, L!CloseAgain, L!Set, L!logVars, L!runVars
<1>1. LogTypes'
  BY DEF LogTypes
<1>2. RunTypes'
  BY SMTT(30) DEF LogTypes, RunTypes, L!Frame
<1>3. RunsFit'
  BY DEF RunTypes, RunsFit, Running, L!Frame
<1>4. LockHeld'
  BY DEF RunTypes, LockHeld
<1>5. Consecutive'
  BY DEF Consecutive
<1>6. fault' = "no" => InUse'
  BY DEF RunTypes, InUse, LockHeld, Printing, Running
<1>7. HeldOpen'
  <2> SUFFICES ASSUME held PROVE HeldOpen'
    BY DEF HeldOpen
  <2>1. r = "logger" /\ pc["closer"] = "idle" /\ pc'["closer"] = "idle" /\ pc'["logger"] = "begin"
    BY DEF HeldOpen, Running, L!Runner, RunTypes
  <2>2. noOpen
    <3>1. ~noOpen => stack[r] = <<"commit">>
      BY <2>1 DEF HeldOpen, Running
    <3> QED
      BY <3>1
  <2> QED
    BY <2>1, <2>2 DEF HeldOpen, Running
<1>8. Ordered'
  BY SMTT(30) DEF RunTypes, LogTypes, Ordered, Running, Printing, LockHeld, InUse
<1>9. Kept'
  BY DEF Kept
<1>10. L!EntrySafe'
  BY DEF L!EntrySafe
<1>11. L!TailSafe'
  BY DEF L!TailSafe, HeldOpen
<1> QED
  BY <1>1, <1>2, <1>3, <1>4, <1>5, <1>6, <1>7, <1>8, <1>9, <1>10, <1>11 DEF LogInv

LEMMA CloseEndsLogKeeps == ASSUME NEW r \in L!Runner, LogInv, fault = "no", L!CloseEnds(r)
    PROVE LogInv'
<1> USE LogSettings DEF L!Settings, LogInv, L!CloseEnds, L!Set, L!logVars, L!runVars
<1>c. /\ pc[r] = "end" /\ inUse = 3 /\ Head(stack[r]) = "close" /\ lock = r /\ lock # "none"
      /\ inUse' = 0 /\ file' = "none" /\ lines' = <<>> /\ written' = 0
      /\ tries' = [tries EXCEPT ![r] = 0]
      /\ UNCHANGED <<held, keep, due, made, out, signal, overlap, noOpen, opens, reopens>>
  BY DEF LockHeld, L!Runner
<1>g. stack[r] \in Seq(L!Frame) /\ stack[r] # <<>> /\ stack[r][Len(stack[r])] # "nested"
  BY <1>c DEF RunTypes, RunsFit, Running
<1>d. /\ Tail(stack[r]) \in Seq(L!Frame)
      /\ Tail(stack[r]) # <<>> => Tail(stack[r])[Len(Tail(stack[r]))] # "nested"
  BY <1>g, TailFits
<1>r. L!Returns(r, Tail(stack[r]))
  OBVIOUS
<1>a. /\ pc' \in [L!Runner -> {"idle", "begin", "loop", "print", "end"}]
      /\ stack' \in [L!Runner -> Seq(L!Frame)]
      /\ line' \in [L!Runner -> 0 .. MaxLines] /\ loop' \in [L!Runner -> 0 .. RunLimit]
      /\ \A q \in L!Runner : q # r =>
            /\ pc'[q] = pc[q] /\ stack'[q] = stack[q] /\ line'[q] = line[q]
            /\ loop'[q] = loop[q]
  BY <1>r, <1>d, Returned
<1>e. \/ /\ Tail(stack[r]) # <<>> /\ Head(Tail(stack[r])) = "nested" /\ pc'[r] = "end"
         /\ stack'[r] = Tail(Tail(stack[r])) /\ lock' = lock
      \/ /\ Tail(stack[r]) # <<>> /\ Head(Tail(stack[r])) = "close" /\ pc'[r] = "begin"
         /\ stack'[r] = Tail(stack[r]) /\ lock' = lock
      \/ pc'[r] = "idle" /\ lock' = "none"
  BY <1>r, <1>d, Returned
<1>f. \/ /\ pc'[r] = "end" /\ lock' = lock /\ stack'[r] # <<>>
         /\ stack'[r][Len(stack'[r])] # "nested"
      \/ /\ pc'[r] = "begin" /\ lock' = lock /\ stack'[r] # <<>> /\ Head(stack'[r]) = "close"
         /\ stack'[r][Len(stack'[r])] # "nested"
      \/ pc'[r] = "idle" /\ lock' = "none"
  BY <1>d, <1>e, TailFits
<1>h. held => noOpen
  <2>1. held => r = "logger"
    BY <1>c DEF HeldOpen, Running, L!Runner
  <2>2. held /\ ~noOpen => stack[r] = <<"commit">>
    BY <1>c, <2>1 DEF HeldOpen, Running
  <2> QED
    BY <1>c, <2>2
<1>i. /\ Len(lines') = 0 /\ made \in Nat
      /\ badTail' \in BOOLEAN /\ fault' \in {"no", "entry", "file", "tail"}
      /\ fault' \in {"no", "file"}
  BY <1>c DEF LogTypes
<1>j. fault' = "no" => \A q \in L!Runner : q # r => pc[q] # "print"
  BY DEF InUse, Printing
<1> HIDE DEF L!CloseEnds
<1>1. LogTypes'
  <2>1. lines' \in Seq(1 .. MaxLines)
    BY <1>c
  <2>2. inUse' \in {0, 1, 3} /\ written' \in 0 .. MaxLines /\ file' \in {"none", "open", "stderr"}
    BY <1>c
  <2> QED
    BY <1>c, <1>i, <2>1, <2>2 DEF LogTypes
<1>2. RunTypes'
  <2>1. lock' \in L!Runner \cup {"none"} /\ tries' \in [L!Runner -> 0 .. CloseRuns]
    BY <1>c, <1>e DEF RunTypes
  <2> QED
    BY <1>a, <2>1 DEF RunTypes
<1>3. RunsFit'
  BY <1>a, <1>f DEF RunsFit, Running
<1>4. LockHeld'
  <2>1. ASSUME NEW q \in L!Runner PROVE lock' = q <=> pc'[q] \in {"begin", "loop", "end"}
    <3>1. lock = q <=> pc[q] \in {"begin", "loop", "end"}
      BY DEF LockHeld
    <3>2. q # "none"
      BY DEF L!Runner
    <3> QED
      BY <1>a, <1>c, <1>e, <3>1, <3>2
  <2> QED
    BY <2>1 DEF LockHeld
<1>5. Consecutive'
  BY <1>c, <1>i DEF Consecutive
<1>6. fault' = "no" => InUse'
  <2> SUFFICES ASSUME fault' = "no" PROVE InUse'
    OBVIOUS
  <2>1. \A q \in L!Runner : q # r => pc'[q] = "idle"
    <3>1. \A q \in L!Runner : q # r => pc[q] \notin {"begin", "loop", "end", "print"}
      BY <1>c, <1>j DEF LockHeld
    <3> QED
      BY <1>a, <3>1
  <2> QED
    BY <1>c, <1>f, <2>1 DEF InUse, Printing, Running
<1>7. HeldOpen'
  <2> SUFFICES ASSUME held PROVE HeldOpen'
    BY <1>c DEF HeldOpen
  <2>1. r = "logger" /\ pc["closer"] = "idle" /\ pc'["closer"] = "idle"
    BY <1>a, <1>c DEF HeldOpen, Running, L!Runner
  <2>2. pc'["logger"] \notin {"loop", "print"}
    BY <1>f, <2>1
  <2> QED
    BY <1>c, <1>h, <2>1, <2>2 DEF HeldOpen, Running
<1>8. Ordered'
  <2> SUFFICES ASSUME held \/ ~overlap PROVE Ordered'
    BY <1>c DEF Ordered
  <2>1. \A q \in L!Runner : q # r => pc[q] = "idle" /\ pc'[q] = "idle"
    BY <1>a, <1>c, OneRuns DEF Running
  <2>2. \A q \in L!Runner : pc'[q] \notin {"loop", "print"}
    BY <1>f, <2>1
  <2>3. ~(Running("closer") /\ Running("logger"))'
    BY <1>a, <2>1 DEF Running, L!Runner
  <2>4. lock' # "none" => lock' = r /\ (stack'[lock'][1] = "close" \/ pc'[lock'] = "end")
    BY <1>a, <1>c, <1>f
  <2> QED
    BY <1>c, <2>2, <2>3, <2>4 DEF Ordered, Printing
<1>9. Kept'
  BY <1>c, <1>h DEF Kept
<1>10. L!EntrySafe'
  BY <1>i DEF L!EntrySafe
<1>11. L!TailSafe'
  BY <1>i DEF L!TailSafe
<1> QED
  BY <1>1, <1>2, <1>3, <1>4, <1>5, <1>6, <1>7, <1>8, <1>9, <1>10, <1>11 DEF LogInv

LEMMA LogStays == ASSUME LogInv, UNCHANGED logsVars PROVE LogInv'
<1> USE DEF logsVars, LogInv
<1>1. LogTypes' /\ RunTypes'
  BY DEF LogTypes, RunTypes
<1>2. RunsFit' /\ LockHeld' /\ Consecutive'
  BY DEF RunsFit, LockHeld, Consecutive, Running
<1>3. HeldOpen' /\ Kept' /\ (fault' = "no" => InUse')
  BY DEF HeldOpen, Kept, InUse, Running, Printing
<1>4. Ordered'
  BY DEF Ordered, Running, Printing
<1>5. L!EntrySafe' /\ L!TailSafe'
  BY DEF L!EntrySafe, L!TailSafe
<1> QED
  BY <1>1, <1>2, <1>3, <1>4, <1>5

LEMMA LogConsequence == LogInv => L!LogKept
<1> SUFFICES ASSUME LogInv PROVE L!LogKept
  OBVIOUS
<1> USE LogSettings DEF L!Settings, LogInv
<1>1. L!TypeOK
  BY DEF L!TypeOK, LogTypes, RunTypes
<1>2. L!InOrder
  BY DEF L!InOrder, Ordered, Printing
<1>3. L!NoneLost
  <2> SUFFICES ASSUME held, ~noOpen, NEW n \in out + 1 .. made PROVE n \in L!Range(lines)
    BY DEF L!NoneLost
  <2>1. made \in Nat /\ out \in Nat /\ Len(lines) \in Nat /\ made - Len(lines) <= out
    BY DEF LogTypes, Kept
  <2>2. n \in Nat /\ n \in made - Len(lines) + 1 .. made
    BY <2>1
  <2> QED
    BY <2>2, LineRange
<1> QED
  BY <1>1, <1>2, <1>3 DEF L!LogKept

LEMMA LogStep == ASSUME LogInv, part = "logs", MCNext PROVE LogInv'
<1>1. L!Next
  BY DEF MCNext, L!Next
<1> QED
  BY <1>1, OpenLogKeeps, WriteLogKeeps, ReloadLogKeeps, CloseLogKeeps, CommitLogKeeps,
     BeginLogKeeps, RunOverLogKeeps, PrintStartsLogKeeps, OpenFailsLogKeeps,
     PrintEndsLogKeeps, EndClosesLogKeeps, EndReturnsLogKeeps, CloseAgainLogKeeps,
     CloseEndsLogKeeps DEF L!Next

LogsInv == part = "logs" => LogInv

\* Whatever keep_entries, the length of a run and the number of lines, through
\* purges, reopens, files that cannot be opened and a close by another thread
\* (log.c): a line is written once, in the order of the log and not dropped
\* before, and no line that was freed is used, but for the exceptions that
\* LogKept names.
THEOREM LogStaysKept == MCSpec => []LogKept
<1>1. MCInit => LogsInv
  BY LogStart DEF MCInit, LogsInv
<1>2. LogsInv /\ [MCNext]_allVars => LogsInv'
  <2>1. LogsInv /\ MCNext => LogsInv'
    <3>1. MCNext => part' = part
      BY DEF MCNext, OnlyRelay, OnlyDirectory, OnlyLogs, OnlyPassword
    <3> QED
      BY <3>1, LogStep DEF LogsInv
  <2>2. LogsInv /\ UNCHANGED allVars => LogsInv'
    BY LogStays DEF LogsInv, allVars
  <2> QED
    BY <2>1, <2>2
<1>3. LogsInv => LogKept
  BY LogConsequence DEF LogsInv, LogKept
<1> QED
  BY <1>1, <1>2, <1>3, PTL DEF MCSpec
=============================================================================
