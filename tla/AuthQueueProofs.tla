-------------------------- MODULE AuthQueueProofs --------------------------
(***************************************************************************)
(* Proofs about the authentication queue, for any number of handlers and   *)
(* clients.                                                                *)
(***************************************************************************)
EXTENDS AuthQueue, FiniteSetTheorems, TLAPS

\* The handles in use are those of the threads.
HandleThreads == \A h \in Handler : h \in handle <=> hpc[h] # "off"

\* Every thread holds one reference and the configuration holds one.
RefsCounted ==
  refcount = Cardinality(handle) + (IF cfgRef THEN 1 ELSE 0)

PendingCounted == pending = Len(queue)

Served == queue # <<>> => handle # {}

FreedAtZero == memory = "live" <=> refcount # 0

\* Nobody queues a client for an auth_t that is not in the configuration.
ConfigHeld ==
  /\ inConfig => cfgRef
  /\ \A c \in Client : cst[c] = "checked" => inConfig

JobInHand == \A h \in Handler : hpc[h] = "process" => job[h] \in Job

IInv ==
  /\ TypeOK
  /\ HandleThreads
  /\ RefsCounted
  /\ PendingCounted
  /\ Served
  /\ FreedAtZero
  /\ ConfigHeld
  /\ JobInHand

-----------------------------------------------------------------------------
(* Counting the handles in use.                                            *)

\* The handles in use can be counted.
LEMMA HandlesFinite ==
  ASSUME IInv
  PROVE  IsFiniteSet(handle) /\ Cardinality(handle) \in Nat
  BY HandlerAssumption, FS_Subset, FS_CardinalityType DEF IInv, TypeOK

\* A handle that is taken adds one to the number in use.
LEMMA HandleIn ==
  ASSUME IInv, NEW h \in Handler \ handle
  PROVE  Cardinality(handle \cup {h}) = Cardinality(handle) + 1
  BY HandlesFinite, FS_AddElement

\* A handle that is given back takes one from it.
LEMMA HandleOut ==
  ASSUME IInv, NEW h \in handle
  PROVE  /\ Cardinality(handle \ {h}) = Cardinality(handle) - 1
         /\ Cardinality(handle) # 0
<1>1. IsFiniteSet(handle) /\ Cardinality(handle) \in Nat
  BY HandlesFinite
<1>2. Cardinality(handle \ {h}) = Cardinality(handle) - 1
  BY <1>1, FS_RemoveElement
<1>3. Cardinality(handle) # 0
  BY <1>1, FS_EmptySet
<1> QED
  BY <1>2, <1>3

\* RefsCounted with the reference of the configuration spelled out.
LEMMA RefsByCase ==
  ASSUME IInv
  PROVE  /\ cfgRef => refcount = Cardinality(handle) + 1
         /\ ~cfgRef => refcount = Cardinality(handle)
<1>1. Cardinality(handle) \in Nat
  BY HandlesFinite
<1>2. CASE cfgRef
  BY <1>2 DEF IInv, RefsCounted
<1>3. CASE ~cfgRef
  BY <1>1, <1>3 DEF IInv, RefsCounted
<1> QED
  BY <1>2, <1>3

\* With every handle in use there is a thread: auth->handlers is at least 1.
LEMMA BusyHasThread ==
  ASSUME IInv, AllBusy
  PROVE  handle # {}
<1>1. Cardinality(Handler) \in Nat /\ Cardinality(Handler) # 0
  BY HandlerAssumption, FS_CardinalityType, FS_EmptySet
<1>2. CASE handle = Handler
  BY <1>2, HandlerAssumption
<1>3. CASE refcount > Cardinality(Handler)
  <2>1. CASE handle = {}
    <3>1. Cardinality(handle) = 0
      BY <2>1, FS_EmptySet
    <3>2. refcount <= 1
      BY <3>1 DEF IInv, RefsCounted
    <3> QED
      BY <1>1, <1>3, <3>2 DEF IInv, TypeOK
  <2> QED
    BY <2>1
<1> QED
  BY <1>2, <1>3 DEF AllBusy

-----------------------------------------------------------------------------
\* auth_get_authenticator sets up a structure with one reference and no thread.
LEMMA InitIInv == Init => IInv
<1> SUFFICES ASSUME Init PROVE IInv
  OBVIOUS
<1>1. TypeOK
  <2>1. job \in [Handler -> Job \cup {NoJob}]
    BY DEF Init
  <2>2. inConfig \in BOOLEAN /\ cfgRef \in BOOLEAN /\ allowAuth \in BOOLEAN
    BY Zenon DEF Init
  <2> QED
    BY <2>1, <2>2 DEF Init, TypeOK, ClientStates
<1>2. RefsCounted
  BY FS_EmptySet DEF Init, RefsCounted
<1> QED
  BY <1>1, <1>2
     DEF Init, IInv, HandleThreads, PendingCounted, Served, FreedAtZero,
         ConfigHeld, JobInHand

\* queue_auth_client for an auth_t of the configuration.
LEMMA QueueStep ==
  ASSUME IInv, inConfig, NEW j \in Job, QueueAuthClient(j),
         cst' \in [Client -> ClientStates],
         UNCHANGED <<job, configVars, endVars>>
  PROVE  IInv'
<1> USE DEF IInv, configVars, endVars
<1>0. /\ queue' = Append(queue, j) /\ pending' = pending + 1
      /\ memory' = memory
  BY DEF QueueAuthClient, QueueBusy, QueueStart, PutLast
<1>1. /\ queue' \in Seq(Job) /\ pending' \in Nat /\ pending' = Len(queue')
  BY <1>0 DEF TypeOK, PendingCounted
<1>2. cfgRef /\ ConfigHeld'
  BY DEF ConfigHeld
<1>3. CASE QueueBusy(j)
  <2>1. UNCHANGED <<refcount, handle, hpc>> /\ handle # {}
    BY <1>3, BusyHasThread DEF QueueBusy
  <2>2. TypeOK'
    BY <1>0, <1>1, <2>1 DEF TypeOK
  <2> QED
    BY <1>0, <1>1, <1>2, <2>1, <2>2
       DEF HandleThreads, RefsCounted, PendingCounted, Served, FreedAtZero,
           JobInHand
<1>4. CASE QueueStart(j)
  <2>1. PICK h \in Handler \ handle :
          /\ handle' = handle \cup {h}
          /\ hpc' = [hpc EXCEPT ![h] = "created"]
    BY <1>4 DEF QueueStart
  <2>2. refcount' = refcount + 1
    BY <1>4 DEF QueueStart
  <2>3. RefsCounted'
    BY <2>1, <2>2, HandleIn, HandlesFinite DEF RefsCounted
  <2>4. TypeOK'
    BY <1>0, <1>1, <2>1, <2>2 DEF TypeOK
  <2>5. FreedAtZero'
    BY <1>0, <1>2, <2>2, HandlesFinite DEF FreedAtZero, RefsCounted, TypeOK
  <2>6. HandleThreads' /\ JobInHand'
    BY <2>1 DEF HandleThreads, JobInHand, TypeOK
  <2> QED
    BY <1>1, <1>2, <2>1, <2>3, <2>4, <2>5, <2>6 DEF PendingCounted, Served
<1> QED
  BY <1>3, <1>4 DEF QueueAuthClient

\* A step that leaves the auth_t alone.
LEMMA ClientOnly ==
  ASSUME IInv, cst' \in [Client -> ClientStates],
         \A c \in Client : cst'[c] = "checked" => inConfig,
         UNCHANGED <<authVars, hpc, job, configVars, endVars>>
  PROVE  IInv'
  BY DEF IInv, authVars, configVars, endVars, TypeOK, HandleThreads,
         RefsCounted, PendingCounted, Served, FreedAtZero, ConfigHeld, JobInHand

\* What the workers do with their clients.
LEMMA ClientNext ==
  ASSUME IInv, NEW c \in Client, ClientStep(c)
  PROVE  IInv'
<1>0. /\ cst \in [Client -> ClientStates]
      /\ \A d \in Client : cst[d] = "checked" => inConfig
  BY DEF IInv, TypeOK, ConfigHeld
<1>1. ASSUME NEW s \in ClientStates, Becomes(c, s), s = "checked" => inConfig
      PROVE  /\ cst' \in [Client -> ClientStates]
             /\ \A d \in Client : cst'[d] = "checked" => inConfig
  BY <1>0, <1>1 DEF Becomes
<1>2. \A p \in Process : [client |-> c, process |-> p] \in Job
  BY DEF Job
<1>3. CASE AuthAddListener(c) \/ AuthAddRefused(c) \/ AuthSkipped(c)
  <2>1. PICK s \in ClientStates :
          /\ Becomes(c, s) /\ (s = "checked" => inConfig)
          /\ UNCHANGED <<authVars, hpc, job, configVars, endVars>>
    BY <1>3 DEF AuthAddListener, AuthAddRefused, AuthSkipped, ClientStates
  <2> QED
    BY <1>1, <2>1, ClientOnly
<1>4. CASE /\ QueueListener(c) \/ AuthStreamAuthenticate(c)
              \/ AuthReleaseListener(c)
  <2>1. PICK s \in {"waiting", "gone"} : Becomes(c, s)
    BY <1>4 DEF QueueListener, AuthStreamAuthenticate, AuthReleaseListener
  <2>2. /\ cst' \in [Client -> ClientStates]
        /\ \A d \in Client : cst'[d] = "checked" => inConfig
    BY <1>1, <2>1 DEF ClientStates
  <2>3. UNCHANGED <<job, configVars, endVars>>
    BY <1>4 DEF QueueListener, AuthStreamAuthenticate, AuthReleaseListener
  <2>4. \/ inConfig /\ \E p \in Process :
                         QueueAuthClient([client |-> c, process |-> p])
        \/ UNCHANGED <<authVars, hpc>>
    BY <1>0, <1>4 DEF QueueListener, AuthStreamAuthenticate,
                      AuthReleaseListener, QueueFails, Process
  <2> QED
    BY <1>2, <2>2, <2>3, <2>4, QueueStep, ClientOnly
<1>5. CASE AuthStreamStart(c) \/ AuthStreamEnd(c)
  <2>1. PICK s \in {"streaming", "gone"} : Becomes(c, s)
    BY <1>5 DEF AuthStreamStart, AuthStreamEnd
  <2>2. /\ cst' \in [Client -> ClientStates]
        /\ \A d \in Client : cst'[d] = "checked" => inConfig
    BY <1>1, <2>1 DEF ClientStates
  <2>3. UNCHANGED <<job, configVars, endVars>> /\ QueueEvent(c)
    BY <1>5 DEF AuthStreamStart, AuthStreamEnd
  <2>4. "event" \in Process
    BY DEF Process
  <2> QED
    BY <1>2, <2>2, <2>3, <2>4, QueueStep, ClientOnly DEF QueueEvent
<1> QED
  BY <1>3, <1>4, <1>5 DEF ClientStep

\* The steps of auth_run_thread.
LEMMA ThreadNext ==
  ASSUME IInv, NEW h \in Handler, ThreadStep(h)
  PROVE  IInv'
<1> USE DEF IInv, authVars, configVars, endVars
<1>1. CASE ThreadBegin(h)
  BY <1>1 DEF ThreadBegin, TypeOK, HandleThreads, RefsCounted, PendingCounted,
              Served, FreedAtZero, ConfigHeld, JobInHand
<1>2. CASE TakeHead(h)
  <2>1. /\ Head(queue) \in Job /\ queue' = Tail(queue) /\ queue' \in Seq(Job)
        /\ pending' = Len(queue') /\ pending' \in Nat
    BY <1>2 DEF TakeHead, TypeOK, PendingCounted
  <2>2. /\ job' = [job EXCEPT ![h] = Head(queue)]
        /\ hpc' = [hpc EXCEPT ![h] = "process"]
        /\ UNCHANGED <<memory, refcount, handle, cst, configVars, endVars>>
    BY <1>2 DEF TakeHead
  <2>3. h \in handle
    BY <1>2 DEF TakeHead, HandleThreads
  <2>4. TypeOK'
    BY <2>1, <2>2 DEF TypeOK
  <2> QED
    BY <2>1, <2>2, <2>3, <2>4
       DEF TypeOK, HandleThreads, RefsCounted, PendingCounted, Served,
           FreedAtZero, ConfigHeld, JobInHand
<1>3. CASE ProcessJob(h)
  <2>1. job[h] \in Job /\ job[h].client \in Client /\ job[h].process \in Process
    BY <1>3 DEF ProcessJob, JobInHand, Job
  <2>2. PICK s \in Outcomes(job[h]) : Becomes(job[h].client, s)
    BY <1>3 DEF ProcessJob
  <2>3. s \in ClientStates /\ (s = "checked" => inConfig)
    BY <2>1, <2>2 DEF Outcomes, Process, ClientStates, TypeOK, ConfigHeld
  <2>4. /\ cst' \in [Client -> ClientStates]
        /\ \A d \in Client : cst'[d] = "checked" => inConfig
    BY <2>1, <2>2, <2>3 DEF Becomes, TypeOK, ConfigHeld
  <2>5. /\ job' = [job EXCEPT ![h] = NoJob]
        /\ hpc' = [hpc EXCEPT ![h] = "loop"]
        /\ UNCHANGED <<authVars, configVars, endVars>>
        /\ hpc[h] = "process"
    BY <1>3 DEF ProcessJob
  <2>6. TypeOK'
    BY <2>4, <2>5 DEF TypeOK
  <2> QED
    BY <2>4, <2>5, <2>6
       DEF TypeOK, HandleThreads, RefsCounted, PendingCounted, Served,
           FreedAtZero, ConfigHeld, JobInHand
<1>4. CASE ThreadFinish(h)
  <2>1. h \in handle /\ queue = <<>>
    BY <1>4 DEF ThreadFinish, HandleThreads
  <2>2. /\ handle' = handle \ {h} /\ hpc' = [hpc EXCEPT ![h] = "off"]
        /\ refcount' = refcount - 1
        /\ memory' = IF refcount = 1 THEN "freed" ELSE memory
        /\ UNCHANGED <<queue, pending, job, cst, configVars, endVars>>
    BY <1>4 DEF ThreadFinish, AuthRelease
  <2>3. RefsCounted' /\ refcount # 0
    <3>1. /\ Cardinality(handle') = Cardinality(handle) - 1
          /\ Cardinality(handle) # 0 /\ Cardinality(handle) \in Nat
      BY <2>1, <2>2, HandleOut, HandlesFinite
    <3>2. CASE cfgRef
      BY <2>2, <3>1, <3>2, RefsByCase DEF RefsCounted
    <3>3. CASE ~cfgRef
      BY <2>2, <3>1, <3>3, RefsByCase DEF RefsCounted
    <3> QED
      BY <3>2, <3>3
  <2>4. TypeOK'
    BY <2>2, <2>3 DEF TypeOK
  <2>5. FreedAtZero'
    BY <2>2, <2>3 DEF FreedAtZero, TypeOK
  <2> QED
    BY <2>1, <2>2, <2>3, <2>4, <2>5
       DEF TypeOK, HandleThreads, PendingCounted, Served, ConfigHeld, JobInHand
<1> QED
  BY <1>1, <1>2, <1>3, <1>4 DEF ThreadStep

\* The steps of a change of configuration.
LEMMA ConfigNext ==
  ASSUME IInv, SetConfig \/ ConfigClear
  PROVE  IInv'
<1> USE DEF IInv, authVars, configVars, endVars
<1>1. CASE SetConfig
  <2>1. inConfig' = FALSE /\ UNCHANGED <<authVars, hpc, job, cst, cfgRef, endVars>>
    BY <1>1 DEF SetConfig
  <2>2. TypeOK'
    BY <2>1 DEF TypeOK
  <2>3. ConfigHeld'
    BY <1>1, <2>1 DEF SetConfig, ConfigHeld
  <2> QED
    BY <2>1, <2>2, <2>3
       DEF HandleThreads, RefsCounted, PendingCounted, Served, FreedAtZero,
           JobInHand
<1>2. CASE ConfigClear
  <2>1. /\ ~inConfig /\ cfgRef /\ cfgRef' = FALSE
        /\ refcount' = refcount - 1
        /\ memory' = IF refcount = 1 THEN "freed" ELSE memory
        /\ UNCHANGED <<queue, pending, handle, hpc, job, cst, inConfig, endVars>>
    BY <1>2 DEF ConfigClear, AuthRelease
  <2>2. RefsCounted' /\ refcount # 0
    <3>1. refcount = Cardinality(handle) + 1 /\ Cardinality(handle) \in Nat
      BY <2>1, RefsByCase, HandlesFinite
    <3>2. refcount' = Cardinality(handle') /\ refcount # 0
      BY <2>1, <3>1
    <3>3. Cardinality(handle') + 0 = Cardinality(handle')
      BY <2>1, <3>1
    <3> QED
      BY <2>1, <3>2, <3>3 DEF RefsCounted
  <2>3. TypeOK'
    <3>1. refcount' \in Nat /\ memory' \in {"live", "freed"}
      BY <2>1, <2>2 DEF TypeOK
    <3>2. cfgRef' \in BOOLEAN
      BY <2>1, Zenon
    <3> QED
      BY <2>1, <3>1, <3>2, Zenon DEF TypeOK
  <2>4. FreedAtZero'
    BY <2>1, <2>2 DEF FreedAtZero, TypeOK
  <2> QED
    BY <2>1, <2>2, <2>3, <2>4
       DEF HandleThreads, PendingCounted, Served, ConfigHeld, JobInHand
<1> QED
  BY <1>1, <1>2

\* The end of the server touches nothing the queue depends on.
LEMMA ShutdownNext ==
  ASSUME IInv, AuthShutdown \/ DestroyAuthLock
  PROVE  IInv'
<1>1. CASE AuthShutdown
  <2>1. allowAuth' = FALSE
        /\ UNCHANGED <<authVars, hpc, job, cst, configVars, authLock>>
    BY <1>1 DEF AuthShutdown
  <2>2. TypeOK'
    BY <2>1, Zenon DEF IInv, TypeOK, authVars, configVars
  <2> QED
    BY <2>1, <2>2
       DEF IInv, HandleThreads, RefsCounted, PendingCounted, Served,
           FreedAtZero, ConfigHeld, JobInHand, authVars, configVars
<1>2. CASE DestroyAuthLock
  <2>1. authLock' = "destroyed"
        /\ UNCHANGED <<authVars, hpc, job, cst, configVars, allowAuth>>
    BY <1>2 DEF DestroyAuthLock
  <2>2. TypeOK'
    BY <2>1, Zenon DEF IInv, TypeOK, authVars, configVars
  <2> QED
    BY <2>1, <2>2
       DEF IInv, HandleThreads, RefsCounted, PendingCounted, Served,
           FreedAtZero, ConfigHeld, JobInHand, authVars, configVars
<1> QED
  BY <1>1, <1>2

\* Every step keeps the invariant.
LEMMA NextIInv == IInv /\ [Next]_vars => IInv'
<1> SUFFICES ASSUME IInv, [Next]_vars PROVE IInv'
  OBVIOUS
<1>1. CASE UNCHANGED vars
  BY <1>1, ClientOnly
     DEF vars, authVars, configVars, endVars, IInv, TypeOK, ConfigHeld
<1> QED
  BY <1>1, ClientNext, ThreadNext, ConfigNext, ShutdownNext DEF Next

\* The inductive invariant.
THEOREM Inductive == Spec => []IInv
  BY InitIInv, NextIInv, PTL DEF Spec

-----------------------------------------------------------------------------
(* What it shows.                                                          *)

\* refcount and pending_count never fall below zero, and the queue holds
\* nothing but requests.
THEOREM TypeCorrect == Spec => []TypeOK
<1>1. IInv => TypeOK
  BY DEF IInv
<1> QED
  BY <1>1, Inductive, PTL

\* No client is left in a queue that no thread will look at: the decision of
\* queue_auth_client not to start a thread is right against every thread that
\* is about to end.
THEOREM QueueAlwaysServed == Spec => []QueueServed
<1>1. ASSUME IInv PROVE QueueServed
  <2> SUFFICES ASSUME queue # <<>>
               PROVE  \E h \in Handler : hpc[h] \in {"created", "loop", "process"}
    BY DEF QueueServed
  <2>1. PICK h \in handle : TRUE
    BY <1>1 DEF IInv, Served
  <2> QED
    BY <1>1, <2>1 DEF IInv, TypeOK, HandleThreads
<1> QED
  BY <1>1, Inductive, PTL

\* The structure has a reference as long as somebody may use it.
LEMMA AliveInv == IInv => AuthAlive
<1>1. ASSUME IInv PROVE AuthAlive
  <2>1. refcount # 0 => memory = "live"
    BY <1>1 DEF IInv, FreedAtZero
  <2>2. inConfig => refcount # 0
    BY <1>1, HandlesFinite DEF IInv, ConfigHeld, RefsCounted
  <2>3. handle # {} => refcount # 0
    <3> SUFFICES ASSUME NEW h \in handle PROVE refcount # 0
      OBVIOUS
    <3>1. Cardinality(handle) \in Nat /\ Cardinality(handle) # 0
      BY <1>1, HandleOut, HandlesFinite
    <3>2. refcount = Cardinality(handle) + 1 \/ refcount = Cardinality(handle)
      BY <1>1, RefsByCase, Zenon
    <3> QED
      BY <3>1, <3>2
  <2>4. (queue # <<>> \/ \E h \in Handler : Running(h)) => handle # {}
    BY <1>1 DEF IInv, Served, HandleThreads, Running
  <2> QED
    BY <2>1, <2>2, <2>3, <2>4 DEF AuthAlive
<1> QED
  BY <1>1

\* auth_release frees the structure after the last use and not before.
THEOREM AliveWhileUsed == Spec => []AuthAlive
  BY AliveInv, Inductive, PTL

-----------------------------------------------------------------------------
(* Every client that was put aside is in one place.                        *)

\* Client c is asked for at place i of the queue, or by the thread of h.
Queued(i, c) == queue[i].client = c /\ queue[i].process # "event"
Serves(h, c) == job[h].client = c /\ job[h].process # "event"

HeldOnce(c) ==
  /\ cst[c] = "waiting" <=> \/ \E i \in 1..Len(queue) : Queued(i, c)
                            \/ \E h \in Handler : Serves(h, c)
  /\ \A i, k \in 1..Len(queue) : Queued(i, c) /\ Queued(k, c) => i = k
  /\ \A g, h \in Handler : Serves(g, c) /\ Serves(h, c) => g = h
  /\ \A i \in 1..Len(queue), h \in Handler : ~(Queued(i, c) /\ Serves(h, c))

\* A thread that is not processing a client has none.
IdleHands == \A h \in Handler : hpc[h] # "process" => job[h] = NoJob

HInv == IdleHands /\ \A c \in Client : HeldOnce(c)

\* A request for a client that is with its worker puts it aside.
LEMMA HeldQueued ==
  ASSUME IInv, NEW c \in Client, NEW p \in Process \ {"event"}, NEW d \in Client,
         HeldOnce(d), d = c => cst[d] # "waiting",
         queue' = Append(queue, [client |-> c, process |-> p]), job' = job,
         cst' = [cst EXCEPT ![c] = "waiting"]
  PROVE  HeldOnce(d)'
<1> DEFINE j == [client |-> c, process |-> p]
<1>1. /\ j \in Job /\ j.client = c /\ j.process # "event" /\ queue \in Seq(Job)
      /\ queue' = Append(queue, j)
  BY DEF IInv, TypeOK, Job
<1> HIDE DEF j
<1>2. /\ Len(queue') = Len(queue) + 1 /\ Len(queue) \in Nat
      /\ queue'[Len(queue) + 1] = j
      /\ \A i \in 1..Len(queue) : queue'[i] = queue[i]
  BY <1>1
<1>3. /\ \A i \in 1..Len(queue) : Queued(i, d)' <=> Queued(i, d)
      /\ \A i \in {Len(queue) + 1} : Queued(i, d)' <=> d = c
      /\ \A h \in Handler : Serves(h, d)' <=> Serves(h, d)
  BY <1>1, <1>2 DEF Queued, Serves
<1>4. cst'[d] = "waiting" <=> cst[d] = "waiting" \/ d = c
  BY DEF IInv, TypeOK
<1>5. 1..Len(queue') = (1..Len(queue)) \cup {Len(queue) + 1}
  BY <1>2
<1> QED
  BY <1>3, <1>4, <1>5 DEF HeldOnce

\* The notice of a source that starts or ends is no hold on its client.
LEMMA HeldEvent ==
  ASSUME IInv, NEW c \in Client, NEW d \in Client, HeldOnce(d),
         queue' = Append(queue, [client |-> c, process |-> "event"]), job' = job,
         cst'[d] = "waiting" <=> cst[d] = "waiting"
  PROVE  HeldOnce(d)'
<1> DEFINE j == [client |-> c, process |-> "event"]
<1>1. /\ j \in Job /\ j.process = "event" /\ queue \in Seq(Job)
      /\ queue' = Append(queue, j)
  BY DEF IInv, TypeOK, Job, Process
<1> HIDE DEF j
<1>2. /\ Len(queue') = Len(queue) + 1 /\ Len(queue) \in Nat
      /\ queue'[Len(queue) + 1] = j
      /\ \A i \in 1..Len(queue) : queue'[i] = queue[i]
  BY <1>1
<1>3. /\ \A i \in 1..Len(queue) : Queued(i, d)' <=> Queued(i, d)
      /\ \A i \in {Len(queue) + 1} : ~Queued(i, d)'
      /\ \A h \in Handler : Serves(h, d)' <=> Serves(h, d)
  BY <1>1, <1>2 DEF Queued, Serves
<1>4. 1..Len(queue') = (1..Len(queue)) \cup {Len(queue) + 1}
  BY <1>2
<1> QED
  BY <1>3, <1>4 DEF HeldOnce

\* Nothing is queued or taken, and nobody is put aside or given back.
LEMMA HeldSame ==
  ASSUME NEW d \in Client, HeldOnce(d), UNCHANGED <<queue, job>>,
         cst'[d] = "waiting" <=> cst[d] = "waiting"
  PROVE  HeldOnce(d)'
  BY DEF HeldOnce, Queued, Serves

\* The client at the head of the queue passes into the hands of the thread.
LEMMA HeldTaken ==
  ASSUME IInv, IdleHands, NEW h \in Handler, TakeHead(h), NEW d \in Client,
         HeldOnce(d)
  PROVE  HeldOnce(d)'
<1>1. /\ queue \in Seq(Job) /\ queue # <<>> /\ queue' = Tail(queue)
      /\ job' = [job EXCEPT ![h] = queue[1]] /\ job[h] = NoJob
      /\ job \in [Handler -> Job \cup {NoJob}] /\ cst' = cst
  BY DEF TakeHead, IInv, TypeOK, IdleHands
<1>2. /\ Len(queue) \in Nat \ {0} /\ Len(queue') = Len(queue) - 1
      /\ \A i \in 1..Len(queue') : queue'[i] = queue[i + 1]
  BY <1>1
<1>3. \A i \in 1..Len(queue') : Queued(i, d)' <=> Queued(i + 1, d)
  BY <1>2 DEF Queued
<1>4. /\ Serves(h, d)' <=> Queued(1, d)
      /\ \A g \in Handler \ {h} : Serves(g, d)' <=> Serves(g, d)
      /\ ~Serves(h, d)
  BY <1>1 DEF Queued, Serves, NoJob
<1>5. \A i \in 1..Len(queue) : i = 1 \/ (i - 1 \in 1..Len(queue') /\ i = (i - 1) + 1)
  BY <1>2
<1>6. /\ \A i \in 1..Len(queue') : i + 1 \in 1..Len(queue) /\ i + 1 # 1
      /\ 1 \in 1..Len(queue)
  BY <1>2
<1>7. (\E i \in 1..Len(queue) : Queued(i, d))
        <=> Queued(1, d) \/ \E i \in 1..Len(queue') : Queued(i, d)'
  BY <1>3, <1>5, <1>6
<1>8. \A i, k \in 1..Len(queue') : Queued(i, d)' /\ Queued(k, d)' => i = k
  BY <1>2, <1>3, <1>6 DEF HeldOnce
<1>9. \A i \in 1..Len(queue'), g \in Handler : ~(Queued(i, d)' /\ Serves(g, d)')
  BY <1>3, <1>4, <1>6 DEF HeldOnce
<1>10. \A f, g \in Handler : Serves(f, d)' /\ Serves(g, d)' => f = g
  BY <1>4, <1>6 DEF HeldOnce
<1>11. (\E i \in 1..Len(queue) : Queued(i, d)) \/ (\E g \in Handler : Serves(g, d))
         <=> (\E i \in 1..Len(queue') : Queued(i, d)') \/ (\E g \in Handler : Serves(g, d)')
  BY <1>4, <1>7
<1> QED
  BY <1>1, <1>8, <1>9, <1>10, <1>11 DEF HeldOnce

\* A thread that is done with a client has given it back.
LEMMA HeldAnswered ==
  ASSUME IInv, NEW h \in Handler, ProcessJob(h), NEW d \in Client, HeldOnce(d)
  PROVE  HeldOnce(d)'
<1>1. /\ job[h] \in Job /\ job[h].client \in Client /\ job[h].process \in Process
      /\ queue' = queue /\ job' = [job EXCEPT ![h] = NoJob]
      /\ job \in [Handler -> Job \cup {NoJob}] /\ cst \in [Client -> ClientStates]
  BY DEF ProcessJob, IInv, TypeOK, JobInHand, Job, authVars
<1>2. PICK s \in Outcomes(job[h]) : cst' = [cst EXCEPT ![job[h].client] = s]
  BY DEF ProcessJob, Becomes
<1>3. /\ ~Serves(h, d)'
      /\ \A g \in Handler \ {h} : Serves(g, d)' <=> Serves(g, d)
      /\ \A i \in 1..Len(queue) : Queued(i, d)' <=> Queued(i, d)
  BY <1>1, NoneAssumption DEF Serves, Queued, NoJob
<1>4. CASE Serves(h, d)
  <2>1. cst'[d] # "waiting"
    BY <1>1, <1>2, <1>4 DEF Serves, Outcomes, Process
  <2> QED
    BY <1>1, <1>3, <1>4, <2>1 DEF HeldOnce
<1>5. CASE ~Serves(h, d)
  <2>1. cst'[d] = cst[d]
    BY <1>1, <1>2, <1>5 DEF Serves, Outcomes
  <2> QED
    BY <1>1, <1>3, <1>5, <2>1 DEF HeldOnce
<1> QED
  BY <1>4, <1>5

\* queue_auth_client starts threads that have no client yet.
LEMMA QueueHands ==
  ASSUME IInv, IdleHands, NEW j, QueueAuthClient(j) \/ UNCHANGED <<authVars, hpc>>,
         job' = job
  PROVE  IdleHands'
<1>1. UNCHANGED hpc \/ \E h \in Handler \ handle : hpc' = [hpc EXCEPT ![h] = "created"]
  BY DEF QueueAuthClient, QueueBusy, QueueStart
<1> QED
  BY <1>1 DEF IInv, TypeOK, HandleThreads, IdleHands

\* The steps of the workers leave each client in one place.
LEMMA HeldClient ==
  ASSUME IInv, HInv, NEW c \in Client, ClientStep(c)
  PROVE  HInv'
<1>0. cst \in [Client -> ClientStates] /\ \A d \in Client : HeldOnce(d)
  BY DEF IInv, TypeOK, HInv
<1>1. CASE AuthAddListener(c) \/ AuthAddRefused(c) \/ AuthSkipped(c)
  <2>1. PICK s \in ClientStates \ {"waiting"} : Becomes(c, s)
    BY <1>1 DEF AuthAddListener, AuthAddRefused, AuthSkipped, ClientStates
  <2>2. cst[c] = "new" /\ UNCHANGED <<authVars, hpc, job>>
    BY <1>1 DEF AuthAddListener, AuthAddRefused, AuthSkipped
  <2>3. \A d \in Client : cst'[d] = "waiting" <=> cst[d] = "waiting"
    BY <1>0, <2>1, <2>2 DEF Becomes
  <2> QED
    BY <1>0, <2>2, <2>3, HeldSame DEF HInv, IdleHands, authVars
<1>2. CASE QueueListener(c) \/ AuthStreamAuthenticate(c) \/ AuthReleaseListener(c)
  <2>1. cst[c] # "waiting" /\ UNCHANGED job
    BY <1>2 DEF QueueListener, AuthStreamAuthenticate, AuthReleaseListener
  <2>2. \/ /\ \E p \in Process \ {"event"} :
                QueueAuthClient([client |-> c, process |-> p])
           /\ cst' = [cst EXCEPT ![c] = "waiting"]
        \/ /\ UNCHANGED <<authVars, hpc>>
           /\ cst' = [cst EXCEPT ![c] = "gone"]
    BY <1>2 DEF QueueListener, AuthStreamAuthenticate, AuthReleaseListener,
                QueueFails, Process, Becomes
  <2>3. CASE /\ UNCHANGED <<authVars, hpc>>
             /\ cst' = [cst EXCEPT ![c] = "gone"]
    <3>1. \A d \in Client : cst'[d] = "waiting" <=> cst[d] = "waiting"
      BY <1>0, <2>1, <2>3
    <3> QED
      BY <1>0, <2>1, <2>3, <3>1, HeldSame DEF HInv, IdleHands, authVars
  <2>4. ASSUME NEW p \in Process \ {"event"},
               QueueAuthClient([client |-> c, process |-> p]),
               cst' = [cst EXCEPT ![c] = "waiting"]
        PROVE  HInv'
    <3>1. queue' = Append(queue, [client |-> c, process |-> p])
      BY <2>4 DEF QueueAuthClient, QueueBusy, QueueStart, PutLast
    <3>2. IdleHands'
      BY <2>1, <2>4, QueueHands DEF HInv
    <3>3. \A d \in Client : HeldOnce(d)'
      BY <1>0, <2>1, <2>4, <3>1, HeldQueued
    <3> QED
      BY <3>2, <3>3 DEF HInv
  <2> QED
    BY <2>2, <2>3, <2>4
<1>3. CASE AuthStreamStart(c) \/ AuthStreamEnd(c)
  <2>1. PICK s \in {"streaming", "gone"} : cst' = [cst EXCEPT ![c] = s]
    BY <1>3 DEF AuthStreamStart, AuthStreamEnd, Becomes
  <2>2. cst[c] # "waiting" /\ UNCHANGED job /\ QueueEvent(c)
    BY <1>3 DEF AuthStreamStart, AuthStreamEnd
  <2>3. \A d \in Client : cst'[d] = "waiting" <=> cst[d] = "waiting"
    BY <1>0, <2>1, <2>2
  <2>4. CASE QueueAuthClient([client |-> c, process |-> "event"])
    <3>1. queue' = Append(queue, [client |-> c, process |-> "event"])
      BY <2>4 DEF QueueAuthClient, QueueBusy, QueueStart, PutLast
    <3>2. IdleHands'
      BY <2>2, <2>4, QueueHands DEF HInv
    <3>3. \A d \in Client : HeldOnce(d)'
      BY <1>0, <2>2, <2>3, <3>1, HeldEvent
    <3> QED
      BY <3>2, <3>3 DEF HInv
  <2>5. CASE UNCHANGED <<authVars, hpc>>
    BY <1>0, <2>2, <2>3, <2>5, HeldSame DEF HInv, IdleHands, authVars
  <2> QED
    BY <2>2, <2>4, <2>5 DEF QueueEvent
<1> QED
  BY <1>1, <1>2, <1>3 DEF ClientStep

\* Every step leaves each client in one place.
LEMMA HeldNext == IInv /\ HInv /\ [Next]_vars => HInv'
<1> SUFFICES ASSUME IInv, HInv, [Next]_vars PROVE HInv'
  OBVIOUS
<1>1. CASE \E c \in Client : ClientStep(c)
  BY <1>1, HeldClient
<1>2. ASSUME NEW h \in Handler, ThreadStep(h)
      PROVE  HInv'
  <2>1. IdleHands'
    BY <1>2 DEF ThreadStep, ThreadBegin, TakeHead, ProcessJob, ThreadFinish,
                IInv, TypeOK, HInv, IdleHands
  <2>2. ASSUME NEW d \in Client PROVE HeldOnce(d)'
    <3>1. HeldOnce(d) /\ IdleHands
      BY DEF HInv
    <3>2. CASE TakeHead(h)
      BY <3>1, <3>2, HeldTaken
    <3>3. CASE ProcessJob(h)
      BY <3>1, <3>3, HeldAnswered
    <3>4. CASE ThreadBegin(h) \/ ThreadFinish(h)
      BY <3>1, <3>4, HeldSame DEF ThreadBegin, ThreadFinish, authVars
    <3> QED
      BY <1>2, <3>2, <3>3, <3>4 DEF ThreadStep
  <2> QED
    BY <2>1, <2>2 DEF HInv
<1>3. CASE SetConfig \/ ConfigClear \/ AuthShutdown \/ DestroyAuthLock \/ UNCHANGED vars
  <2>1. UNCHANGED <<queue, hpc, job, cst>>
    BY <1>3 DEF SetConfig, ConfigClear, AuthShutdown, DestroyAuthLock, vars, authVars
  <2> QED
    BY <2>1, HeldSame DEF HInv, IdleHands
<1> QED
  BY <1>1, <1>2, <1>3 DEF Next

\* The places of a client are those that HeldOnce speaks of.
LEMMA HeldCounted ==
  ASSUME IInv, HInv, NEW c \in Client
  PROVE  Cardinality(Held(c)) = IF cst[c] = "waiting" THEN 1 ELSE 0
<1>1. HeldOnce(c)
  BY DEF HInv
<1>2. Held(c) = {<<"queue", i>> : i \in {k \in 1..Len(queue) : Queued(k, c)}}
                \cup {<<"thread", h>> : h \in {g \in Handler : Serves(g, c)}}
  BY DEF Held, Queued, Serves
<1>3. CASE cst[c] # "waiting"
  <2>1. Held(c) = {}
    BY <1>1, <1>2, <1>3 DEF HeldOnce
  <2> QED
    BY <1>3, <2>1, FS_EmptySet
<1>4. ASSUME cst[c] = "waiting", NEW i \in 1..Len(queue), Queued(i, c)
      PROVE  Cardinality(Held(c)) = 1
  <2>1. /\ {k \in 1..Len(queue) : Queued(k, c)} = {i}
        /\ {g \in Handler : Serves(g, c)} = {}
    BY <1>1, <1>4 DEF HeldOnce
  <2>2. Held(c) = {<<"queue", i>>}
    BY <1>2, <2>1
  <2> QED
    BY <2>2, FS_Singleton
<1>5. ASSUME cst[c] = "waiting", NEW h \in Handler, Serves(h, c)
      PROVE  Cardinality(Held(c)) = 1
  <2>1. /\ {k \in 1..Len(queue) : Queued(k, c)} = {}
        /\ {g \in Handler : Serves(g, c)} = {h}
    BY <1>1, <1>5 DEF HeldOnce
  <2>2. Held(c) = {<<"thread", h>>}
    BY <1>2, <2>1
  <2> QED
    BY <2>2, FS_Singleton
<1> QED
  BY <1>1, <1>3, <1>4, <1>5 DEF HeldOnce

-----------------------------------------------------------------------------
(* The listeners in the queue, and those about to enter it.                *)

Listeners == {i \in 1..Len(queue) : queue[i].process = "listener"}
Checked == {c \in Client : cst[c] = "checked"}

\* A listener that passed the test of pending_count is counted already.
ListenersAdmitted ==
  /\ IsFiniteSet(Checked)
  /\ Cardinality(Listeners) + Cardinality(Checked) <= MaxPending + Threads

\* The numbers that ListenersAdmitted adds up.
LEMMA ListenersFinite ==
  ASSUME IInv
  PROVE  /\ IsFiniteSet(Listeners)
         /\ Cardinality(Listeners) \in Nat /\ Cardinality(Listeners) <= Len(queue)
<1>1. Len(queue) \in Nat
  BY DEF IInv, TypeOK
<1>2. IsFiniteSet(1..Len(queue)) /\ Cardinality(1..Len(queue)) = Len(queue)
  <2> DEFINE n == Len(queue)
  <2>1. 1 \in Int /\ n \in Int /\ n \in Nat
    BY <1>1
  <2> HIDE DEF n
  <2>2. IsFiniteSet(1..n) /\ Cardinality(1..n) = IF 1 > n THEN 0 ELSE n - 1 + 1
    BY ONLY <2>1, FS_Interval
  <2>3. IsFiniteSet(1..n) /\ Cardinality(1..n) = n
    BY <2>1, <2>2
  <2> QED
    BY <2>3 DEF n
<1>3. Listeners \in SUBSET (1..Len(queue))
  BY DEF Listeners
<1> QED
  BY <1>2, <1>3, FS_Subset, FS_CardinalityType

\* Appending a request adds one listener or none.
LEMMA ListenersAppend ==
  ASSUME IInv, NEW j \in Job, queue' = Append(queue, j)
  PROVE  Cardinality(Listeners') =
           Cardinality(Listeners) + (IF j.process = "listener" THEN 1 ELSE 0)
<1>1. /\ Len(queue) \in Nat /\ Len(queue') = Len(queue) + 1
      /\ queue'[Len(queue) + 1] = j
      /\ \A i \in 1..Len(queue) : queue'[i] = queue[i]
  BY DEF IInv, TypeOK
<1>2. 1..Len(queue') = (1..Len(queue)) \cup {Len(queue) + 1}
  BY <1>1
<1>3. CASE j.process = "listener"
  <2>1. /\ Listeners' = Listeners \cup {Len(queue) + 1}
        /\ Len(queue) + 1 \notin Listeners
    BY <1>1, <1>2, <1>3 DEF Listeners
  <2> QED
    BY <1>3, <2>1, ListenersFinite, FS_AddElement
<1>4. CASE j.process # "listener"
  <2>1. Listeners' = Listeners
    BY <1>1, <1>2, <1>4 DEF Listeners
  <2> QED
    BY <1>4, <2>1, ListenersFinite
<1> QED
  BY <1>3, <1>4

\* Taking the head away adds none.
LEMMA ListenersTail ==
  ASSUME IInv, queue # <<>>, queue' = Tail(queue)
  PROVE  Cardinality(Listeners') \in Nat /\ Cardinality(Listeners') <= Cardinality(Listeners)
<1>1. /\ Len(queue) \in Nat /\ Len(queue') = Len(queue) - 1
      /\ \A i \in 1..Len(queue') : queue'[i] = queue[i + 1]
  BY DEF IInv, TypeOK
<1> DEFINE f == [i \in Listeners' |-> i + 1]
<1>2. f \in Injection(Listeners', Listeners)
  <2>1. \A i \in Listeners' : i \in Nat /\ i + 1 \in Listeners
    BY <1>1 DEF Listeners
  <2>2. \A i, k \in Listeners' : f[i] = f[k] => i = k
    BY <2>1
  <2>3. f \in [Listeners' -> Listeners]
    BY <2>1
  <2> QED
    BY <2>2, <2>3 DEF Injection, IsInjective
<1> QED
  BY <1>2, ListenersFinite, FS_Injection, FS_CardinalityType

\* A client that comes to be checked, or ceases to be, is one.
LEMMA CheckedCounted ==
  ASSUME IInv, IsFiniteSet(Checked), NEW c \in Client, NEW s \in ClientStates,
         cst' = [cst EXCEPT ![c] = s]
  PROVE  /\ IsFiniteSet(Checked')
         /\ Cardinality(Checked) \in Nat
         /\ s = "checked" /\ cst[c] # "checked"
              => Cardinality(Checked') = Cardinality(Checked) + 1
         /\ s # "checked" /\ cst[c] = "checked"
              => Cardinality(Checked') = Cardinality(Checked) - 1
         /\ (s = "checked" <=> cst[c] = "checked")
              => Cardinality(Checked') = Cardinality(Checked)
<1>1. cst \in [Client -> ClientStates] /\ Cardinality(Checked) \in Nat
  BY FS_CardinalityType DEF IInv, TypeOK
<1>2. c \in Checked <=> cst[c] = "checked"
  BY DEF Checked
<1>3. CASE s = "checked"
  <2>1. Checked' = Checked \cup {c}
    BY <1>1, <1>3 DEF Checked
  <2> QED
    BY <1>1, <1>2, <1>3, <2>1, FS_AddElement
<1>4. CASE s # "checked"
  <2>1. Checked' = Checked \ {c}
    BY <1>1, <1>4 DEF Checked
  <2> QED
    BY <1>1, <1>2, <1>4, <2>1, FS_RemoveElement
<1> QED
  BY <1>3, <1>4

\* The worker threads in auth_add_listener are all that can go beyond the limit.
LEMMA AdmittedClient ==
  ASSUME IInv, ListenersAdmitted, NEW c \in Client, ClientStep(c)
  PROVE  ListenersAdmitted'
<1>0. /\ IsFiniteSet(Checked) /\ Cardinality(Listeners) \in Nat
      /\ Cardinality(Listeners) + Cardinality(Checked) <= MaxPending + Threads
      /\ Cardinality(Checked) \in Nat
  BY ListenersFinite, FS_CardinalityType DEF ListenersAdmitted
<1>1. ASSUME NEW s \in ClientStates, Becomes(c, s), s # "checked",
             NEW p \in Process, p = "listener" => cst[c] = "checked",
             \/ QueueAuthClient([client |-> c, process |-> p])
             \/ UNCHANGED <<authVars, hpc>>
      PROVE  ListenersAdmitted'
  <2>1. /\ IsFiniteSet(Checked')
        /\ Cardinality(Checked') = Cardinality(Checked)
                                     - (IF cst[c] = "checked" THEN 1 ELSE 0)
    <3>1. /\ IsFiniteSet(Checked')
          /\ cst[c] = "checked" => Cardinality(Checked') = Cardinality(Checked) - 1
          /\ cst[c] # "checked" => Cardinality(Checked') = Cardinality(Checked)
      BY <1>0, <1>1, CheckedCounted DEF Becomes
    <3> QED
      BY <1>0, <3>1
  <2>2. CASE UNCHANGED <<authVars, hpc>>
    <3>1. Listeners' = Listeners
      BY <2>2 DEF Listeners, authVars
    <3> QED
      BY <1>0, <2>1, <3>1, LimitAssumption DEF ListenersAdmitted
  <2>3. CASE QueueAuthClient([client |-> c, process |-> p])
    <3>1. [client |-> c, process |-> p] \in Job
      BY DEF Job
    <3>2. queue' = Append(queue, [client |-> c, process |-> p])
      BY <2>3 DEF QueueAuthClient, QueueBusy, QueueStart, PutLast
    <3>3. Cardinality(Listeners') =
            Cardinality(Listeners) + (IF p = "listener" THEN 1 ELSE 0)
      BY <3>1, <3>2, ListenersAppend
    <3> QED
      BY <1>0, <1>1, <2>1, <3>3, LimitAssumption DEF ListenersAdmitted
  <2> QED
    BY <1>1, <2>2, <2>3
<1>2. CASE AuthAddListener(c)
  <2>1. /\ Cardinality(Checked) < Threads /\ pending <= MaxPending
        /\ cst' = [cst EXCEPT ![c] = "checked"] /\ cst[c] = "new"
        /\ queue' = queue
    BY <1>2 DEF AuthAddListener, Checked, Becomes, authVars
  <2>2. IsFiniteSet(Checked') /\ Cardinality(Checked') = Cardinality(Checked) + 1
    BY <1>0, <2>1, CheckedCounted DEF ClientStates
  <2>3. Listeners' = Listeners
    BY <2>1 DEF Listeners
  <2>4. Cardinality(Listeners) <= MaxPending
    BY <2>1, ListenersFinite, LimitAssumption DEF IInv, PendingCounted, TypeOK
  <2> QED
    BY <1>0, <2>1, <2>2, <2>3, <2>4, LimitAssumption DEF ListenersAdmitted
<1>3. CASE AuthAddRefused(c) \/ AuthSkipped(c)
  BY <1>1, <1>3 DEF AuthAddRefused, AuthSkipped, ClientStates, Process
<1>4. CASE QueueListener(c)
  <2>1. "listener" \in Process /\ {"waiting", "gone"} \subseteq ClientStates
    BY DEF Process, ClientStates
  <2> QED
    BY <1>1, <1>4, <2>1 DEF QueueListener, QueueFails
<1>5. CASE AuthReleaseListener(c) \/ AuthStreamAuthenticate(c)
  <2>1. {"remove", "source"} \subseteq Process /\ {"waiting", "gone"} \subseteq ClientStates
    BY DEF Process, ClientStates
  <2> QED
    BY <1>1, <1>5, <2>1 DEF AuthReleaseListener, AuthStreamAuthenticate, QueueFails
<1>6. CASE AuthStreamStart(c) \/ AuthStreamEnd(c)
  <2>1. "event" \in Process /\ {"streaming", "gone"} \subseteq ClientStates
    BY DEF Process, ClientStates
  <2> QED
    BY <1>1, <1>6, <2>1 DEF AuthStreamStart, AuthStreamEnd, QueueEvent
<1> QED
  BY <1>2, <1>3, <1>4, <1>5, <1>6 DEF ClientStep

\* No other step admits a listener.
LEMMA AdmittedNext == IInv /\ ListenersAdmitted /\ [Next]_vars => ListenersAdmitted'
<1> SUFFICES ASSUME IInv, ListenersAdmitted, [Next]_vars PROVE ListenersAdmitted'
  OBVIOUS
<1>0. /\ IsFiniteSet(Checked) /\ Cardinality(Listeners) \in Nat
      /\ Cardinality(Listeners) + Cardinality(Checked) <= MaxPending + Threads
      /\ Cardinality(Checked) \in Nat
  BY ListenersFinite, FS_CardinalityType DEF ListenersAdmitted
<1>1. CASE \E c \in Client : ClientStep(c)
  BY <1>1, AdmittedClient
<1>2. CASE UNCHANGED <<queue, cst>>
  BY <1>2 DEF ListenersAdmitted, Listeners, Checked
<1>3. ASSUME NEW h \in Handler, TakeHead(h)
      PROVE  ListenersAdmitted'
  <2>1. Checked' = Checked /\ queue # <<>> /\ queue' = Tail(queue)
    BY <1>3 DEF TakeHead, Checked
  <2>2. /\ Cardinality(Listeners') \in Nat
        /\ Cardinality(Listeners') <= Cardinality(Listeners)
    BY <2>1, ListenersTail
  <2> QED
    BY <1>0, <2>1, <2>2, LimitAssumption DEF ListenersAdmitted
<1>4. ASSUME NEW h \in Handler, ProcessJob(h)
      PROVE  ListenersAdmitted'
  <2>1. Listeners' = Listeners
    BY <1>4 DEF ProcessJob, authVars, Listeners
  <2>2. /\ job[h].client \in Client /\ job[h].process \in Process
        /\ cst \in [Client -> ClientStates]
    BY <1>4 DEF ProcessJob, IInv, TypeOK, JobInHand, Job
  <2>3. PICK s \in Outcomes(job[h]) : cst' = [cst EXCEPT ![job[h].client] = s]
    BY <1>4 DEF ProcessJob, Becomes
  <2>4. s \in ClientStates /\ (s = "checked" => cst[job[h].client] = "checked")
    BY <2>2, <2>3 DEF Outcomes, Process, ClientStates
  <2>5. /\ IsFiniteSet(Checked') /\ Cardinality(Checked') \in Nat
        /\ Cardinality(Checked') <= Cardinality(Checked)
    <3>1. /\ IsFiniteSet(Checked')
          /\ \/ Cardinality(Checked') = Cardinality(Checked) - 1
             \/ Cardinality(Checked') = Cardinality(Checked)
      BY <1>0, <2>2, <2>3, <2>4, CheckedCounted
    <3>2. Cardinality(Checked') \in Nat
      BY <3>1, FS_CardinalityType
    <3> QED
      BY <1>0, <3>1, <3>2
  <2> QED
    BY <1>0, <2>1, <2>5, LimitAssumption DEF ListenersAdmitted
<1> QED
  BY <1>1, <1>2, <1>3, <1>4
     DEF Next, ThreadStep, ThreadBegin, ThreadFinish, SetConfig, ConfigClear,
         AuthShutdown, DestroyAuthLock, vars, authVars

-----------------------------------------------------------------------------
\* The queue starts out with nobody in it.
LEMMA InitHeld == Init => HInv /\ ListenersAdmitted
<1> SUFFICES ASSUME Init PROVE HInv /\ ListenersAdmitted
  OBVIOUS
<1>1. HInv
  BY NoneAssumption DEF Init, HInv, IdleHands, HeldOnce, Queued, Serves, NoJob
<1>2. Listeners = {} /\ Checked = {}
  BY DEF Init, Listeners, Checked
<1> QED
  BY <1>1, <1>2, FS_EmptySet, LimitAssumption DEF ListenersAdmitted

\* A client that its worker has put aside is in one place of the queue or with
\* one thread, whatever the threads and the workers do meanwhile, and the queue
\* never holds more new listeners than the limit and the worker threads that
\* test it without the lock.
THEOREM AllAccounted == Spec => []ClientsAccounted
<1>1. Spec => [](IInv /\ HInv /\ ListenersAdmitted)
  BY InitIInv, NextIInv, InitHeld, HeldNext, AdmittedNext, PTL DEF Spec
<1>2. ASSUME IInv, HInv, ListenersAdmitted PROVE ClientsAccounted
  <2>1. OneHolder
    BY <1>2, HeldCounted DEF OneHolder
  <2>2. Cardinality(Checked) \in Nat /\ Cardinality(Listeners) \in Nat
    BY <1>2, FS_CardinalityType, ListenersFinite DEF ListenersAdmitted
  <2>3. ListenersBounded
    BY <1>2, <2>2, LimitAssumption DEF ListenersAdmitted, ListenersBounded, Listeners
  <2> QED
    BY <2>1, <2>3 DEF ClientsAccounted
<1> QED
  BY <1>1, <1>2, PTL

-----------------------------------------------------------------------------
(* The queue implements AuthService.                                       *)

\* The mapping of the refinement, by variable.
AtBar == [c \in Client |-> IF cst[c] = "checked" THEN "new" ELSE cst[c]]
AskedBar == [c \in Client |-> AskedFor(c)]

\* What is asked for a client is what its only entry says.
Answered(c) ==
  /\ cst[c] # "waiting" => AskedFor(c) = ""
  /\ \A i \in 1..Len(queue) : Queued(i, c) => AskedFor(c) = queue[i].process
  /\ \A h \in Handler : Serves(h, c) => AskedFor(c) = job[h].process

AllAnswered == \A c \in Client : Answered(c)

LEMMA AskedOnce == HInv => AllAnswered
<1> SUFFICES ASSUME HInv, NEW c \in Client PROVE Answered(c)
  BY DEF AllAnswered
<1>1. HeldOnce(c)
  BY DEF HInv
<1> DEFINE waits(j) == j.client = c /\ j.process # "event"
           jobs == {queue[i] : i \in 1..Len(queue)} \cup {job[h] : h \in Handler}
           found == CHOOSE j \in jobs : waits(j)
<1>2. AskedFor(c) = IF \E j \in jobs : waits(j) THEN found.process ELSE ""
  BY DEF AskedFor
<1>3. (\E j \in jobs : waits(j))
        <=> \/ \E i \in 1..Len(queue) : Queued(i, c)
            \/ \E h \in Handler : Serves(h, c)
  BY DEF Queued, Serves
<1>4. (\E j \in jobs : waits(j)) =>
        \/ \E i \in 1..Len(queue) : Queued(i, c) /\ found = queue[i]
        \/ \E h \in Handler : Serves(h, c) /\ found = job[h]
  <2> SUFFICES ASSUME \E j \in jobs : waits(j)
               PROVE  \/ \E i \in 1..Len(queue) : Queued(i, c) /\ found = queue[i]
                      \/ \E h \in Handler : Serves(h, c) /\ found = job[h]
    OBVIOUS
  <2>1. found \in jobs /\ waits(found)
    OBVIOUS
  <2> QED
    BY <2>1 DEF Queued, Serves
<1> HIDE DEF waits, jobs, found
<1>5. cst[c] # "waiting" => AskedFor(c) = ""
  BY <1>1, <1>2, <1>3 DEF HeldOnce
<1>6. ASSUME NEW i \in 1..Len(queue), Queued(i, c)
      PROVE  AskedFor(c) = queue[i].process
  <2>1. found = queue[i]
    BY <1>1, <1>3, <1>4, <1>6 DEF HeldOnce
  <2> QED
    BY <1>2, <1>3, <1>6, <2>1
<1>7. ASSUME NEW h \in Handler, Serves(h, c)
      PROVE  AskedFor(c) = job[h].process
  <2>1. found = job[h]
    BY <1>1, <1>3, <1>4, <1>7 DEF HeldOnce
  <2> QED
    BY <1>2, <1>3, <1>7, <2>1
<1> QED
  BY <1>5, <1>6, <1>7 DEF Answered

\* The same after a step.
LEMMA AskedOnceNext == HInv' => AllAnswered'
  BY AskedOnce, PTL

\* Nobody waits for a structure that was freed.
Unused ==
  memory # "live" => ~inConfig /\ \A c \in Client : cst[c] # "waiting"

LEMMA FreedUnused == IInv /\ HInv => Unused
<1> SUFFICES ASSUME IInv, HInv, memory # "live"
             PROVE  ~inConfig /\ \A c \in Client : cst[c] # "waiting"
  BY DEF Unused
<1>1. AuthAlive
  BY AliveInv
<1>2. queue = <<>> /\ \A h \in Handler : hpc[h] = "off"
  BY <1>1 DEF AuthAlive, Running
<1>3. /\ 1..Len(queue) = {}
      /\ \A h \in Handler : job[h] = NoJob
  BY <1>2 DEF HInv, IdleHands
<1> QED
  BY <1>1, <1>3 DEF AuthAlive, HInv, HeldOnce, Serves, NoJob

\* What is asked for a client stays the same while its entry does.
LEMMA AskedSame ==
  ASSUME HInv, HInv', NEW d \in Client, cst'[d] = "waiting" <=> cst[d] = "waiting",
         \/ \E i \in 1..Len(queue), k \in 1..Len(queue') :
              Queued(i, d) /\ Queued(k, d)' /\ queue'[k] = queue[i]
         \/ \E i \in 1..Len(queue), h \in Handler :
              Queued(i, d) /\ Serves(h, d)' /\ job'[h] = queue[i]
         \/ \E h \in Handler : Serves(h, d) /\ Serves(h, d)' /\ job'[h] = job[h]
         \/ cst[d] # "waiting"
  PROVE  AskedFor(d)' = AskedFor(d)
<1>1. Answered(d) /\ Answered(d)'
  BY AskedOnce, AskedOnceNext DEF AllAnswered
<1> QED
  BY <1>1 DEF Answered

\* With the queue and the threads as they were, nothing else is asked.
LEMMA AskedUnchanged ==
  ASSUME UNCHANGED <<queue, job>>
  PROVE  AskedBar' = AskedBar
  BY DEF AskedBar, AskedFor

\* What becomes of a client in the terms of AuthService.
LEMMA AtStep ==
  ASSUME IInv, NEW c \in Client, NEW s \in ClientStates \ {"checked"},
         cst' = [cst EXCEPT ![c] = s]
  PROVE  AtBar' = [AtBar EXCEPT ![c] = s]
<1>1. cst \in [Client -> ClientStates]
  BY DEF IInv, TypeOK
<1> QED
  BY <1>1 DEF AtBar

\* A request that is queued changes what is asked for its client alone, and
\* the notice of a source nothing.
LEMMA AskedQueued ==
  ASSUME IInv, HInv, HInv', NEW c \in Client, NEW p \in Process, UNCHANGED job,
         QueueAuthClient([client |-> c, process |-> p]),
         NEW s \in ClientStates, cst' = [cst EXCEPT ![c] = s],
         cst[c] # "waiting", s = "waiting" <=> p # "event"
  PROVE  AskedBar' = IF p = "event" THEN AskedBar ELSE [AskedBar EXCEPT ![c] = p]
<1> DEFINE j == [client |-> c, process |-> p]
<1>1. /\ j \in Job /\ j.client = c /\ j.process = p /\ queue \in Seq(Job)
      /\ queue' = Append(queue, j) /\ cst \in [Client -> ClientStates]
  BY DEF QueueAuthClient, QueueBusy, QueueStart, PutLast, IInv, TypeOK, Job
<1> HIDE DEF j
<1>2. /\ Len(queue) \in Nat /\ Len(queue') = Len(queue) + 1
      /\ queue'[Len(queue) + 1] = j
      /\ \A i \in 1..Len(queue) : i \in 1..Len(queue') /\ queue'[i] = queue[i]
  BY <1>1
<1>3. ASSUME NEW d \in Client, d # c \/ p = "event"
      PROVE  AskedFor(d)' = AskedFor(d)
  <2>1. cst'[d] = "waiting" <=> cst[d] = "waiting"
    BY <1>1, <1>3
  <2>2. \A i \in 1..Len(queue) : Queued(i, d) => Queued(i, d)'
    BY <1>2 DEF Queued
  <2>3. \A h \in Handler : Serves(h, d) => Serves(h, d)'
    BY DEF Serves
  <2>4. cst[d] = "waiting" => \/ \E i \in 1..Len(queue) : Queued(i, d)
                              \/ \E h \in Handler : Serves(h, d)
    BY DEF HInv, HeldOnce
  <2> QED
    BY <1>2, <2>1, <2>2, <2>3, <2>4, AskedSame
<1>4. ASSUME p # "event"
      PROVE  AskedFor(c)' = p
  <2>1. \A i \in {Len(queue) + 1} : i \in 1..Len(queue') /\ Queued(i, c)'
    BY <1>1, <1>2, <1>4 DEF Queued
  <2>2. Answered(c)'
    BY AskedOnceNext DEF AllAnswered
  <2> QED
    BY <1>1, <1>2, <2>1, <2>2 DEF Answered
<1>5. CASE p = "event"
  BY <1>3, <1>5 DEF AskedBar
<1>6. CASE p # "event"
  BY <1>3, <1>4, <1>6 DEF AskedBar
<1> QED
  BY <1>5, <1>6

\* A client passes from the queue to a thread with what is asked for it.
LEMMA AskedTaken ==
  ASSUME IInv, HInv, HInv', NEW h \in Handler, TakeHead(h)
  PROVE  AskedBar' = AskedBar
<1>1. /\ queue \in Seq(Job) /\ queue # <<>> /\ queue' = Tail(queue)
      /\ job' = [job EXCEPT ![h] = queue[1]] /\ job[h] = NoJob
      /\ job \in [Handler -> Job \cup {NoJob}] /\ cst' = cst
  BY DEF TakeHead, IInv, TypeOK, HInv, IdleHands
<1>2. /\ Len(queue) \in Nat \ {0} /\ Len(queue') = Len(queue) - 1
      /\ \A i \in 1..Len(queue') : queue'[i] = queue[i + 1]
  BY <1>1
<1>3. ASSUME NEW d \in Client
      PROVE  AskedFor(d)' = AskedFor(d)
  <2>1. CASE cst[d] # "waiting"
    BY <1>1, <2>1, AskedSame
  <2>2. ASSUME NEW i \in 1..Len(queue), Queued(i, d)
        PROVE  AskedFor(d)' = AskedFor(d)
    <3>1. CASE i = 1
      BY <1>1, <2>2, <3>1, AskedSame DEF Queued, Serves
    <3>2. CASE i # 1
      <4>1. i - 1 \in 1..Len(queue') /\ queue'[i - 1] = queue[i]
        BY <1>2, <3>2
      <4>2. \A k \in {i - 1} : Queued(k, d)'
        BY <2>2, <4>1 DEF Queued
      <4> QED
        BY <1>1, <2>2, <4>1, <4>2, AskedSame
    <3> QED
      BY <3>1, <3>2
  <2>3. ASSUME NEW g \in Handler, Serves(g, d)
        PROVE  AskedFor(d)' = AskedFor(d)
    <3>1. g # h
      BY <1>1, <2>3 DEF Serves, NoJob
    <3> QED
      BY <1>1, <2>3, <3>1, AskedSame DEF Serves
  <2> QED
    BY <2>1, <2>2, <2>3 DEF HInv, HeldOnce
<1> QED
  BY <1>3 DEF AskedBar

\* A thread that is done with a client leaves nothing to be asked for it.
LEMMA AskedDone ==
  ASSUME IInv, HInv, HInv', NEW h \in Handler, ProcessJob(h)
  PROVE  /\ AskedBar' = IF job[h].process = "event" THEN AskedBar
                        ELSE [AskedBar EXCEPT ![job[h].client] = ""]
         /\ job[h].process # "event" => AskedFor(job[h].client) = job[h].process
<1>1. /\ job[h] \in Job /\ job[h].client \in Client /\ job[h].process \in Process
      /\ queue' = queue /\ job' = [job EXCEPT ![h] = NoJob]
      /\ job \in [Handler -> Job \cup {NoJob}] /\ cst \in [Client -> ClientStates]
  BY DEF ProcessJob, IInv, TypeOK, JobInHand, Job, authVars
<1>2. PICK s \in Outcomes(job[h]) : cst' = [cst EXCEPT ![job[h].client] = s]
  BY DEF ProcessJob, Becomes
<1>3. \A d \in Client : Answered(d) /\ Answered(d)'
  BY AskedOnce, AskedOnceNext DEF AllAnswered
<1>4. ASSUME NEW d \in Client, d # job[h].client \/ job[h].process = "event"
      PROVE  AskedFor(d)' = AskedFor(d)
  <2>1. cst'[d] = cst[d]
    BY <1>1, <1>2, <1>4 DEF Outcomes
  <2>2. \A g \in Handler : Serves(g, d) => g # h /\ Serves(g, d)' /\ job'[g] = job[g]
    BY <1>1, <1>4 DEF Serves
  <2>3. \A i \in 1..Len(queue) : Queued(i, d) => Queued(i, d)'
    BY <1>1 DEF Queued
  <2>4. cst[d] = "waiting" => \/ \E i \in 1..Len(queue) : Queued(i, d)
                              \/ \E g \in Handler : Serves(g, d)
    BY DEF HInv, HeldOnce
  <2> QED
    BY <1>1, <2>1, <2>2, <2>3, <2>4, AskedSame
<1>5. ASSUME job[h].process # "event"
      PROVE  /\ \A d \in {job[h].client} : AskedFor(d)' = ""
             /\ AskedFor(job[h].client) = job[h].process
  <2>1. cst'[job[h].client] # "waiting"
    BY <1>1, <1>2, <1>5 DEF Outcomes, Process
  <2>2. Serves(h, job[h].client)
    BY <1>5 DEF Serves
  <2>3. \A d \in Client : d = job[h].client => AskedFor(d)' = ""
    BY <1>3, <2>1 DEF Answered
  <2> QED
    BY <1>1, <1>3, <2>2, <2>3 DEF Answered
<1>6. CASE job[h].process = "event"
  BY <1>4, <1>6 DEF AskedBar
<1>7. CASE job[h].process # "event"
  BY <1>1, <1>4, <1>5, <1>7 DEF AskedBar
<1> QED
  BY <1>5, <1>6, <1>7

\* A step of AuthService or none, with the mapping spelled out.
Promised == Service!Next \/ UNCHANGED Service!avars

\* A step that leaves the clients where they are, and the structure.
LEMMA Stutters ==
  ASSUME AtBar' = AtBar, AskedBar' = AskedBar, UNCHANGED <<inConfig, memory>>
  PROVE  Promised
  BY DEF Promised, Service!avars, AtBar, AskedBar

\* A client takes one of the ways around authentication.
LEMMA PassesBy ==
  ASSUME IInv, NEW c \in Client, AskedBar' = AskedBar,
         UNCHANGED <<inConfig, memory>>, NEW s \in ClientStates \ {"checked"},
         cst' = [cst EXCEPT ![c] = s],
         \/ cst[c] \in {"new", "checked"} /\ s \in {"gone", "listening"}
         \/ cst[c] = "listening" /\ s = "gone"
         \/ cst[c] = "accepted" /\ s = "streaming"
         \/ cst[c] = "streaming" /\ s = "gone"
  PROVE  Promised
<1>1. AtBar' = [AtBar EXCEPT ![c] = s]
  BY AtStep
<1>2. AtBar[c] = IF cst[c] = "checked" THEN "new" ELSE cst[c]
  BY DEF AtBar
<1>3. <<AtBar[c], s>> \in
        {<<"new", "gone">>, <<"new", "listening">>, <<"listening", "gone">>,
         <<"accepted", "streaming">>, <<"streaming", "gone">>}
  BY <1>2
<1>4. Service!Passes(c)
  BY <1>1, <1>3 DEF Service!Passes, AtBar, AskedBar
<1> QED
  BY <1>4 DEF Promised, Service!Next

\* A client is handed over.
LEMMA AsksFor ==
  ASSUME IInv, NEW c \in Client, NEW p \in {"listener", "remove", "source"},
         inConfig, UNCHANGED <<inConfig, memory>>,
         cst' = [cst EXCEPT ![c] = "waiting"],
         AskedBar' = [AskedBar EXCEPT ![c] = p],
         IF p = "remove" THEN cst[c] = "listening" ELSE cst[c] \in {"new", "checked"}
  PROVE  Promised
<1>1. AtBar' = [AtBar EXCEPT ![c] = "waiting"]
  BY AtStep DEF ClientStates
<1>2. memory = "live"
  BY AliveInv DEF AuthAlive
<1>3. p \in DOMAIN Service!Asks /\ AtBar[c] = Service!Asks[p]
  BY DEF Service!Asks, AtBar
<1>4. Service!Ask(c, p)
  BY <1>1, <1>2, <1>3 DEF Service!Ask, AtBar, AskedBar
<1> QED
  BY <1>3, <1>4 DEF Promised, Service!Next

\* The steps of the workers are those of AuthService, or none.
LEMMA PromisedClient ==
  ASSUME IInv, HInv, HInv', NEW c \in Client, ClientStep(c)
  PROVE  Promised
<1>0. cst \in [Client -> ClientStates]
  BY DEF IInv, TypeOK
<1>1. CASE AuthAddListener(c)
  <2>1. cst[c] = "new" /\ cst' = [cst EXCEPT ![c] = "checked"]
        /\ UNCHANGED <<authVars, hpc, job, configVars, endVars>>
    BY <1>1 DEF AuthAddListener, Becomes
  <2>2. AtBar' = AtBar
    BY <1>0, <2>1 DEF AtBar
  <2> QED
    BY <2>1, <2>2, AskedUnchanged, Stutters DEF authVars, configVars
<1>2. CASE AuthAddRefused(c) \/ AuthSkipped(c)
  <2>1. PICK s \in {"gone", "listening"} :
          /\ cst[c] = "new" /\ cst' = [cst EXCEPT ![c] = s]
          /\ UNCHANGED <<authVars, hpc, job, configVars, endVars>>
    BY <1>2 DEF AuthAddRefused, AuthSkipped, Becomes
  <2> QED
    BY <2>1, AskedUnchanged, PassesBy DEF authVars, configVars, ClientStates
<1>3. ASSUME NEW p \in Process,
             \/ /\ p = "listener" /\ QueueListener(c)
             \/ /\ p = "source" /\ AuthStreamAuthenticate(c)
             \/ /\ p = "remove" /\ AuthReleaseListener(c)
      PROVE  Promised
  <2>1. /\ UNCHANGED <<job, configVars, endVars>>
        /\ IF p = "remove" THEN cst[c] = "listening" ELSE cst[c] \in {"new", "checked"}
    BY <1>3 DEF QueueListener, AuthStreamAuthenticate, AuthReleaseListener
  <2>2. CASE /\ inConfig /\ QueueAuthClient([client |-> c, process |-> p])
             /\ cst' = [cst EXCEPT ![c] = "waiting"]
    <3>1. AskedBar' = [AskedBar EXCEPT ![c] = p]
      BY <1>3, <2>1, <2>2, AskedQueued DEF ClientStates
    <3>2. memory' = memory
      BY <2>2 DEF QueueAuthClient, QueueBusy, QueueStart
    <3> QED
      BY <1>3, <2>1, <2>2, <3>1, <3>2, AsksFor DEF configVars
  <2>3. CASE /\ UNCHANGED <<authVars, hpc>>
             /\ cst' = [cst EXCEPT ![c] = "gone"]
    BY <1>3, <2>1, <2>3, AskedUnchanged, PassesBy DEF authVars, configVars, ClientStates
  <2>4. inConfig \/ cst[c] # "checked"
    BY DEF IInv, ConfigHeld
  <2> QED
    BY <1>3, <2>2, <2>3, <2>4
       DEF QueueListener, AuthStreamAuthenticate, AuthReleaseListener,
           QueueFails, Becomes
<1>4. CASE AuthStreamStart(c) \/ AuthStreamEnd(c)
  <2>1. PICK s \in {"streaming", "gone"} :
          /\ cst[c] = IF s = "gone" THEN "streaming" ELSE "accepted"
          /\ cst' = [cst EXCEPT ![c] = s]
          /\ QueueEvent(c) /\ UNCHANGED <<job, configVars, endVars>>
    BY <1>4 DEF AuthStreamStart, AuthStreamEnd, Becomes
  <2>2. AskedBar' = AskedBar /\ memory' = memory
    <3>1. CASE QueueAuthClient([client |-> c, process |-> "event"])
      <4>1. "event" \in Process /\ s \in ClientStates
        BY DEF Process, ClientStates
      <4>2. memory' = memory
        BY <3>1 DEF QueueAuthClient, QueueBusy, QueueStart
      <4> QED
        BY <2>1, <3>1, <4>1, <4>2, AskedQueued
    <3>2. CASE UNCHANGED <<authVars, hpc>>
      BY <2>1, <3>2, AskedUnchanged DEF authVars
    <3> QED
      BY <2>1, <3>1, <3>2 DEF QueueEvent
  <2> QED
    BY <2>1, <2>2, PassesBy DEF configVars, ClientStates
<1> QED
  BY <1>1, <1>2, <1>3, <1>4 DEF ClientStep, Process

\* A reference that is given back releases the service at most when nobody
\* waits for it.
LEMMA ReleasesUnused ==
  ASSUME IInv, IInv', HInv', AuthRelease, UNCHANGED <<queue, job, cst, inConfig>>
  PROVE  Promised
<1>1. AtBar' = AtBar /\ AskedBar' = AskedBar
  BY AskedUnchanged DEF AtBar
<1>2. CASE memory' = memory
  BY <1>1, <1>2, Stutters
<1>3. CASE memory' # memory
  <2>1. memory = "live" /\ memory' = "freed"
    BY <1>3 DEF AuthRelease, IInv, TypeOK
  <2>2. IInv' /\ HInv' => Unused'
    BY FreedUnused, PTL
  <2>3. ~inConfig /\ \A c \in Client : cst[c] # "waiting"
    BY <2>1, <2>2 DEF Unused
  <2>4. \A c \in Client : AtBar[c] # "waiting"
    BY <2>3 DEF AtBar
  <2>5. Service!Release
    BY <1>1, <2>1, <2>3, <2>4 DEF Service!Release, AtBar, AskedBar
  <2> QED
    BY <2>5 DEF Promised, Service!Next
<1> QED
  BY <1>2, <1>3

\* The steps of the threads are those of AuthService, or none.
LEMMA PromisedThread ==
  ASSUME IInv, HInv, IInv', HInv', NEW h \in Handler, ThreadStep(h)
  PROVE  Promised
<1>1. CASE ThreadBegin(h)
  <2>1. UNCHANGED <<queue, job, cst, inConfig, memory>>
    BY <1>1 DEF ThreadBegin, authVars, configVars
  <2>2. AtBar' = AtBar
    BY <2>1 DEF AtBar
  <2> QED
    BY <2>1, <2>2, AskedUnchanged, Stutters
<1>2. CASE TakeHead(h)
  <2>1. UNCHANGED <<cst, inConfig, memory>> /\ AskedBar' = AskedBar
    BY <1>2, AskedTaken DEF TakeHead, configVars
  <2>2. AtBar' = AtBar
    BY <2>1 DEF AtBar
  <2> QED
    BY <2>1, <2>2, Stutters
<1>3. CASE ProcessJob(h)
  <2>1. /\ job[h] \in Job /\ job[h].client \in Client /\ job[h].process \in Process
        /\ cst \in [Client -> ClientStates] /\ hpc[h] = "process"
        /\ UNCHANGED <<inConfig, memory>>
    BY <1>3 DEF ProcessJob, IInv, TypeOK, JobInHand, Job, authVars, configVars
  <2>2. PICK s \in Outcomes(job[h]) : cst' = [cst EXCEPT ![job[h].client] = s]
    BY <1>3 DEF ProcessJob, Becomes
  <2>3. CASE job[h].process = "event"
    <3>1. cst' = cst
      BY <2>1, <2>2, <2>3 DEF Outcomes
    <3>2. AtBar' = AtBar
      BY <3>1 DEF AtBar
    <3> QED
      BY <1>3, <2>1, <2>3, <3>2, AskedDone, Stutters
  <2>4. CASE job[h].process # "event"
    <3>0. PICK c \in Client, p \in Process : c = job[h].client /\ p = job[h].process
      BY <2>1
    <3>1. /\ AskedBar' = [AskedBar EXCEPT ![c] = ""]
          /\ AskedBar[c] = p
      BY <1>3, <2>4, <3>0, AskedDone DEF AskedBar
    <3>2. /\ s \in Service!Answers[p] /\ s \in ClientStates \ {"checked"}
      BY <2>2, <2>4, <3>0 DEF Outcomes, Service!Answers, Process, ClientStates
    <3>3. cst[c] = "waiting"
      BY <2>4, <3>0 DEF HInv, HeldOnce, Serves
    <3>4. AtBar' = [AtBar EXCEPT ![c] = s] /\ AtBar[c] = "waiting"
      BY <2>2, <3>0, <3>2, <3>3, AtStep DEF AtBar
    <3>5. memory = "live"
      BY <2>1, AliveInv DEF AuthAlive, Running
    <3>6. Service!Answer(c)
      BY <2>1, <3>1, <3>2, <3>4, <3>5 DEF Service!Answer, AtBar, AskedBar
    <3> QED
      BY <3>6 DEF Promised, Service!Next
  <2> QED
    BY <2>3, <2>4
<1>4. CASE ThreadFinish(h)
  BY <1>4, ReleasesUnused DEF ThreadFinish, configVars
<1> QED
  BY <1>1, <1>2, <1>3, <1>4 DEF ThreadStep

\* Every step of the queue is one of AuthService, or none.
LEMMA PromisedNext ==
  IInv /\ HInv /\ IInv' /\ HInv' /\ [Next]_vars => Promised
<1> SUFFICES ASSUME IInv, HInv, IInv', HInv', [Next]_vars PROVE Promised
  OBVIOUS
<1>1. CASE AuthShutdown \/ DestroyAuthLock \/ UNCHANGED vars
  <2>1. UNCHANGED <<queue, job, cst, inConfig, memory>>
    BY <1>1 DEF AuthShutdown, DestroyAuthLock, vars, authVars, configVars
  <2>2. AtBar' = AtBar
    BY <2>1 DEF AtBar
  <2> QED
    BY <2>1, <2>2, AskedUnchanged, Stutters
<1>2. CASE SetConfig
  <2>1. /\ inConfig /\ inConfig' = FALSE
        /\ UNCHANGED <<queue, job, cst, memory>>
    BY <1>2 DEF SetConfig, authVars
  <2>2. AtBar' = AtBar /\ AskedBar' = AskedBar
    BY <2>1, AskedUnchanged DEF AtBar
  <2>3. Service!Replace
    BY <2>1, <2>2 DEF Service!Replace, AtBar, AskedBar
  <2> QED
    BY <2>3 DEF Promised, Service!Next
<1>3. CASE ConfigClear
  BY <1>3, ReleasesUnused DEF ConfigClear
<1> QED
  BY <1>1, <1>2, <1>3, PromisedClient, PromisedThread DEF Next

\* The queue, its threads and the reference counts do nothing that AuthService
\* does not promise: a client is given back once, with an answer to what was
\* asked for it, and the structure is released when nobody waits for it.
THEOREM ServiceImplemented ==
  Spec => Service!Init /\ [][Service!Next]_(Service!avars)
<1>1. Init => Service!Init
  <2> SUFFICES ASSUME Init PROVE Service!Init
    OBVIOUS
  <2>1. HInv
    BY InitHeld
  <2>2. \A c \in Client : cst[c] = "new" /\ AskedFor(c) = ""
    BY <2>1, AskedOnce DEF Init, AllAnswered, Answered
  <2> QED
    BY <2>2 DEF Init, Service!Init
<1>2. IInv /\ HInv /\ IInv' /\ HInv' /\ [Next]_vars => [Service!Next]_(Service!avars)
  BY PromisedNext DEF Promised
<1>3. Spec => [](IInv /\ HInv)
  BY InitIInv, NextIInv, InitHeld, HeldNext, PTL DEF Spec
<1> QED
  BY <1>1, <1>2, <1>3, PTL DEF Spec
=============================================================================
