----------------------------- MODULE AuthQueue -----------------------------
(***************************************************************************)
(* The queue of one auth_t (auth.c) and the threads that serve it.  Worker *)
(* threads put clients that have to be authenticated, or that leave, on    *)
(* the queue and start a thread when a handle is free; a thread ends as    *)
(* soon as it finds the queue empty.  The structure is released when       *)
(* neither the configuration nor a thread refers to it.                    *)
(*                                                                         *)
(* A client that is waiting for an authentication thread is not CLIENT_    *)
(* ACTIVE, so its worker leaves it alone: "waiting" in cst.                *)
(***************************************************************************)
EXTENDS Integers, Sequences, FiniteSets

CONSTANTS
  Client,      \* clients of the mount
  Handler,     \* auth->handles
  MaxPending,  \* 400, above which a new listener is turned away
  Threads,     \* worker threads that can be in auth_add_listener at a time
  None         \* NULL

ASSUME HandlerAssumption == IsFiniteSet(Handler) /\ Handler # {}
ASSUME LimitAssumption == MaxPending \in Nat /\ Threads \in Nat
ASSUME NoneAssumption == None \notin Client

VARIABLES
  memory,     \* the auth_t: "live" or "freed"
  refcount,   \* auth->refcount
  queue,      \* the auth_client list from auth->head to auth->tailp
  pending,    \* auth->pending_count
  handle,     \* the handles with thread # NULL
  hpc,        \* where the thread of a handle is
  job,        \* the auth_client a thread is working on
  cst,        \* the state of a client
  inConfig,   \* the current configuration has this auth_t
  cfgRef,     \* the reference of the configuration it was read with
  authLock,   \* auth_lock: "ready" or "destroyed"
  allowAuth   \* allow_auth

vars == <<memory, refcount, queue, pending, handle, hpc, job, cst, inConfig,
          cfgRef, authLock, allowAuth>>

authVars   == <<memory, refcount, queue, pending, handle>>
configVars == <<inConfig, cfgRef>>
endVars    == <<authLock, allowAuth>>

\* auth_client, by its process function.
Process == {"listener", "remove", "source", "event"}
Job == [client : Client, process : Process]
NoJob == [client |-> None, process |-> "event"]

ClientStates == {"new", "checked", "waiting", "listening", "accepted",
                 "streaming", "gone"}

TypeOK ==
  /\ memory \in {"live", "freed"}
  /\ refcount \in Nat
  /\ queue \in Seq(Job)
  /\ pending \in Nat
  /\ handle \in SUBSET Handler
  /\ hpc \in [Handler -> {"off", "created", "loop", "process"}]
  /\ job \in [Handler -> Job \cup {NoJob}]
  /\ cst \in [Client -> ClientStates]
  /\ inConfig \in BOOLEAN
  /\ cfgRef \in BOOLEAN
  /\ authLock \in {"ready", "destroyed"}
  /\ allowAuth \in BOOLEAN

\* auth_get_authenticator, called while the configuration is read.
Init ==
  /\ memory = "live"
  /\ refcount = 1
  /\ queue = <<>>
  /\ pending = 0
  /\ handle = {}
  /\ hpc = [h \in Handler |-> "off"]
  /\ job = [h \in Handler |-> NoJob]
  /\ cst = [c \in Client |-> "new"]
  /\ inConfig = TRUE
  /\ cfgRef = TRUE
  /\ authLock = "ready"
  /\ allowAuth = TRUE

-----------------------------------------------------------------------------
(* Queueing.                                                               *)

Becomes(c, s) == cst' = [cst EXCEPT ![c] = s]

\* Mutant of PutLast: the new entry replaces the list.
PutFirst(j) ==
  /\ queue' = <<j>>
  /\ pending' = pending + 1

PutLast(j) ==
  /\ queue' = Append(queue, j)
  /\ pending' = pending + 1

\* queue_auth_client, under auth->lock, with every handle in use.
AllBusy == refcount > Cardinality(Handler) \/ handle = Handler

QueueBusy(j) ==
  /\ AllBusy
  /\ PutLast(j)
  /\ UNCHANGED <<memory, refcount, handle, hpc>>

\* A thread is started for a free handle.
QueueStart(j) ==
  /\ ~AllBusy
  /\ PutLast(j)
  /\ \E h \in Handler \ handle :
       /\ handle' = handle \cup {h}
       /\ hpc' = [hpc EXCEPT ![h] = "created"]
  /\ refcount' = refcount + 1
  /\ UNCHANGED memory

QueueAuthClient(j) == QueueBusy(j) \/ QueueStart(j)

\* No thread can be created: the client is taken off the queue again and sent
\* away.
QueueFails == ~AllBusy /\ UNCHANGED <<authVars, hpc>>

\* auth_add_listener decides without auth->lock whether the queue is too long.
\* The configuration stays read-locked until the client is queued.
AuthAddListener(c) ==
  /\ cst[c] = "new"
  /\ inConfig
  /\ Cardinality({d \in Client : cst[d] = "checked"}) < Threads
  /\ pending <= MaxPending
  /\ Becomes(c, "checked")
  /\ UNCHANGED <<authVars, hpc, job, configVars, endVars>>

\* "busy, please try again later".
AuthAddRefused(c) ==
  /\ cst[c] = "new"
  /\ inConfig
  /\ pending > MaxPending
  /\ Becomes(c, "gone")
  /\ UNCHANGED <<authVars, hpc, job, configVars, endVars>>

\* The listener is let in without authentication: the mount no longer has
\* this auth_t, or its AUTH_SKIP_IF_SLOW is set and the queue is too long.
AuthSkipped(c) ==
  /\ cst[c] = "new"
  /\ ~inConfig \/ pending > MaxPending
  /\ Becomes(c, "listening")
  /\ UNCHANGED <<authVars, hpc, job, configVars, endVars>>

QueueListener(c) ==
  /\ cst[c] = "checked"
  /\ \/ /\ QueueAuthClient([client |-> c, process |-> "listener"])
        /\ Becomes(c, "waiting")
     \/ QueueFails /\ Becomes(c, "gone")
  /\ UNCHANGED <<job, configVars, endVars>>

\* auth_release_listener: a listener that leaves is queued whatever the length
\* of the queue.
AuthReleaseListener(c) ==
  /\ cst[c] = "listening"
  /\ \/ /\ inConfig
        /\ QueueAuthClient([client |-> c, process |-> "remove"])
        /\ Becomes(c, "waiting")
     \/ /\ inConfig => QueueFails
        /\ Becomes(c, "gone")
        /\ UNCHANGED <<authVars, hpc>>
  /\ UNCHANGED <<job, configVars, endVars>>

\* auth_stream_authenticate.
AuthStreamAuthenticate(c) ==
  /\ cst[c] = "new"
  /\ inConfig
  /\ \/ /\ QueueAuthClient([client |-> c, process |-> "source"])
        /\ Becomes(c, "waiting")
     \/ QueueFails /\ Becomes(c, "gone")
  /\ UNCHANGED <<job, configVars, endVars>>

\* auth_stream_start and auth_stream_end queue a copy of the source client,
\* which goes its own way.  (When no thread can be created the code answers
\* the copy, which has no worker, and the server crashes: not followed here.)
QueueEvent(c) ==
  \/ inConfig /\ QueueAuthClient([client |-> c, process |-> "event"])
  \/ ~inConfig /\ UNCHANGED <<authVars, hpc>>

AuthStreamStart(c) ==
  /\ cst[c] = "accepted"
  /\ QueueEvent(c)
  /\ Becomes(c, "streaming")
  /\ UNCHANGED <<job, configVars, endVars>>

AuthStreamEnd(c) ==
  /\ cst[c] = "streaming"
  /\ QueueEvent(c)
  /\ Becomes(c, "gone")
  /\ UNCHANGED <<job, configVars, endVars>>

-----------------------------------------------------------------------------
(* The authentication threads: auth_run_thread.                            *)

\* auth_lock is taken for reading.
ThreadBegin(h) ==
  /\ hpc[h] = "created"
  /\ hpc' = [hpc EXCEPT ![h] = "loop"]
  /\ UNCHANGED <<authVars, job, cst, configVars, endVars>>

TakeHead(h) ==
  /\ hpc[h] = "loop"
  /\ queue # <<>>
  /\ job' = [job EXCEPT ![h] = Head(queue)]
  /\ queue' = Tail(queue)
  /\ pending' = pending - 1
  /\ hpc' = [hpc EXCEPT ![h] = "process"]
  /\ UNCHANGED <<memory, refcount, handle, cst, configVars, endVars>>

\* What auth_user->process and auth_client_free make of the client.  It goes
\* back to its worker in each case: CLIENT_ACTIVE is set.  (allow_auth is not
\* cleared before the last listener is gone.)
Outcomes(j) ==
  CASE j.process = "listener" -> {"listening", "gone"}
    [] j.process = "remove" -> {"gone"}
    [] j.process = "source" -> {"accepted", "gone"}
    [] j.process = "event" -> {cst[j.client]}

ProcessJob(h) ==
  /\ hpc[h] = "process"
  /\ \E s \in Outcomes(job[h]) : Becomes(job[h].client, s)
  /\ job' = [job EXCEPT ![h] = NoJob]
  /\ hpc' = [hpc EXCEPT ![h] = "loop"]
  /\ UNCHANGED <<authVars, configVars, endVars>>

\* Mutant of AuthRelease: a reference too early.
AuthReleaseEarly ==
  /\ refcount' = refcount - 1
  /\ memory' = IF refcount <= 2 THEN "freed" ELSE memory

\* auth_release, with auth->lock held.
AuthRelease ==
  /\ refcount' = refcount - 1
  /\ memory' = IF refcount = 1 THEN "freed" ELSE memory

\* Mutant of ThreadFinish: the handle and the reference are given back after
\* the lock was released, so that a client queued meanwhile starts no thread.
ThreadFinishLate(h) ==
  /\ UNCHANGED <<queue, pending, job, cst, configVars, endVars>>
  /\ \/ /\ hpc[h] = "loop"
        /\ queue = <<>>
        /\ hpc' = [hpc EXCEPT ![h] = "exit"]
        /\ UNCHANGED <<memory, refcount, handle>>
     \/ /\ hpc[h] = "exit"
        /\ hpc' = [hpc EXCEPT ![h] = "off"]
        /\ handle' = handle \ {h}
        /\ AuthRelease

\* Mutant of ThreadFinish: the reference of the thread is kept.
ThreadFinishHolding(h) ==
  /\ hpc[h] = "loop"
  /\ queue = <<>>
  /\ handle' = handle \ {h}
  /\ hpc' = [hpc EXCEPT ![h] = "off"]
  /\ UNCHANGED <<memory, refcount, queue, pending, job, cst, configVars,
                 endVars>>

\* The queue is empty: under the same hold of auth->lock the handle is given
\* back and the reference of the thread is dropped.  What follows, the release
\* of auth_lock, has no part in the structure.
ThreadFinish(h) ==
  /\ hpc[h] = "loop"
  /\ queue = <<>>
  /\ handle' = handle \ {h}
  /\ AuthRelease
  /\ hpc' = [hpc EXCEPT ![h] = "off"]
  /\ UNCHANGED <<queue, pending, job, cst, configVars, endVars>>

-----------------------------------------------------------------------------
(* The configuration and the end of the server.                            *)

\* config_set_config: the new configuration has an auth_t of its own.  It
\* waits for the threads that have the old one locked for reading.
SetConfig ==
  /\ inConfig
  /\ \A c \in Client : cst[c] # "checked"
  /\ inConfig' = FALSE
  /\ UNCHANGED <<authVars, hpc, job, cst, cfgRef, endVars>>

\* config_clear_mount of the old configuration.
ConfigClear ==
  /\ ~inConfig
  /\ cfgRef
  /\ cfgRef' = FALSE
  /\ AuthRelease
  /\ UNCHANGED <<queue, pending, handle, hpc, job, cst, inConfig, endVars>>

\* auth_shutdown, called when the workers have let go of all clients.
AuthShutdown ==
  /\ allowAuth
  /\ \A c \in Client : cst[c] \in {"new", "gone"}
  /\ allowAuth' = FALSE
  /\ UNCHANGED <<authVars, hpc, job, cst, configVars, authLock>>

\* auth_lock is locked for writing, which waits for the threads that hold it,
\* and destroyed.
DestroyAuthLock ==
  /\ ~allowAuth
  /\ authLock = "ready"
  /\ \A h \in Handler : hpc[h] \notin {"loop", "process"}
  /\ authLock' = "destroyed"
  /\ UNCHANGED <<authVars, hpc, job, cst, configVars, allowAuth>>

-----------------------------------------------------------------------------
ClientStep(c) ==
  /\ allowAuth
  /\ \/ AuthAddListener(c) \/ AuthAddRefused(c) \/ AuthSkipped(c)
     \/ QueueListener(c) \/ AuthReleaseListener(c)
     \/ AuthStreamAuthenticate(c) \/ AuthStreamStart(c)
     \/ AuthStreamEnd(c)

ThreadStep(h) ==
  \/ ThreadBegin(h) \/ TakeHead(h) \/ ProcessJob(h) \/ ThreadFinish(h)

Next ==
  \/ \E c \in Client : ClientStep(c)
  \/ \E h \in Handler : ThreadStep(h)
  \/ SetConfig \/ ConfigClear
  \/ AuthShutdown \/ DestroyAuthLock

Spec == Init /\ [][Next]_vars

\* The threads run, the back end they call answers or times out, and the slave
\* thread goes on to clear the configuration it replaced.
Fairness ==
  /\ \A h \in Handler : WF_vars(ThreadStep(h))
  /\ WF_vars(ConfigClear)

FairSpec == Spec /\ Fairness

-----------------------------------------------------------------------------
(* Properties.                                                             *)

Running(h) == hpc[h] # "off"

\* A client is never queued with nobody to serve it: when the queue is not
\* empty there is a thread that will look at it again, also when the last
\* thread was about to end as the client was queued (queue_auth_client against
\* the end of auth_run_thread).
QueueServed ==
  queue # <<>> => \E h \in Handler : hpc[h] \in {"created", "loop", "process"}

\* The structure is there for as long as a thread runs, a client is queued or
\* the configuration has it (auth_release from threads and from
\* config_clear_mount in any order).
AuthAlive ==
  \/ inConfig \/ queue # <<>> \/ \E h \in Handler : Running(h)
  => memory = "live"

\* The places at which client c is in the hands of the authentication code.
Held(c) ==
  {<<"queue", i>> : i \in {k \in 1..Len(queue) : queue[k].client = c /\
                                                queue[k].process # "event"}}
  \cup {<<"thread", h>> : h \in {g \in Handler : job[g].client = c /\
                                                 job[g].process # "event"}}

\* A client that its worker has put aside (not CLIENT_ACTIVE) is in one place
\* of the queue or with one thread, and no other client is: none is forgotten
\* and none is given to two threads.
OneHolder ==
  \A c \in Client :
    Cardinality(Held(c)) = IF cst[c] = "waiting" THEN 1 ELSE 0

\* "new listeners will be rejected if auth queue is backed up" (NEWS): the
\* test of pending_count is made without the lock, but the listeners that
\* slip in are no more than the worker threads.
ListenersBounded ==
  Cardinality({i \in 1..Len(queue) : queue[i].process = "listener"})
    <= MaxPending + Threads

\* The clients put aside are all accounted for, and those that queue_auth_client
\* has linked stay within the limit that auth_add_listener tests.
ClientsAccounted == OneHolder /\ ListenersBounded

\* Every client that was put aside is given back in the end.
ClientAnswered == \A c \in Client : cst[c] = "waiting" ~> cst[c] # "waiting"

\* An auth_t that a new configuration replaced is freed.
AuthFreed == ~inConfig ~> memory = "freed"

-----------------------------------------------------------------------------
(* What is promised of it.                                                 *)

\* What a client is held for: the process function of its auth_client.
AskedFor(c) ==
  LET waits(j) == j.client = c /\ j.process # "event"
      jobs == {queue[i] : i \in 1..Len(queue)} \cup {job[h] : h \in Handler}
  IN  IF \E j \in jobs : waits(j) THEN (CHOOSE j \in jobs : waits(j)).process ELSE ""

Service == INSTANCE AuthService WITH
  at <- [c \in Client |-> IF cst[c] = "checked" THEN "new" ELSE cst[c]],
  asked <- [c \in Client |-> AskedFor(c)],
  configured <- inConfig,
  live <- memory = "live"

\* The queue, its threads and the reference counts amount to a service that
\* takes a client, gives it back once with an answer to what was asked for it,
\* and is released only when nobody waits for it (queue_auth_client,
\* auth_run_thread and auth_release in any order).
ServiceKept == Service!Spec
=============================================================================
