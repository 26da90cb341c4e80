------------------------------ MODULE Workers ------------------------------
(***************************************************************************)
(* The worker threads of client.c.  A worker owns a list of clients that   *)
(* it walks in passes, calling ops->process on each; other threads hand    *)
(* clients to it through its pending list, which the worker takes over     *)
(* between passes.  The slave thread starts and stops workers.             *)
(*                                                                         *)
(* One step is one critical section (worker->lock or workers_lock) or the  *)
(* code between two of them, so every place where another thread can run   *)
(* is a place between two steps.  A client list is a set: the order in     *)
(* which a pass visits its clients is left open.  The process callback is  *)
(* reduced to what the worker loop sees of it: the client stays, is moved  *)
(* to another worker, is handed to an authentication thread, or is done.   *)
(***************************************************************************)
EXTENDS Integers, Sequences, FiniteSets

CONSTANTS
  Normal,     \* worker_t structures on the list headed by "workers"
  Incoming,   \* the worker_t that worker_incoming points to
  Client,     \* client_t structures
  Accept,     \* the connection thread
  Slave,      \* the slave thread: it adds relays, starts and stops workers
  None        \* NULL

Worker == Normal \cup {Incoming}

\* The threads that can be between an addition and its worker_wakeup; an
\* authentication thread is named after the client it is working for.
Thread == Worker \cup Client \cup {Accept, Slave}

ASSUME DistinctAssumption ==
  /\ Incoming \notin Normal
  /\ Worker \cap Client = {}
  /\ Accept \notin Worker \cup Client
  /\ Slave \notin Worker \cup Client \cup {Accept}
  /\ None \notin Thread

ASSUME FiniteAssumption == IsFiniteSet(Client)

VARIABLES
  \* worker_t
  thread,     \* "none", "created" (not run yet), "alive", "exited", "freed"
  running,    \* worker->running
  onlist,     \* worker->clients
  pending,    \* worker->pending_clients
  count,      \* worker->count
  pcount,     \* worker->pending_count
  pipe,       \* a byte is waiting in worker->wakeup_fd
  \* the locals of the worker thread
  wpc,        \* where the thread is between two passes or two clients
  scan,       \* clients the current pass has still to reach
  cur,        \* the client handed to ops->process
  dest,       \* destination of client_change_worker
  \* client_t
  cstate,     \* "new", "live", "gone"
  cworker,    \* client->worker
  active,     \* CLIENT_ACTIVE
  \* the globals
  workers,    \* the list of workers, its head first
  incoming,   \* worker_incoming
  leastUsed,  \* worker_least_used
  readers,    \* threads that hold workers_lock for reading
  owed,       \* the worker a thread has still to wake up
  accepting,  \* the connection thread is running
  adj,        \* the slave thread: "run", "join" or "last"
  victim,     \* the worker that worker_stop waits for
  halting     \* global.running # ICE_RUNNING

vars == <<thread, running, onlist, pending, count, pcount, pipe, wpc, scan,
          cur, dest, cstate, cworker, active, workers, incoming, leastUsed,
          readers, owed, accepting, adj, victim, halting>>

workerVars == <<thread, running, wpc, scan, cur, dest>>
listVars   == <<onlist, pending, count, pcount>>
clientVars == <<cstate, cworker, active>>
globalVars == <<workers, incoming, leastUsed, accepting, adj, victim, halting>>

ThreadStates == {"none", "created", "alive", "exited", "freed"}
PCs == {"off", "scan", "proc", "keep", "move", "wake", "unlink", "wait", "drained",
        "exit"}

TypeOK ==
  /\ thread \in [Worker -> ThreadStates]
  /\ running \in [Worker -> BOOLEAN]
  /\ onlist \in [Worker -> SUBSET Client]
  /\ pending \in [Worker -> SUBSET Client]
  /\ count \in [Worker -> Nat]
  /\ pcount \in [Worker -> Nat]
  /\ pipe \in [Worker -> BOOLEAN]
  /\ wpc \in [Worker -> PCs]
  /\ scan \in [Worker -> SUBSET Client]
  /\ cur \in [Worker -> Client \cup {None}]
  /\ dest \in [Worker -> Worker \cup {None}]
  /\ cstate \in [Client -> {"new", "live", "gone"}]
  /\ cworker \in [Client -> Worker \cup {None}]
  /\ active \in [Client -> BOOLEAN]
  /\ workers \in Seq(Normal)
  /\ incoming \in {Incoming, None}
  /\ leastUsed \in Normal \cup {None}
  /\ readers \in SUBSET Worker
  /\ owed \in [Thread -> Worker \cup {None}]
  /\ accepting \in BOOLEAN
  /\ adj \in {"run", "join", "last"}
  /\ victim \in Worker \cup {None}
  /\ halting \in BOOLEAN

Init ==
  /\ thread = [w \in Worker |-> "none"]
  /\ running = [w \in Worker |-> FALSE]
  /\ onlist = [w \in Worker |-> {}]
  /\ pending = [w \in Worker |-> {}]
  /\ count = [w \in Worker |-> 0]
  /\ pcount = [w \in Worker |-> 0]
  /\ pipe = [w \in Worker |-> FALSE]
  /\ wpc = [w \in Worker |-> "off"]
  /\ scan = [w \in Worker |-> {}]
  /\ cur = [w \in Worker |-> None]
  /\ dest = [w \in Worker |-> None]
  /\ cstate = [c \in Client |-> "new"]
  /\ cworker = [c \in Client |-> None]
  /\ active = [c \in Client |-> TRUE]
  /\ workers = <<>>
  /\ incoming = None
  /\ leastUsed = None
  /\ readers = {}
  /\ owed = [t \in Thread |-> None]
  /\ accepting = FALSE
  /\ adj = "run"
  /\ victim = None
  /\ halting = FALSE

-----------------------------------------------------------------------------
(* Handing a client to a worker.                                           *)

\* Mutant of WorkerAddClient: client->worker is left as it was.
WorkerAddClientKeepsOwner(w, c) ==
  /\ pending' = [pending EXCEPT ![w] = @ \cup {c}]
  /\ pcount' = [pcount EXCEPT ![w] = @ + 1]
  /\ UNCHANGED cworker

\* worker_add_client, called with worker->lock held.
WorkerAddClient(w, c) ==
  /\ pending' = [pending EXCEPT ![w] = @ \cup {c}]
  /\ pcount' = [pcount EXCEPT ![w] = @ + 1]
  /\ cworker' = [cworker EXCEPT ![c] = w]

\* Mutant of WorkerWakeup: the write is lost.
WorkerWakeupLost(t) ==
  /\ UNCHANGED pipe
  /\ owed' = [owed EXCEPT ![t] = None]

\* worker_wakeup of the worker thread t owes a wake-up to: one byte into its
\* pipe.  The descriptor of a released worker is closed and nothing happens.
WorkerWakeup(t) ==
  /\ pipe' = [pipe EXCEPT ![owed[t]] = @ \/ thread[owed[t]] # "freed"]
  /\ owed' = [owed EXCEPT ![t] = None]

\* The accept loop of connection.c hands a new connection to the incoming
\* worker with client_add_incoming; the wake-up comes after both locks.
AcceptClient(c) ==
  /\ accepting
  /\ owed[Accept] = None
  /\ cstate[c] = "new"
  /\ cstate' = [cstate EXCEPT ![c] = "live"]
  /\ WorkerAddClient(Incoming, c)
  /\ owed' = [owed EXCEPT ![Accept] = Incoming]
  /\ UNCHANGED <<workerVars, onlist, count, pipe, active, globalVars, readers>>

\* client_add_worker: the slave thread installs a relay on the least used
\* worker.
ClientAddWorker(c) ==
  /\ adj = "run"
  /\ ~halting
  /\ leastUsed # None
  /\ owed[Slave] = None
  /\ cstate[c] = "new"
  /\ cstate' = [cstate EXCEPT ![c] = "live"]
  /\ WorkerAddClient(leastUsed, c)
  /\ owed' = [owed EXCEPT ![Slave] = leastUsed]
  /\ UNCHANGED <<workerVars, onlist, count, pipe, active, globalVars, readers>>

\* The wake-up of a thread that is not a worker.
Wake(t) ==
  /\ owed[t] # None
  /\ WorkerWakeup(t)
  /\ UNCHANGED <<workerVars, listVars, clientVars, globalVars, readers>>

\* An authentication thread gives client c back: CLIENT_ACTIVE is set, then
\* the worker is woken up.
AuthDone(c) ==
  /\ cstate[c] = "live"
  /\ ~active[c]
  /\ owed[c] = None
  /\ active' = [active EXCEPT ![c] = TRUE]
  /\ owed' = [owed EXCEPT ![c] = cworker[c]]
  /\ UNCHANGED <<workerVars, listVars, pipe, cstate, cworker, globalVars,
                 readers>>

-----------------------------------------------------------------------------
(* The worker thread.                                                      *)

Goto(w, pc) == wpc' = [wpc EXCEPT ![w] = pc]

\* The thread function begins: only here does running become 1.
WorkerBegin(w) ==
  /\ thread[w] = "created"
  /\ thread' = [thread EXCEPT ![w] = "alive"]
  /\ running' = [running EXCEPT ![w] = TRUE]
  /\ Goto(w, "scan")
  /\ UNCHANGED <<scan, cur, dest, listVars, pipe, clientVars, globalVars,
                 readers, owed>>

\* The pass reaches client c.  It is processed when it is active and, as long
\* as the worker runs, when its time has come; or it is passed over.
VisitSkip(w, c) ==
  /\ wpc[w] = "scan"
  /\ c \in scan[w]
  /\ active[c] => running[w]
  /\ scan' = [scan EXCEPT ![w] = @ \ {c}]
  /\ UNCHANGED <<thread, running, wpc, cur, dest, listVars, pipe, clientVars,
                 globalVars, readers, owed>>

VisitProcess(w, c) ==
  /\ wpc[w] = "scan"
  /\ c \in scan[w]
  /\ active[c]
  /\ scan' = [scan EXCEPT ![w] = @ \ {c}]
  /\ cur' = [cur EXCEPT ![w] = c]
  /\ Goto(w, "proc")
  /\ UNCHANGED <<thread, running, dest, listVars, pipe, clientVars,
                 globalVars, readers, owed>>

\* process returned 0.  The client stays on the list; unless it was left
\* active it now belongs to an authentication thread.
ProcessStay(w) ==
  /\ wpc[w] = "proc"
  /\ \E a \in BOOLEAN : active' = [active EXCEPT ![cur[w]] = a]
  /\ cur' = [cur EXCEPT ![w] = None]
  /\ Goto(w, "scan")
  /\ UNCHANGED <<thread, running, scan, dest, listVars, pipe, cstate, cworker,
                 globalVars, readers, owed>>

\* process returned -1: the worker lets go of the client and its release
\* callback, client_destroy, closes the connection.
ProcessDone(w) ==
  /\ wpc[w] = "proc"
  /\ cworker' = [cworker EXCEPT ![cur[w]] = None]
  /\ cstate' = [cstate EXCEPT ![cur[w]] = "gone"]
  /\ Goto(w, "unlink")
  /\ UNCHANGED <<thread, running, scan, cur, dest, listVars, pipe, active,
                 globalVars, readers, owed>>

\* process returned -1 and client_destroy finds a connection to keep alive: the
\* test is made under global_lock, the client is added after that.
KeepaliveTest(w) ==
  /\ wpc[w] = "proc"
  /\ ~halting
  /\ cworker' = [cworker EXCEPT ![cur[w]] = None]
  /\ Goto(w, "keep")
  /\ UNCHANGED <<thread, running, scan, cur, dest, listVars, pipe, cstate,
                 active, globalVars, readers, owed>>

\* client_add_incoming: the connection waits for its next request with the
\* incoming worker.  With worker_incoming NULL the server ends here.
KeepaliveAdd(w) ==
  /\ wpc[w] = "keep"
  /\ incoming # None
  /\ WorkerAddClient(Incoming, cur[w])
  /\ active' = [active EXCEPT ![cur[w]] = TRUE]
  /\ owed' = [owed EXCEPT ![w] = Incoming]
  /\ Goto(w, "wake")
  /\ UNCHANGED <<thread, running, scan, cur, dest, onlist, count, pipe, cstate,
                 globalVars, readers>>

\* Mutant of PickSelected: the choice is made without workers_lock.
PickSelectedUnlocked(w) ==
  /\ wpc[w] = "proc"
  /\ leastUsed \notin {None, w}
  /\ dest' = [dest EXCEPT ![w] = leastUsed]
  /\ Goto(w, "move")
  /\ UNCHANGED <<thread, running, scan, cur, listVars, pipe, clientVars,
                 globalVars, readers, owed>>

\* source_change_worker, fserve_change_worker, relay_startup, and
\* listener_change_worker for a listener already next to its source: the
\* destination is chosen and used under workers_lock.
PickSelected(w) ==
  /\ wpc[w] = "proc"
  /\ leastUsed \notin {None, w}
  /\ dest' = [dest EXCEPT ![w] = leastUsed]
  /\ readers' = readers \cup {w}
  /\ Goto(w, "move")
  /\ UNCHANGED <<thread, running, scan, cur, listVars, pipe, clientVars,
                 globalVars, owed>>

\* listener_change_worker and admin_mount_request take their destination from
\* source->client->worker without workers_lock ...
PickSourceWorker(w, s) ==
  /\ wpc[w] = "proc"
  /\ cstate[s] = "live"
  /\ cworker[s] \notin {None, w}
  /\ dest' = [dest EXCEPT ![w] = cworker[s]]
  /\ Goto(w, "move")
  /\ UNCHANGED <<thread, running, scan, cur, listVars, pipe, clientVars,
                 globalVars, readers, owed>>

\* ... and the first of them has the lock when it uses it.
LockPicked(w) ==
  /\ wpc[w] = "move"
  /\ readers' = readers \cup {w}
  /\ UNCHANGED <<workerVars, listVars, pipe, clientVars, globalVars, owed>>

\* client_change_worker: nothing happens when the destination is stopping,
\* and the client stays with this worker.
ChangeWorkerRefused(w) ==
  /\ wpc[w] = "move"
  /\ ~running[dest[w]]
  /\ dest' = [dest EXCEPT ![w] = None]
  /\ cur' = [cur EXCEPT ![w] = None]
  /\ readers' = readers \ {w}
  /\ Goto(w, "scan")
  /\ UNCHANGED <<thread, running, scan, listVars, pipe, clientVars,
                 globalVars, owed>>

ChangeWorker(w) ==
  /\ wpc[w] = "move"
  /\ running[dest[w]]
  /\ WorkerAddClient(dest[w], cur[w])
  /\ owed' = [owed EXCEPT ![w] = dest[w]]
  /\ Goto(w, "wake")
  /\ UNCHANGED <<thread, running, scan, cur, dest, onlist, count, pipe, cstate,
                 active, globalVars, readers>>

\* worker_wakeup after a move or a keep-alive, then workers_lock is released.
WakeMoved(w) ==
  /\ wpc[w] = "wake"
  /\ WorkerWakeup(w)
  /\ dest' = [dest EXCEPT ![w] = None]
  /\ readers' = readers \ {w}
  /\ Goto(w, "unlink")
  /\ UNCHANGED <<thread, running, scan, cur, listVars, clientVars, globalVars>>

\* Mutant of Unlink: the client is dropped but not counted out.
UnlinkUncounted(w) ==
  /\ wpc[w] = "unlink"
  /\ onlist' = [onlist EXCEPT ![w] = @ \ {cur[w]}]
  /\ cur' = [cur EXCEPT ![w] = None]
  /\ Goto(w, "scan")
  /\ UNCHANGED <<thread, running, scan, dest, count, pending, pcount, pipe,
                 clientVars, globalVars, readers, owed>>

\* Mutant of Unlink: the client is counted out but the list keeps it.
UnlinkKeepsListed(w) ==
  /\ wpc[w] = "unlink"
  /\ count' = [count EXCEPT ![w] = @ - 1]
  /\ cur' = [cur EXCEPT ![w] = None]
  /\ Goto(w, "scan")
  /\ UNCHANGED <<thread, running, scan, dest, onlist, pending, pcount, pipe,
                 clientVars, globalVars, readers, owed>>

\* The client left: the worker takes it off its list under worker->lock.
Unlink(w) ==
  /\ wpc[w] = "unlink"
  /\ onlist' = [onlist EXCEPT ![w] = @ \ {cur[w]}]
  /\ count' = [count EXCEPT ![w] = @ - 1]
  /\ cur' = [cur EXCEPT ![w] = None]
  /\ Goto(w, "scan")
  /\ UNCHANGED <<thread, running, scan, dest, pending, pcount, pipe, clientVars,
                 globalVars, readers, owed>>

\* Mutant of Drained: the clients still pending are not looked at.
DrainedOfListed(w) == ~running[w] /\ count[w] = 0

Drained(w) == ~running[w] /\ count[w] = 0 /\ pcount[w] = 0

\* The end of a pass: the exit test under worker->lock.
EndPass(w) ==
  /\ wpc[w] = "scan"
  /\ scan[w] = {}
  /\ Goto(w, IF Drained(w) THEN "exit" ELSE "wait")
  /\ UNCHANGED <<thread, running, scan, cur, dest, listVars, pipe, clientVars,
                 globalVars, readers, owed>>

\* worker_wait: poll on the pipe ends with data, which is read, or times out.
WaitOver(w) ==
  /\ wpc[w] = "wait"
  /\ pipe' = [pipe EXCEPT ![w] = FALSE]
  /\ Goto(w, "drained")
  /\ UNCHANGED <<thread, running, scan, cur, dest, listVars, clientVars,
                 globalVars, readers, owed>>

\* Mutant of AddPending: a worker told to stop takes no more clients over.
AddPendingRunning(w) ==
  LET new == IF running[w] THEN pending[w] ELSE {}
  IN  /\ wpc[w] = "drained"
      /\ onlist' = [onlist EXCEPT ![w] = @ \cup new]
      /\ count' = [count EXCEPT ![w] = @ + Cardinality(new)]
      /\ pending' = [pending EXCEPT ![w] = @ \ new]
      /\ pcount' = [pcount EXCEPT ![w] = @ - Cardinality(new)]
      /\ scan' = [scan EXCEPT ![w] = onlist'[w]]
      /\ Goto(w, "scan")
      /\ UNCHANGED <<thread, running, cur, dest, pipe, clientVars, globalVars,
                     readers, owed>>

\* worker_add_pending_clients: the new clients alone are walked when there
\* are any, all clients of the worker otherwise.
AddPending(w) ==
  /\ wpc[w] = "drained"
  /\ onlist' = [onlist EXCEPT ![w] = @ \cup pending[w]]
  /\ count' = [count EXCEPT ![w] = @ + pcount[w]]
  /\ pending' = [pending EXCEPT ![w] = {}]
  /\ pcount' = [pcount EXCEPT ![w] = 0]
  /\ scan' = [scan EXCEPT ![w] =
                IF pending[w] # {} THEN pending[w] ELSE onlist[w]]
  /\ Goto(w, "scan")
  /\ UNCHANGED <<thread, running, cur, dest, pipe, clientVars, globalVars,
                 readers, owed>>

\* The thread ends.  worker_relocate_clients runs first and finds nothing to
\* relocate: that is NothingToRelocate.
WorkerExit(w) ==
  /\ wpc[w] = "exit"
  /\ thread' = [thread EXCEPT ![w] = "exited"]
  /\ Goto(w, "off")
  /\ UNCHANGED <<running, scan, cur, dest, listVars, pipe, clientVars,
                 globalVars, readers, owed>>

-----------------------------------------------------------------------------
(* The slave thread.                                                       *)

\* The connection thread is joined before the number of workers changes and
\* started again afterwards.
StopAccepting ==
  /\ accepting
  /\ owed[Accept] = None
  /\ accepting' = FALSE
  /\ UNCHANGED <<workerVars, listVars, pipe, clientVars, workers, incoming,
                 leastUsed, adj, victim, halting, readers, owed>>

StartAccepting ==
  /\ ~accepting
  /\ ~halting
  /\ adj = "run"
  /\ incoming # None
  /\ accepting' = TRUE
  /\ UNCHANGED <<workerVars, listVars, pipe, clientVars, workers, incoming,
                 leastUsed, adj, victim, halting, readers, owed>>

\* worker_start: the first call also sets up the incoming worker.
WorkerStart(w) ==
  /\ adj = "run"
  /\ ~accepting
  /\ ~halting
  /\ owed[Slave] = None
  /\ readers = {}
  /\ thread[w] = "none"
  /\ thread' = [v \in Worker |->
                  IF v = w \/ (v = Incoming /\ incoming = None)
                    THEN "created" ELSE thread[v]]
  /\ incoming' = Incoming
  /\ workers' = <<w>> \o workers
  /\ leastUsed' = w
  /\ UNCHANGED <<running, wpc, scan, cur, dest, listVars, pipe, clientVars,
                 accepting, adj, victim, halting, readers, owed>>

\* worker_balance_trigger: find_least_busy_handler keeps the first worker of
\* the list with the fewest clients.
Load(w) == count[w] + pcount[w]

LeastBusy(w) ==
  \E i \in 1..Len(workers) :
    /\ workers[i] = w
    /\ \A j \in 1..Len(workers) :
         Load(w) < Load(workers[j]) \/ (Load(w) = Load(workers[j]) /\ i <= j)

Balance ==
  /\ adj = "run"
  /\ ~halting
  /\ owed[Slave] = None
  /\ readers = {}
  /\ Len(workers) > 1
  /\ leastUsed' \in {w \in Normal : LeastBusy(w)}
  /\ UNCHANGED <<workerVars, listVars, pipe, clientVars, workers, incoming,
                 accepting, adj, victim, halting, readers, owed>>

\* worker_stop under workers_lock: worker h is told to stop and woken up.
StopHandler(h) ==
  /\ running' = [running EXCEPT ![h] = FALSE]
  /\ pipe' = [pipe EXCEPT ![h] = TRUE]
  /\ victim' = h
  /\ adj' = "join"

WorkerStop ==
  /\ adj = "run"
  /\ ~accepting
  /\ owed[Slave] = None
  /\ readers = {}
  /\ workers # <<>>
  /\ halting \/ Len(workers) > 1
  /\ StopHandler(Head(workers))
  /\ workers' = Tail(workers)
  /\ leastUsed' = IF Tail(workers) = <<>> THEN None ELSE Head(Tail(workers))
  /\ UNCHANGED <<thread, wpc, scan, cur, dest, listVars, clientVars, incoming,
                 accepting, halting, readers, owed>>

\* The last turn of the loop in worker_stop: the incoming worker goes too.
IncomingStop ==
  /\ adj = "last"
  /\ readers = {}
  /\ StopHandler(Incoming)
  /\ incoming' = None
  /\ UNCHANGED <<thread, wpc, scan, cur, dest, listVars, clientVars, workers,
                 leastUsed, accepting, halting, readers, owed>>

\* thread_join returns and the worker_t is freed.
JoinAndFree ==
  /\ adj = "join"
  /\ thread[victim] = "exited"
  /\ thread' = [thread EXCEPT ![victim] = "freed"]
  /\ adj' = IF workers = <<>> /\ incoming # None THEN "last" ELSE "run"
  /\ victim' = None
  /\ UNCHANGED <<running, wpc, scan, cur, dest, listVars, pipe, clientVars,
                 workers, incoming, leastUsed, accepting, halting, readers,
                 owed>>

\* A signal or the inactivity timer ends the server.
Halt ==
  /\ ~halting
  /\ halting' = TRUE
  /\ UNCHANGED <<workerVars, listVars, pipe, clientVars, workers, incoming,
                 leastUsed, accepting, adj, victim, readers, owed>>

-----------------------------------------------------------------------------
WorkerStep(w) ==
  \/ WorkerBegin(w)
  \/ \E c \in Client : VisitSkip(w, c) \/ VisitProcess(w, c)
  \/ ProcessStay(w) \/ ProcessDone(w) \/ KeepaliveTest(w) \/ KeepaliveAdd(w)
  \/ PickSelected(w) \/ ChangeWorkerRefused(w) \/ ChangeWorker(w)
  \/ WakeMoved(w) \/ Unlink(w)
  \/ EndPass(w) \/ WaitOver(w) \/ AddPending(w) \/ WorkerExit(w)

SlaveStep ==
  \/ StopAccepting \/ StartAccepting
  \/ \E w \in Normal : WorkerStart(w)
  \/ Balance \/ WorkerStop \/ IncomingStop \/ JoinAndFree

Next ==
  \/ \E w \in Worker : WorkerStep(w)
  \/ \E c \in Client : AcceptClient(c) \/ ClientAddWorker(c) \/ AuthDone(c)
  \/ \E t \in Client \cup {Accept, Slave} : Wake(t)
  \/ SlaveStep
  \/ Halt

Spec == Init /\ [][Next]_vars

\* The two callers that take a destination from the source's client.
NextUnlocked ==
  \/ Next
  \/ \E w \in Worker :
       LockPicked(w) \/ \E s \in Client : PickSourceWorker(w, s)

SpecUnlocked == Init /\ [][NextUnlocked]_vars

\* Every thread that can run does run: pthreads are scheduled by the system,
\* poll in worker_wait has a timeout of at most 60 seconds, and authentication
\* back ends answer or time out.  Once the server halts, the process
\* functions of its clients return -1 after finitely many calls.
Fairness ==
  /\ \A w \in Worker :
       /\ WF_vars(WorkerStep(w))
       /\ SF_vars(halting /\ ProcessDone(w))
       /\ \A c \in Client : SF_vars(halting /\ VisitProcess(w, c))
  /\ \A t \in Client \cup {Accept, Slave} : WF_vars(Wake(t))
  /\ \A c \in Client : WF_vars(AuthDone(c))
  /\ WF_vars(halting /\ StopAccepting)
  /\ SF_vars(halting /\ WorkerStop)
  /\ SF_vars(IncomingStop)
  /\ WF_vars(JoinAndFree)

FairSpec == Spec /\ Fairness

-----------------------------------------------------------------------------
(* Properties.                                                             *)

\* A client that a pass can reach points back at the worker that walks it:
\* "if (client->worker != worker) abort()" in the worker loop never fires,
\* however clients are moved, re-queued and processed elsewhere meanwhile.
OwnerMatches ==
  \A w \in Worker : \A c \in onlist[w] : cur[w] # c => cworker[c] = w

\* No client is in the hands of two workers: on two lists only while the
\* worker it left is about to unlink it (worker loop, client_change_worker).
OneOwner ==
  \A v, w \in Worker : \A c \in Client :
    /\ v # w
    /\ c \in onlist[v] \cup pending[v]
    /\ c \in onlist[w] \cup pending[w]
    => \/ cur[v] = c /\ wpc[v] \in {"wake", "unlink"}
       \/ cur[w] = c /\ wpc[w] \in {"wake", "unlink"}

\* The counters that the exit test and the balancing trust are the lengths
\* of the lists they stand for.
CountsMatch ==
  \A w \in Worker : /\ count[w] = Cardinality(onlist[w])
                    /\ pcount[w] = Cardinality(pending[w])

\* A worker that stops takes no client with it: no client is left with a
\* worker past its exit test, so worker_relocate_clients has nothing to do.
NothingToRelocate ==
  \A w \in Worker :
    wpc[w] = "exit" \/ thread[w] \in {"exited", "freed"} =>
      /\ onlist[w] = {} /\ pending[w] = {}
      /\ \A c \in Client : cworker[c] # w

\* No wake-up is lost: a worker sleeping in worker_wait with clients pending
\* has a byte in its pipe or a thread about to write one.
NoLostWakeup ==
  \A w \in Worker :
    wpc[w] = "wait" /\ pending[w] # {} =>
      pipe[w] \/ \E t \in Thread : owed[t] = w

\* The threads that follow the locking rules never touch a released worker.
TargetAlive ==
  /\ \A t \in Worker \cup {Accept, Slave} :
       owed[t] # None => thread[owed[t]] # "freed"
  /\ \A w \in Worker : wpc[w] = "move" => thread[dest[w]] # "freed"

\* client_add_incoming is about to use worker_incoming, which is NULL.
Crashed == \E w \in Worker : wpc[w] = "keep" /\ incoming = None

\* A client handed to a worker is taken over by it (worker_wait returns after
\* a wake-up or its timeout and then adds the pending clients).
PendingAdopted ==
  \A w \in Worker, c \in Client :
    c \in pending[w] /\ thread[w] = "alive" ~> c \notin pending[w] \/ Crashed

\* A worker told to stop while its thread is running ends, once the server
\* halts and its clients are let go of: the exit test of the worker loop is
\* reached with both counters at zero.
StoppedWorkerExits ==
  \A w \in Worker :
    halting /\ thread[w] = "alive" /\ ~running[w]
      ~> thread[w] = "freed" \/ Crashed

\* "stall until workers have shut down" (slave_shutdown): every worker that
\* was started is joined and freed after the server is told to halt.
ShutdownCompletes ==
  halting ~> \A w \in Worker : thread[w] \in {"none", "freed"}

\* "remove possible race waking up a worker, could result in crash" (NEWS):
\* a worker thread that moved a client with client_change_worker does not
\* write to the pipe of a worker that worker_stop has freed meanwhile.
NoReleasedWorkerUsed ==
  \A w \in Worker : owed[w] # None => thread[owed[w]] # "freed"
=============================================================================
