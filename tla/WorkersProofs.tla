--------------------------- MODULE WorkersProofs ---------------------------
(***************************************************************************)
(* Proofs about the worker threads, for any number of workers and clients. *)
(***************************************************************************)
EXTENDS Workers, FiniteSetTheorems, TLAPS

Leaving == {"wake", "unlink"}
Busy == {"proc", "keep", "move"} \cup Leaving

\* A worker thread has a client in hand exactly while it deals with it, and
\* that client is still on its list.
InHand ==
  \A w \in Worker :
    /\ wpc[w] \in Busy <=> cur[w] # None
    /\ cur[w] # None => cur[w] \in onlist[w]
    /\ scan[w] \subseteq onlist[w]
    /\ cur[w] \notin scan[w]

\* client->worker of a listed client is the worker, until it leaves.
ListedOwner ==
  \A w \in Worker : \A c \in onlist[w] :
    \/ cworker[c] = w
    \/ cur[w] = c /\ wpc[w] \in {"keep"} \cup Leaving

PendingOwner == \A w \in Worker : \A c \in pending[w] : cworker[c] = w

\* A client is pending and listed at one worker only if it came back to it
\* before the worker unlinked it.
ListedAndPending ==
  \A w \in Worker : \A c \in onlist[w] \cap pending[w] :
    cur[w] = c /\ wpc[w] \in Leaving

\* During a keep-alive the client belongs to no worker.
KeepaliveUnowned ==
  /\ \A w \in Worker : wpc[w] = "keep" => cworker[cur[w]] = None
  /\ \A v, w \in Worker :
       wpc[v] = "keep" /\ wpc[w] = "keep" /\ cur[v] = cur[w] => v = w

OwnerHolds ==
  /\ \A w \in Worker, c \in Client :
       cworker[c] = w => c \in onlist[w] \cup pending[w]
  /\ \A w \in Worker :
       wpc[w] \in Leaving /\ cworker[cur[w]] = w => cur[w] \in pending[w]

NewUnlisted ==
  \A c \in Client : cstate[c] = "new" =>
    /\ cworker[c] = None
    /\ \A w \in Worker : c \notin onlist[w] \cup pending[w]

\* Workers that can be given clients are running, or will be.
Serving(w) == thread[w] = "created" \/ (thread[w] = "alive" /\ running[w])

Distinct(q) == \A i, j \in 1..Len(q) : q[i] = q[j] => i = j

InList(w) == \E i \in 1..Len(workers) : workers[i] = w

ServingInv ==
  /\ \A w \in Worker : running[w] => thread[w] = "alive" /\ wpc[w] # "exit"
  /\ \A w \in Worker : thread[w] # "alive" => wpc[w] = "off"
  /\ \A i \in 1..Len(workers) : Serving(workers[i])
  /\ Distinct(workers)
  /\ leastUsed # None => InList(leastUsed)
  /\ incoming # None => Serving(Incoming)
  /\ thread[Incoming] # "none" => incoming # None \/ halting
  /\ incoming # None /\ workers = <<>> => halting
  /\ accepting => incoming # None /\ adj = "run"
  /\ workers # <<>> => incoming # None
  /\ adj = "last" => incoming # None /\ workers = <<>>
  /\ \A w \in Worker : wpc[w] = "move" => dest[w] # None
  /\ adj = "join" => victim # None

\* Where clients are, and what that says of client->worker.
Lists ==
  /\ InHand
  /\ ListedOwner
  /\ PendingOwner
  /\ ListedAndPending
  /\ KeepaliveUnowned
  /\ OwnerHolds
  /\ NewUnlisted

\* The inductive invariant.
IInv ==
  /\ TypeOK
  /\ Lists
  /\ ServingInv
  /\ CountsMatch
  /\ NothingToRelocate

-----------------------------------------------------------------------------
(* Lemmas about finite sets of clients and about the list of workers.       *)

\* A set of clients is finite, and empty when its cardinality is zero.
LEMMA SubsetFacts ==
  ASSUME NEW S \in SUBSET Client
  PROVE  IsFiniteSet(S) /\ Cardinality(S) \in Nat /\ (Cardinality(S) = 0 => S = {})
  BY FiniteAssumption, FS_Subset, FS_CardinalityType, FS_EmptySet

\* worker_start puts a new worker in front of the list of workers.
LEMMA PushList ==
  ASSUME NEW S, NEW q \in Seq(S), NEW w \in S, NEW r, r = <<w>> \o q
  PROVE  /\ r \in Seq(S)
         /\ \A i \in 1..Len(r) : r[i] = w \/ \E j \in 1..Len(q) : r[i] = q[j]
         /\ \E i \in 1..Len(r) : r[i] = w
         /\ Distinct(q) /\ (\A i \in 1..Len(q) : q[i] # w) => Distinct(r)
  <1>1. r \in Seq(S) /\ Len(r) = Len(q) + 1 /\ r[1] = w
        /\ \A i \in 1..Len(q) : r[i + 1] = q[i]
    OBVIOUS
  <1>2. Len(q) \in Nat
    OBVIOUS
  <1>3. \A i \in 1..Len(r) : i = 1 \/ (i - 1 \in 1..Len(q) /\ r[i] = q[i - 1])
    <2> TAKE i \in 1..Len(r)
    <2>1. CASE i # 1
      <3>1. i - 1 \in 1..Len(q) /\ (i - 1) + 1 = i
        BY <1>1, <1>2, <2>1
      <3> QED BY <3>1, <1>1
    <2> QED BY <2>1
  <1>4. 1 \in 1..Len(r)
    BY <1>1, <1>2
  <1>5. ASSUME Distinct(q), \A i \in 1..Len(q) : q[i] # w PROVE Distinct(r)
    <2> SUFFICES ASSUME NEW i \in 1..Len(r), NEW j \in 1..Len(r), r[i] = r[j] PROVE i = j
      BY DEF Distinct
    <2>1. CASE i = 1 \/ j = 1
      BY <2>1, <1>1, <1>3, <1>5
    <2>2. CASE i # 1 /\ j # 1
      <3>1. q[i-1] = q[j-1] /\ i - 1 \in 1..Len(q) /\ j - 1 \in 1..Len(q)
        BY <2>2, <1>3
      <3>2. i - 1 = j - 1
        BY <3>1, <1>5 DEF Distinct
      <3> QED BY <3>2
    <2> QED BY <2>1, <2>2
  <1> QED BY <1>1, <1>3, <1>4, <1>5

\* worker_stop takes the first worker off the list of workers.
LEMMA TailList ==
  ASSUME NEW S, NEW q \in Seq(S), q # <<>>, NEW r, r = Tail(q)
  PROVE  /\ r \in Seq(S)
         /\ Head(q) \in S /\ \E i \in 1..Len(q) : q[i] = Head(q)
         /\ \A i \in 1..Len(r) : \E j \in 1..Len(q) : r[i] = q[j]
         /\ r # <<>> => Head(r) \in S /\ \E i \in 1..Len(r) : r[i] = Head(r)
         /\ Distinct(q) => Distinct(r) /\ \A i \in 1..Len(r) : r[i] # Head(q)
  <1>1. r \in Seq(S) /\ Len(r) = Len(q) - 1 /\ Len(q) \in Nat \ {0} /\ Head(q) = q[1]
    OBVIOUS
  <1>2. \A i \in 1..Len(r) : i + 1 \in 1..Len(q) /\ r[i] = q[i + 1]
    OBVIOUS
  <1>3. r # <<>> => Len(r) > 0 /\ Head(r) = r[1] /\ r[1] \in S
    BY <1>1
  <1>4. q[1] \in S /\ 1 \in 1..Len(q)
    BY <1>1
  <1>5. ASSUME Distinct(q) PROVE Distinct(r) /\ \A i \in 1..Len(r) : r[i] # Head(q)
    <2>1. Distinct(r)
      BY <1>1, <1>2, <1>5 DEF Distinct
    <2>2. \A i \in 1..Len(r) : r[i] # Head(q)
      BY <1>1, <1>2, <1>4, <1>5 DEF Distinct
    <2> QED BY <2>1, <2>2
  <1> QED BY <1>1, <1>2, <1>3, <1>4, <1>5

-----------------------------------------------------------------------------
(* The lists of clients.                                                   *)

\* The state that Lists is about.
ListTypes ==
  /\ onlist \in [Worker -> SUBSET Client]
  /\ pending \in [Worker -> SUBSET Client]
  /\ scan \in [Worker -> SUBSET Client]
  /\ cur \in [Worker -> Client \cup {None}]
  /\ cworker \in [Client -> Worker \cup {None}]
  /\ cstate \in [Client -> {"new", "live", "gone"}]
  /\ wpc \in [Worker -> PCs]
  /\ None \notin Worker \cup Client

\* ListTypes is part of the type invariant.
LEMMA ListTypesHold == TypeOK => ListTypes
  BY DistinctAssumption DEF TypeOK, ListTypes, Worker, Thread

\* Lists survives a step that moves no client and no worker thread.
LEMMA ListsSame ==
  ASSUME Lists,
         UNCHANGED <<onlist, pending, scan, cur, cworker, cstate, wpc>>
  PROVE  Lists'
  BY DEF Lists, InHand, ListedOwner, PendingOwner, ListedAndPending,
         KeepaliveUnowned, OwnerHolds, NewUnlisted

\* Steps of a worker thread.
LEMMA ListsWorker ==
  ASSUME ListTypes, Lists, ServingInv, NEW w \in Worker, WorkerStep(w)
  PROVE  Lists'
  <1> USE DEF ListTypes, Lists, InHand, Busy, Leaving
  <1>1. CASE WorkerBegin(w)
    BY <1>1 DEF WorkerBegin, Goto, listVars, clientVars, ServingInv,
       ListedOwner, PendingOwner, ListedAndPending, KeepaliveUnowned,
       OwnerHolds, NewUnlisted
  <1>2. CASE ProcessStay(w)
    BY <1>2 DEF ProcessStay, Goto, listVars, ListedOwner, PendingOwner,
       ListedAndPending, KeepaliveUnowned, OwnerHolds, NewUnlisted
  <1>3. CASE ProcessDone(w)
    <2>1. InHand'
      BY <1>3 DEF ProcessDone, Goto, listVars
    <2>2. ListedOwner'
      BY <1>3 DEF ProcessDone, Goto, listVars, ListedOwner, KeepaliveUnowned,
         PendingOwner
    <2>3. PendingOwner'
      BY <1>3 DEF ProcessDone, Goto, listVars, PendingOwner, ListedOwner,
         ListedAndPending, KeepaliveUnowned
    <2>4. ListedAndPending'
      BY <1>3 DEF ProcessDone, Goto, listVars, ListedAndPending, ListedOwner,
         PendingOwner, KeepaliveUnowned
    <2>5. KeepaliveUnowned'
      BY <1>3 DEF ProcessDone, Goto, listVars, KeepaliveUnowned, ListedOwner,
         PendingOwner
    <2>6. OwnerHolds'
      BY <1>3 DEF ProcessDone, Goto, listVars, OwnerHolds, ListedOwner,
         PendingOwner, ListedAndPending
    <2>7. NewUnlisted'
      BY <1>3 DEF ProcessDone, Goto, listVars, NewUnlisted, ListedOwner,
         PendingOwner
    <2> QED BY <2>1, <2>2, <2>3, <2>4, <2>5, <2>6, <2>7
  <1>4. CASE KeepaliveTest(w)
    <2>1. InHand'
      BY <1>4 DEF KeepaliveTest, Goto, listVars
    <2>2. ListedOwner'
      BY <1>4 DEF KeepaliveTest, Goto, listVars, ListedOwner,
         KeepaliveUnowned, PendingOwner
    <2>3. PendingOwner'
      BY <1>4 DEF KeepaliveTest, Goto, listVars, PendingOwner, ListedOwner,
         ListedAndPending, KeepaliveUnowned
    <2>4. ListedAndPending'
      BY <1>4 DEF KeepaliveTest, Goto, listVars, ListedAndPending,
         ListedOwner, PendingOwner, KeepaliveUnowned
    <2>5. KeepaliveUnowned'
      BY <1>4 DEF KeepaliveTest, Goto, listVars, KeepaliveUnowned,
         ListedOwner, PendingOwner
    <2>6. OwnerHolds'
      BY <1>4 DEF KeepaliveTest, Goto, listVars, OwnerHolds, ListedOwner,
         PendingOwner, ListedAndPending
    <2>7. NewUnlisted'
      BY <1>4 DEF KeepaliveTest, Goto, listVars, NewUnlisted, ListedOwner,
         PendingOwner
    <2> QED BY <2>1, <2>2, <2>3, <2>4, <2>5, <2>6, <2>7
  <1>5. CASE KeepaliveAdd(w)
    <2>1. InHand'
      BY <1>5 DEF KeepaliveAdd, Goto, WorkerAddClient
    <2>2. ListedOwner'
      BY <1>5 DEF KeepaliveAdd, Goto, WorkerAddClient, ListedOwner,
         KeepaliveUnowned, PendingOwner
    <2>3. PendingOwner'
      BY <1>5 DEF KeepaliveAdd, Goto, WorkerAddClient, PendingOwner,
         ListedOwner, ListedAndPending, KeepaliveUnowned
    <2>4. ListedAndPending'
      BY <1>5 DEF KeepaliveAdd, Goto, WorkerAddClient, ListedAndPending,
         ListedOwner, PendingOwner, KeepaliveUnowned
    <2>5. KeepaliveUnowned'
      BY <1>5 DEF KeepaliveAdd, Goto, WorkerAddClient, KeepaliveUnowned,
         ListedOwner, PendingOwner
    <2>6. OwnerHolds'
      BY <1>5 DEF KeepaliveAdd, Goto, WorkerAddClient, OwnerHolds,
         ListedOwner, PendingOwner, ListedAndPending
    <2>7. NewUnlisted'
      BY <1>5 DEF KeepaliveAdd, Goto, WorkerAddClient, NewUnlisted,
         ListedOwner, PendingOwner
    <2> QED BY <2>1, <2>2, <2>3, <2>4, <2>5, <2>6, <2>7
  <1>6. CASE PickSelected(w)
    BY <1>6 DEF PickSelected, Goto, listVars, clientVars, ListedOwner,
       PendingOwner, ListedAndPending, KeepaliveUnowned, OwnerHolds,
       NewUnlisted
  <1>7. CASE ChangeWorkerRefused(w)
    BY <1>7 DEF ChangeWorkerRefused, Goto, listVars, clientVars, ListedOwner,
       PendingOwner, ListedAndPending, KeepaliveUnowned, OwnerHolds,
       NewUnlisted
  <1>8. CASE ChangeWorker(w)
    <2>1. InHand'
      BY <1>8 DEF ChangeWorker, Goto, WorkerAddClient
    <2>2. ListedOwner'
      BY <1>8 DEF ChangeWorker, Goto, WorkerAddClient, ListedOwner,
         KeepaliveUnowned, PendingOwner
    <2>3. PendingOwner'
      BY <1>8 DEF ChangeWorker, Goto, WorkerAddClient, PendingOwner,
         ListedOwner, ListedAndPending, KeepaliveUnowned
    <2>4. ListedAndPending'
      BY <1>8 DEF ChangeWorker, Goto, WorkerAddClient, ListedAndPending,
         ListedOwner, PendingOwner, KeepaliveUnowned
    <2>5. KeepaliveUnowned'
      BY <1>8 DEF ChangeWorker, Goto, WorkerAddClient, KeepaliveUnowned,
         ListedOwner, PendingOwner
    <2>6. OwnerHolds'
      BY <1>8 DEF ChangeWorker, Goto, WorkerAddClient, OwnerHolds,
         ListedOwner, PendingOwner, ListedAndPending
    <2>7. NewUnlisted'
      BY <1>8 DEF ChangeWorker, Goto, WorkerAddClient, NewUnlisted,
         ListedOwner, PendingOwner
    <2> QED BY <2>1, <2>2, <2>3, <2>4, <2>5, <2>6, <2>7
  <1>9. CASE WakeMoved(w)
    <2>1. InHand'
      BY <1>9 DEF WakeMoved, Goto, listVars, clientVars, WorkerWakeup
    <2>2. ListedOwner'
      BY <1>9 DEF WakeMoved, Goto, listVars, clientVars, WorkerWakeup,
         ListedOwner, KeepaliveUnowned, PendingOwner
    <2>3. PendingOwner'
      BY <1>9 DEF WakeMoved, Goto, listVars, clientVars, WorkerWakeup,
         PendingOwner, ListedOwner, ListedAndPending, KeepaliveUnowned
    <2>4. ListedAndPending'
      BY <1>9 DEF WakeMoved, Goto, listVars, clientVars, WorkerWakeup,
         ListedAndPending, ListedOwner, PendingOwner, KeepaliveUnowned
    <2>5. KeepaliveUnowned'
      BY <1>9 DEF WakeMoved, Goto, listVars, clientVars, WorkerWakeup,
         KeepaliveUnowned, ListedOwner, PendingOwner
    <2>6. OwnerHolds'
      BY <1>9 DEF WakeMoved, Goto, listVars, clientVars, WorkerWakeup,
         OwnerHolds, ListedOwner, PendingOwner, ListedAndPending
    <2>7. NewUnlisted'
      BY <1>9 DEF WakeMoved, Goto, listVars, clientVars, WorkerWakeup,
         NewUnlisted, ListedOwner, PendingOwner
    <2> QED BY <2>1, <2>2, <2>3, <2>4, <2>5, <2>6, <2>7
  <1>10. CASE Unlink(w)
    BY <1>10 DEF Unlink, Goto, clientVars, ListedOwner, PendingOwner,
       ListedAndPending, KeepaliveUnowned, OwnerHolds, NewUnlisted
  <1>11. CASE EndPass(w)
    BY <1>11 DEF EndPass, Goto, listVars, clientVars, Drained, ListedOwner,
       PendingOwner, ListedAndPending, KeepaliveUnowned, OwnerHolds,
       NewUnlisted
  <1>12. CASE WaitOver(w)
    BY <1>12 DEF WaitOver, Goto, listVars, clientVars, ListedOwner,
       PendingOwner, ListedAndPending, KeepaliveUnowned, OwnerHolds,
       NewUnlisted
  <1>13. CASE AddPending(w)
    <2>1. InHand'
      BY <1>13 DEF AddPending, Goto, clientVars
    <2>2. ListedOwner'
      BY <1>13 DEF AddPending, Goto, clientVars, ListedOwner,
         KeepaliveUnowned, PendingOwner
    <2>3. PendingOwner'
      BY <1>13 DEF AddPending, Goto, clientVars, PendingOwner, ListedOwner,
         ListedAndPending, KeepaliveUnowned
    <2>4. ListedAndPending'
      BY <1>13 DEF AddPending, Goto, clientVars, ListedAndPending,
         ListedOwner, PendingOwner, KeepaliveUnowned
    <2>5. KeepaliveUnowned'
      BY <1>13 DEF AddPending, Goto, clientVars, KeepaliveUnowned,
         ListedOwner, PendingOwner
    <2>6. OwnerHolds'
      BY <1>13 DEF AddPending, Goto, clientVars, OwnerHolds, ListedOwner,
         PendingOwner, ListedAndPending
    <2>7. NewUnlisted'
      BY <1>13 DEF AddPending, Goto, clientVars, NewUnlisted, ListedOwner,
         PendingOwner
    <2> QED BY <2>1, <2>2, <2>3, <2>4, <2>5, <2>6, <2>7
  <1>14. CASE WorkerExit(w)
    BY <1>14 DEF WorkerExit, Goto, listVars, clientVars, ListedOwner,
       PendingOwner, ListedAndPending, KeepaliveUnowned, OwnerHolds,
       NewUnlisted
  <1>15. ASSUME NEW c \in Client, VisitSkip(w, c) PROVE Lists'
    BY <1>15 DEF VisitSkip, listVars, clientVars, ListedOwner, PendingOwner,
       ListedAndPending, KeepaliveUnowned, OwnerHolds, NewUnlisted
  <1>16. ASSUME NEW c \in Client, VisitProcess(w, c) PROVE Lists'
    BY <1>16 DEF VisitProcess, Goto, listVars, clientVars, ListedOwner,
       PendingOwner, ListedAndPending, KeepaliveUnowned, OwnerHolds,
       NewUnlisted
  <1> QED
    BY <1>1, <1>2, <1>3, <1>4, <1>5, <1>6, <1>7, <1>8, <1>9, <1>10, <1>11,
       <1>12, <1>13, <1>14, <1>15, <1>16 DEF WorkerStep

\* A client new to the workers becomes pending.
LEMMA ListsAdded ==
  ASSUME ListTypes, Lists, NEW v \in Worker, NEW c \in Client,
         cstate[c] = "new",
         cstate' = [cstate EXCEPT ![c] = "live"],
         WorkerAddClient(v, c),
         UNCHANGED <<onlist, scan, cur, wpc>>
  PROVE  Lists'
  <1> USE DEF ListTypes, Lists, InHand, Busy, Leaving, NewUnlisted,
              WorkerAddClient
  <1>1. InHand'
    BY DEF InHand
  <1>2. ListedOwner'
    BY DEF ListedOwner, KeepaliveUnowned, PendingOwner
  <1>3. PendingOwner'
    BY DEF PendingOwner, ListedOwner, ListedAndPending, KeepaliveUnowned
  <1>4. ListedAndPending'
    BY DEF ListedAndPending, ListedOwner, PendingOwner, KeepaliveUnowned
  <1>5. KeepaliveUnowned'
    BY DEF KeepaliveUnowned, ListedOwner, PendingOwner
  <1>6. OwnerHolds'
    BY DEF OwnerHolds, ListedOwner, PendingOwner, ListedAndPending
  <1>7. NewUnlisted'
    BY DEF NewUnlisted, ListedOwner, PendingOwner
  <1> QED BY <1>1, <1>2, <1>3, <1>4, <1>5, <1>6, <1>7

\* Every step keeps the lists of clients in order.
LEMMA ListsNext == IInv /\ [Next]_vars => Lists'
  <1> SUFFICES ASSUME IInv, [Next]_vars PROVE Lists'
    OBVIOUS
  <1>1. ListTypes /\ Lists /\ ServingInv
    BY ListTypesHold DEF IInv
  <1>2. ASSUME NEW w \in Worker, WorkerStep(w) PROVE Lists'
    BY <1>1, <1>2, ListsWorker
  <1>3. ASSUME NEW c \in Client, AcceptClient(c) PROVE Lists'
    <2>1. Incoming \in Worker
      BY DEF Worker
    <2> QED BY <1>1, <1>3, <2>1, ListsAdded DEF AcceptClient, workerVars
  <1>4. ASSUME NEW c \in Client, ClientAddWorker(c) PROVE Lists'
    <2>1. leastUsed \in Worker
      BY <1>4 DEF ClientAddWorker, IInv, TypeOK, Worker
    <2> QED BY <1>1, <1>4, <2>1, ListsAdded DEF ClientAddWorker, workerVars
  <1>5. ASSUME UNCHANGED <<onlist, pending, scan, cur, cworker, cstate, wpc>>
        PROVE  Lists'
    BY <1>1, <1>5, ListsSame
  <1>6. ASSUME \/ \E c \in Client : AuthDone(c)
               \/ \E t \in Client \cup {Accept, Slave} : Wake(t)
               \/ SlaveStep
               \/ Halt
               \/ UNCHANGED vars
        PROVE  UNCHANGED <<onlist, pending, scan, cur, cworker, cstate, wpc>>
    BY <1>6 DEF AuthDone, Wake, SlaveStep, StopAccepting, StartAccepting,
         WorkerStart, Balance, WorkerStop, IncomingStop, JoinAndFree, Halt,
         vars, workerVars, listVars, clientVars
  <1> QED BY <1>2, <1>3, <1>4, <1>5, <1>6 DEF Next

-----------------------------------------------------------------------------
(* The counters.                                                           *)

\* The counters still match when neither they nor the lists change.
LEMMA CountsSame ==
  ASSUME CountsMatch, UNCHANGED listVars
  PROVE  CountsMatch'
  BY DEF CountsMatch, listVars

\* A client that is not pending is added to a pending list.
LEMMA CountsAdded ==
  ASSUME TypeOK, CountsMatch, NEW v \in Worker, NEW c \in Client,
         c \notin pending[v], WorkerAddClient(v, c), UNCHANGED <<onlist, count>>
  PROVE  CountsMatch'
  <1>1. pending[v] \in SUBSET Client
    BY DEF TypeOK
  <1>2. Cardinality(pending[v] \cup {c}) = Cardinality(pending[v]) + 1
    BY <1>1, SubsetFacts, FS_AddElement
  <1>3. \A u \in Worker : pending'[u] = IF u = v THEN pending[v] \cup {c}
                                                 ELSE pending[u]
    BY DEF WorkerAddClient, TypeOK
  <1>4. \A u \in Worker : pcount'[u] = IF u = v THEN pcount[v] + 1
                                                ELSE pcount[u]
    BY DEF WorkerAddClient, TypeOK
  <1> QED BY <1>2, <1>3, <1>4 DEF CountsMatch

\* The worker loop takes a client off its list and counts it out.
LEMMA UnlinkCounts ==
  ASSUME TypeOK, Lists, CountsMatch, NEW w \in Worker, Unlink(w)
  PROVE  CountsMatch' /\ count' \in [Worker -> Nat]
  <1>1. onlist[w] \in SUBSET Client /\ cur[w] \in onlist[w]
    BY DEF Unlink, TypeOK, Lists, InHand, Busy, Leaving
  <1>2. Cardinality(onlist[w] \ {cur[w]}) = Cardinality(onlist[w]) - 1
    BY <1>1, SubsetFacts, FS_RemoveElement
  <1>3. Cardinality(onlist[w] \ {cur[w]}) \in Nat
    BY <1>1, SubsetFacts
  <1>4. \A u \in Worker : onlist'[u] = IF u = w THEN onlist[w] \ {cur[w]}
                                                ELSE onlist[u]
    BY DEF Unlink, TypeOK
  <1>5. \A u \in Worker : count'[u] = IF u = w THEN count[w] - 1 ELSE count[u]
    BY DEF Unlink, TypeOK
  <1>6. CountsMatch'
    BY <1>2, <1>4, <1>5 DEF CountsMatch, Unlink
  <1>7. count[w] - 1 \in Nat
    BY <1>2, <1>3 DEF CountsMatch
  <1> QED BY <1>6, <1>7 DEF Unlink, TypeOK

\* worker_add_pending_clients moves the pending clients and their count.
LEMMA AddPendingCounts ==
  ASSUME TypeOK, Lists, CountsMatch, NEW w \in Worker, AddPending(w)
  PROVE  CountsMatch'
  <1>1. onlist[w] \in SUBSET Client /\ pending[w] \in SUBSET Client
    BY DEF TypeOK
  <1>2. onlist[w] \cap pending[w] = {}
    BY DEF AddPending, Lists, ListedAndPending, Leaving
  <1>3. Cardinality(onlist[w] \cup pending[w]) =
          Cardinality(onlist[w]) + Cardinality(pending[w])
    BY <1>1, <1>2, SubsetFacts, FS_Union, FS_EmptySet
  <1>4. \A u \in Worker :
          /\ onlist'[u] = IF u = w THEN onlist[w] \cup pending[w] ELSE onlist[u]
          /\ pending'[u] = IF u = w THEN {} ELSE pending[u]
    BY DEF AddPending, TypeOK
  <1>5. \A u \in Worker :
          /\ count'[u] = IF u = w THEN count[w] + pcount[w] ELSE count[u]
          /\ pcount'[u] = IF u = w THEN 0 ELSE pcount[u]
    BY DEF AddPending, TypeOK
  <1> QED BY <1>3, <1>4, <1>5, FS_EmptySet DEF CountsMatch

\* Every step keeps the counters equal to the lengths of their lists.
LEMMA CountsNext == IInv /\ [Next]_vars => CountsMatch'
  <1> SUFFICES ASSUME IInv, [Next]_vars PROVE CountsMatch'
    OBVIOUS
  <1>0. TypeOK /\ Lists /\ CountsMatch /\ ListTypes
    BY ListTypesHold DEF IInv
  <1>1. Incoming \in Worker
    BY DEF Worker
  <1>2. ASSUME NEW w \in Worker, WorkerStep(w) PROVE CountsMatch'
    <2>1. CASE Unlink(w)
      BY <1>0, <2>1, UnlinkCounts
    <2>2. CASE AddPending(w)
      BY <1>0, <2>2, AddPendingCounts
    <2>3. CASE KeepaliveAdd(w)
      <3>1. cur[w] \in Client /\ cur[w] \notin pending[Incoming]
        BY <1>0, <1>1, <2>3 DEF KeepaliveAdd, ListTypes, Lists, InHand, Busy,
           PendingOwner, KeepaliveUnowned
      <3> QED BY <1>0, <1>1, <2>3, <3>1, CountsAdded DEF KeepaliveAdd
    <2>4. CASE ChangeWorker(w)
      <3>1. dest[w] \in Worker /\ cur[w] \in Client
        BY <1>0, <2>4 DEF ChangeWorker, IInv, TypeOK, ServingInv, ListTypes,
           Lists, InHand, Busy
      <3>2. cur[w] \notin pending[dest[w]]
        BY <1>0, <2>4, <3>1 DEF ChangeWorker, ListTypes, Lists, InHand, Busy,
           ListedOwner, Leaving, PendingOwner, ListedAndPending
      <3> QED BY <1>0, <2>4, <3>1, <3>2, CountsAdded DEF ChangeWorker
    <2>5. CASE ~(Unlink(w) \/ AddPending(w) \/ KeepaliveAdd(w)
                 \/ ChangeWorker(w))
      <3>1. UNCHANGED listVars
        BY <1>2, <2>5 DEF WorkerStep, WorkerBegin, VisitSkip, VisitProcess,
           ProcessStay, ProcessDone, KeepaliveTest, PickSelected,
           ChangeWorkerRefused, WakeMoved, EndPass, WaitOver, WorkerExit
      <3> QED BY <1>0, <3>1, CountsSame
    <2> QED BY <2>1, <2>2, <2>3, <2>4, <2>5
  <1>3. ASSUME NEW c \in Client, AcceptClient(c) PROVE CountsMatch'
    BY <1>0, <1>1, <1>3, CountsAdded DEF AcceptClient, Lists, NewUnlisted
  <1>4. ASSUME NEW c \in Client, ClientAddWorker(c) PROVE CountsMatch'
    <2>1. leastUsed \in Worker
      BY <1>4 DEF ClientAddWorker, IInv, TypeOK, Worker
    <2> QED BY <1>0, <1>4, <2>1, CountsAdded
            DEF ClientAddWorker, Lists, NewUnlisted
  <1>5. ASSUME \/ \E c \in Client : AuthDone(c)
               \/ \E t \in Client \cup {Accept, Slave} : Wake(t)
               \/ SlaveStep
               \/ Halt
               \/ UNCHANGED vars
        PROVE  UNCHANGED listVars
    BY <1>5 DEF AuthDone, Wake, SlaveStep, StopAccepting, StartAccepting,
         WorkerStart, Balance, WorkerStop, IncomingStop, JoinAndFree, Halt,
         vars, listVars
  <1> QED BY <1>0, <1>2, <1>3, <1>4, <1>5, CountsSame DEF Next

-----------------------------------------------------------------------------
(* The workers that are given clients.                                     *)

\* worker_start keeps the list of workers to serving ones.
LEMMA StartServing ==
  ASSUME TypeOK, ServingInv, NEW w \in Normal, WorkerStart(w)
  PROVE  ServingInv'
  <1>0. workers \in Seq(Normal) /\ w \in Worker
    BY DEF TypeOK, Worker
  <1>1. \A i \in 1..Len(workers) : workers[i] # w
    BY <1>0 DEF WorkerStart, ServingInv, Serving
  <1>2. /\ Distinct(workers')
        /\ \A i \in 1..Len(workers') :
             workers'[i] = w \/ \E j \in 1..Len(workers) : workers'[i] = workers[j]
        /\ \E i \in 1..Len(workers') : workers'[i] = w
    <2>1. workers' = <<w>> \o workers /\ Distinct(workers)
      BY DEF WorkerStart, ServingInv
    <2>2. Distinct(workers')
      BY <1>0, <1>1, <2>1, PushList, ZenonT(40)
    <2> QED BY <1>0, <2>1, <2>2, PushList
  <1>3. /\ thread'[w] = "created"
        /\ \A v \in Worker : Serving(v) => Serving(v)'
    <2>1. /\ thread' = [v \in Worker |-> IF v = w \/ (v = Incoming /\ incoming = None)
                                        THEN "created" ELSE thread[v]]
          /\ running' = running
      BY DEF WorkerStart
    <2>2. \A v \in Worker : thread'[v] = "created" \/ thread'[v] = thread[v]
      BY <2>1
    <2>3. thread'[w] = "created"
      BY <1>0, <2>1
    <2> QED
      BY ONLY <2>1, <2>2, <2>3 DEF Serving
  <1>4. (\A i \in 1..Len(workers) : Serving(workers[i]))'
    <2>1. \A i \in 1..Len(workers) : workers[i] \in Worker
      BY <1>0 DEF Worker
    <2> QED BY <1>2, <1>3, <2>1 DEF Serving, ServingInv
  <1>5. Serving(Incoming)'
    BY <1>3 DEF WorkerStart, Serving, ServingInv, Worker, TypeOK
  <1>6. InList(w)'
    BY <1>2 DEF InList
  <1>7. \A v \in Worker :
          /\ running'[v] => thread'[v] = "alive" /\ wpc'[v] # "exit"
          /\ thread'[v] # "alive" => wpc'[v] = "off"
    <2>1. UNCHANGED <<running, wpc>>
      BY DEF WorkerStart
    <2>2. \A v \in Worker : \/ thread'[v] = thread[v]
                            \/ /\ thread'[v] = "created"
                               /\ thread[v] # "alive"
      BY DEF WorkerStart, ServingInv, TypeOK, Worker
    <2> QED BY <2>1, <2>2 DEF ServingInv
  <1>8. /\ UNCHANGED <<dest, accepting, adj, victim, wpc>>
        /\ incoming' = Incoming /\ leastUsed' = w /\ ~accepting /\ adj = "run"
        /\ workers' # <<>>
    BY <1>2 DEF WorkerStart
  <1>9. Incoming # None
    BY DistinctAssumption DEF Thread, Worker
  <1> QED BY <1>2, <1>4, <1>5, <1>6, <1>7, <1>8, <1>9 DEF ServingInv

\* worker_stop keeps the list of workers to serving ones.
LEMMA StopServing ==
  ASSUME TypeOK, ServingInv, WorkerStop
  PROVE  ServingInv'
  <1>0. workers \in Seq(Normal) /\ workers # <<>> /\ workers' = Tail(workers)
    BY DEF TypeOK, WorkerStop
  <1>1. Head(workers) \in Normal
    BY <1>0, TailList
  <1>2. /\ Distinct(workers')
        /\ \A i \in 1..Len(workers') :
             /\ workers'[i] # Head(workers)
             /\ \E j \in 1..Len(workers) : workers'[i] = workers[j]
    <2>1. Distinct(workers)
      BY DEF ServingInv
    <2> QED BY <1>0, <2>1, TailList DEF Distinct
  <1>3. \A v : v # Head(workers) /\ Serving(v) => Serving(v)'
    BY DEF WorkerStop, StopHandler, Serving, TypeOK
  <1>4. (\A i \in 1..Len(workers) : Serving(workers[i]))'
    <2>1. \A i \in 1..Len(workers') : Serving(workers'[i])
      BY <1>2 DEF ServingInv
    <2> QED BY <2>1, <1>2, <1>3 DEF Serving
  <1>5. leastUsed' # None => InList(leastUsed)'
    BY <1>0, TailList DEF WorkerStop, InList
  <1>6. incoming' # None /\ Serving(Incoming)'
    BY <1>0, <1>1, <1>3, DistinctAssumption DEF WorkerStop, ServingInv
  <1>7. \A v \in Worker : running'[v] => running[v]
    BY DEF WorkerStop, StopHandler, TypeOK
  <1>8. victim' # None /\ ~accepting' /\ adj' = "join"
    BY <1>1, DistinctAssumption DEF WorkerStop, StopHandler, Thread, Worker
  <1>9. workers' = <<>> => halting'
    <2>1. Len(workers') = Len(workers) - 1 /\ Len(workers) \in Nat
      BY <1>0
    <2> QED BY <2>1 DEF WorkerStop
  <1>10. UNCHANGED <<thread, wpc, dest>>
    BY DEF WorkerStop
  <1> QED BY <1>2, <1>4, <1>5, <1>6, <1>7, <1>8, <1>9, <1>10 DEF ServingInv

\* Steps that leave the threads and the globals of client.c alone.
LEMMA ServingSame ==
  ASSUME ServingInv,
         UNCHANGED <<thread, running, workers, leastUsed, incoming, accepting,
                     adj, victim>>,
         halting => halting',
         \A w \in Worker : /\ wpc'[w] = "exit" <=> wpc[w] = "exit"
                           /\ wpc'[w] = "off" <=> wpc[w] = "off"
                           /\ wpc'[w] = "move" => dest'[w] # None
  PROVE  ServingInv'
  BY DEF ServingInv, Serving, InList, Distinct

\* Every step keeps the workers that are given clients serving.
LEMMA ServingNext == IInv /\ [Next]_vars => ServingInv'
  <1> SUFFICES ASSUME IInv, [Next]_vars PROVE ServingInv'
    OBVIOUS
  <1>0. TypeOK /\ ServingInv
    BY DEF IInv
  <1>1. ASSUME NEW w \in Worker, WorkerStep(w) PROVE ServingInv'
    <2>1. CASE WorkerBegin(w)
      BY <1>0, <2>1 DEF WorkerBegin, Goto, globalVars, TypeOK, ServingInv,
         Serving, InList
    <2>2. CASE EndPass(w)
      BY <1>0, <2>2 DEF EndPass, Drained, Goto, globalVars, TypeOK, ServingInv,
         Serving, InList
    <2>3. CASE WorkerExit(w)
      BY <1>0, <2>3 DEF WorkerExit, Goto, globalVars, TypeOK, ServingInv,
         Serving, InList
    <2>4. CASE PickSelected(w)
      <3>1. \A v \in Worker : /\ wpc'[v] = "exit" <=> wpc[v] = "exit"
                              /\ wpc'[v] = "off" <=> wpc[v] = "off"
                              /\ wpc'[v] = "move" => dest'[v] # None
        BY <1>0, <2>4 DEF PickSelected, Goto, TypeOK, ServingInv
      <3> QED BY <1>0, <2>4, <3>1, ServingSame DEF PickSelected, globalVars
    <2>5. CASE ~(WorkerBegin(w) \/ EndPass(w) \/ WorkerExit(w)
                 \/ PickSelected(w))
      <3>1. /\ UNCHANGED <<thread, running, globalVars>>
            /\ wpc' = wpc \/ \E pc \in {"scan", "proc", "keep", "wake",
                 "unlink", "drained"} : wpc' = [wpc EXCEPT ![w] = pc]
            /\ dest' = dest \/ dest' = [dest EXCEPT ![w] = None]
            /\ wpc[w] \notin {"exit", "off"}
        BY <1>0, <1>1, <2>5 DEF WorkerStep, VisitSkip, VisitProcess, Goto,
           ProcessStay, ProcessDone, KeepaliveTest, KeepaliveAdd,
           ChangeWorkerRefused, ChangeWorker, WakeMoved, Unlink, WaitOver,
           AddPending
      <3>2. \A v \in Worker : v # w => wpc'[v] = wpc[v] /\ dest'[v] = dest[v]
        BY <1>0, <3>1 DEF TypeOK
      <3>3. wpc'[w] \notin {"exit", "off"} /\ (wpc'[w] = "move" => wpc' = wpc /\ wpc[w] = "move")
        BY <1>0, <3>1 DEF TypeOK
      <3>4. wpc' = wpc => dest' = dest
        BY <1>0, <1>1, <2>5 DEF TypeOK, WorkerStep, VisitSkip, VisitProcess, Goto,
           ProcessStay, ProcessDone, KeepaliveTest, KeepaliveAdd,
           ChangeWorkerRefused, ChangeWorker, WakeMoved, Unlink, WaitOver,
           AddPending
      <3>5. \A v \in Worker : /\ wpc'[v] = "exit" <=> wpc[v] = "exit"
                              /\ wpc'[v] = "off" <=> wpc[v] = "off"
                              /\ wpc'[v] = "move" => dest'[v] # None
        BY <1>0, <3>1, <3>2, <3>3, <3>4 DEF ServingInv
      <3> QED BY <1>0, <3>1, <3>5, ServingSame DEF globalVars
    <2> QED BY <2>1, <2>2, <2>3, <2>4, <2>5
  <1>2. ASSUME NEW w \in Normal, WorkerStart(w) PROVE ServingInv'
    BY <1>0, <1>2, StartServing
  <1>3. CASE WorkerStop
    BY <1>0, <1>3, StopServing
  <1>4. CASE IncomingStop
    <2>1. workers = <<>> /\ workers' = <<>>
      BY <1>0, <1>4 DEF IncomingStop, ServingInv
    <2>2. Len(workers') = 0
      BY <2>1
    <2> QED BY <1>0, <1>4, <2>1, <2>2, DistinctAssumption
            DEF IncomingStop, StopHandler, ServingInv, Serving, InList,
                Distinct, TypeOK, Worker, Thread
  <1>5. CASE JoinAndFree
    BY <1>0, <1>5 DEF JoinAndFree, ServingInv, Serving, InList, TypeOK
  <1>6. CASE StopAccepting \/ StartAccepting
    BY <1>0, <1>6 DEF StopAccepting, StartAccepting, workerVars, ServingInv,
       Serving, InList
  <1>7. CASE Balance
    BY <1>0, <1>7 DEF Balance, LeastBusy, workerVars, ServingInv, Serving,
       InList
  <1>8. ASSUME \/ \E c \in Client : \/ AuthDone(c) \/ AcceptClient(c)
                                    \/ ClientAddWorker(c)
               \/ \E t \in Client \cup {Accept, Slave} : Wake(t)
               \/ Halt
               \/ UNCHANGED vars
        PROVE  /\ UNCHANGED <<thread, running, wpc, dest, workers, leastUsed,
                              incoming, accepting, adj, victim>>
               /\ halting => halting'
    BY <1>8 DEF AuthDone, AcceptClient, ClientAddWorker, Wake, Halt, vars,
       workerVars, globalVars
  <1>9. CASE /\ UNCHANGED <<thread, running, wpc, dest, workers, leastUsed,
                            incoming, accepting, adj, victim>>
             /\ halting => halting'
    BY <1>0, <1>9, ServingSame DEF ServingInv
  <1> QED BY <1>1, <1>2, <1>3, <1>4, <1>5, <1>6, <1>7, <1>8, <1>9
          DEF Next, SlaveStep

-----------------------------------------------------------------------------
(* Workers that end.                                                       *)

\* The exit test of the worker loop is passed with both lists empty.
LEMMA ExitEmpty ==
  ASSUME TypeOK, Lists, CountsMatch, NEW w \in Worker, EndPass(w),
         wpc'[w] = "exit"
  PROVE  /\ onlist[w] = {} /\ pending[w] = {}
         /\ \A c \in Client : cworker[c] # w
  <1>1. Drained(w)
    BY DEF EndPass, Goto, TypeOK
  <1>2. onlist[w] \in SUBSET Client /\ pending[w] \in SUBSET Client
    BY DEF TypeOK
  <1>3. onlist[w] = {} /\ pending[w] = {}
    BY <1>1, <1>2, SubsetFacts DEF Drained, CountsMatch
  <1> QED BY <1>3 DEF Lists, OwnerHolds

Ended(w) == wpc[w] = "exit" \/ thread[w] \in {"exited", "freed"}

\* Clients are only given to workers that have not ended.
LEMMA AddedToServing ==
  ASSUME TypeOK, ServingInv, NothingToRelocate, NEW v \in Worker, Serving(v),
         NEW c \in Client, WorkerAddClient(v, c),
         UNCHANGED <<thread, onlist>>,
         \A w \in Worker : wpc'[w] = "exit" => wpc[w] = "exit"
  PROVE  NothingToRelocate'
  <1>1. ~Ended(v)
    BY DEF Serving, ServingInv, Ended
  <1>2. ASSUME NEW w \in Worker, Ended(w)' PROVE w # v /\ Ended(w)
    BY <1>1, <1>2 DEF Ended
  <1>3. ASSUME NEW w \in Worker, Ended(w)'
        PROVE  /\ onlist'[w] = {} /\ pending'[w] = {}
               /\ \A d \in Client : cworker'[d] # w
    BY <1>2, <1>3 DEF NothingToRelocate, Ended, WorkerAddClient, TypeOK
  <1> QED BY <1>3 DEF NothingToRelocate, Ended

\* Steps after which no worker has more than it had.
LEMMA RelocateSame ==
  ASSUME NothingToRelocate,
         \A w \in Worker :
           /\ Ended(w)' => Ended(w)
           /\ onlist'[w] \subseteq onlist[w] /\ pending'[w] \subseteq pending[w]
           /\ \A c \in Client : cworker'[c] = w => cworker[c] = w
  PROVE  NothingToRelocate'
  BY DEF NothingToRelocate, Ended

\* Every step leaves ended workers without clients.
LEMMA RelocateNext == IInv /\ [Next]_vars => NothingToRelocate'
  <1> SUFFICES ASSUME IInv, [Next]_vars PROVE NothingToRelocate'
    OBVIOUS
  <1>0. TypeOK /\ Lists /\ ServingInv /\ CountsMatch /\ NothingToRelocate
        /\ ListTypes
    BY ListTypesHold DEF IInv
  <1>a. Incoming \in Worker /\ None \notin Worker
    BY DistinctAssumption DEF Worker, Thread
  <1>1. ASSUME NEW w \in Worker, WorkerStep(w) PROVE NothingToRelocate'
    <2>1. CASE EndPass(w)
      <3>1. CASE wpc'[w] = "exit"
        <4>1. UNCHANGED <<thread, onlist, pending, cworker>>
          BY <2>1 DEF EndPass, listVars, clientVars
        <4>2. \A v \in Worker : v # w => wpc'[v] = wpc[v]
          BY <1>0, <2>1 DEF EndPass, Goto, TypeOK
        <4>3. /\ onlist[w] = {} /\ pending[w] = {}
              /\ \A c \in Client : cworker[c] # w
          BY <1>0, <2>1, <3>1, ExitEmpty
        <4> QED BY <1>0, <4>1, <4>2, <4>3 DEF NothingToRelocate
      <3>2. CASE wpc'[w] # "exit"
        BY <1>0, <2>1, <3>2, RelocateSame
           DEF EndPass, Goto, listVars, clientVars, TypeOK, Ended
      <3> QED BY <3>1, <3>2
    <2>2. CASE KeepaliveAdd(w)
      <3>1. Serving(Incoming) /\ cur[w] \in Client
        BY <1>0, <2>2 DEF KeepaliveAdd, ServingInv, ListTypes, Lists, InHand,
           Busy
      <3>2. \A v \in Worker : wpc'[v] = "exit" => wpc[v] = "exit"
        BY <1>0, <2>2 DEF KeepaliveAdd, Goto, TypeOK
      <3> QED BY <1>0, <1>a, <2>2, <3>1, <3>2, AddedToServing
              DEF KeepaliveAdd
    <2>3. CASE ChangeWorker(w)
      <3>1. dest[w] \in Worker /\ cur[w] \in Client
        BY <1>0, <2>3 DEF ChangeWorker, TypeOK, ServingInv, ListTypes, Lists,
           InHand, Busy
      <3>2. Serving(dest[w])
        BY <1>0, <2>3, <3>1 DEF ChangeWorker, ServingInv, Serving
      <3>3. \A v \in Worker : wpc'[v] = "exit" => wpc[v] = "exit"
        BY <1>0, <2>3 DEF ChangeWorker, Goto, TypeOK
      <3> QED BY <1>0, <2>3, <3>1, <3>2, <3>3, AddedToServing
              DEF ChangeWorker
    <2>4. CASE AddPending(w)
      <3>1. ~Ended(w)
        BY <1>0, <2>4 DEF AddPending, ServingInv, Ended
      <3> QED BY <1>0, <2>4, <3>1
              DEF AddPending, Goto, clientVars, TypeOK, NothingToRelocate,
                  Ended
    <2>5. CASE WorkerBegin(w)
      BY <1>0, <2>5, RelocateSame
         DEF WorkerBegin, Goto, listVars, clientVars, TypeOK, Ended
    <2>6. CASE WorkerExit(w)
      BY <1>0, <2>6, RelocateSame
         DEF WorkerExit, Goto, listVars, clientVars, TypeOK, Ended
    <2>7. CASE Unlink(w)
      BY <1>0, <2>7, RelocateSame
         DEF Unlink, Goto, clientVars, TypeOK, Ended
    <2>8. CASE ~(EndPass(w) \/ KeepaliveAdd(w) \/ ChangeWorker(w)
                 \/ AddPending(w) \/ WorkerBegin(w) \/ WorkerExit(w)
                 \/ Unlink(w))
      <3>1. /\ UNCHANGED <<thread, onlist, pending>>
            /\ wpc' = wpc \/ \E pc \in {"scan", "proc", "keep", "move",
                 "unlink", "drained"} : wpc' = [wpc EXCEPT ![w] = pc]
            /\ cworker' = cworker \/ cworker' = [cworker EXCEPT ![cur[w]] = None]
        BY <1>0, <1>1, <2>8 DEF WorkerStep, VisitSkip, VisitProcess, Goto,
           ProcessStay, ProcessDone, KeepaliveTest, PickSelected,
           ChangeWorkerRefused, WakeMoved, WaitOver, listVars, clientVars
      <3> QED BY <1>0, <1>a, <3>1, RelocateSame DEF TypeOK, Ended
    <2> QED BY <2>1, <2>2, <2>3, <2>4, <2>5, <2>6, <2>7, <2>8
  <1>2. ASSUME NEW c \in Client, AcceptClient(c) PROVE NothingToRelocate'
    <2>1. Serving(Incoming)
      BY <1>0, <1>2 DEF AcceptClient, ServingInv
    <2> QED BY <1>0, <1>a, <1>2, <2>1, AddedToServing
            DEF AcceptClient, workerVars
  <1>3. ASSUME NEW c \in Client, ClientAddWorker(c) PROVE NothingToRelocate'
    <2>1. leastUsed \in Worker /\ Serving(leastUsed)
      BY <1>0, <1>3 DEF ClientAddWorker, TypeOK, Worker, ServingInv, InList
    <2> QED BY <1>0, <1>3, <2>1, AddedToServing
            DEF ClientAddWorker, workerVars
  <1>4. ASSUME NEW w \in Normal, WorkerStart(w) PROVE NothingToRelocate'
    BY <1>0, <1>4, RelocateSame
       DEF WorkerStart, listVars, clientVars, TypeOK, Ended
  <1>5. CASE JoinAndFree
    BY <1>0, <1>5, RelocateSame
       DEF JoinAndFree, listVars, clientVars, TypeOK, Ended, ServingInv
  <1>6. ASSUME \/ \E c \in Client : AuthDone(c)
               \/ \E t \in Client \cup {Accept, Slave} : Wake(t)
               \/ StopAccepting \/ StartAccepting \/ Balance \/ WorkerStop
               \/ IncomingStop
               \/ Halt
               \/ UNCHANGED vars
        PROVE  UNCHANGED <<thread, wpc, onlist, pending, cworker>>
    BY <1>6 DEF AuthDone, Wake, StopAccepting, StartAccepting, Balance,
       WorkerStop, IncomingStop, Halt, vars, workerVars, listVars, clientVars
  <1>7. CASE UNCHANGED <<thread, wpc, onlist, pending, cworker>>
    BY <1>0, <1>7, RelocateSame DEF Ended
  <1> QED BY <1>1, <1>2, <1>3, <1>4, <1>5, <1>6, <1>7 DEF Next, SlaveStep

-----------------------------------------------------------------------------
(* Types.                                                                  *)

\* Steps of a worker thread keep the types.
LEMMA TypeWorker ==
  ASSUME TypeOK, Lists, ServingInv, CountsMatch, NEW w \in Worker,
         WorkerStep(w)
  PROVE  TypeOK'
  <1> USE DistinctAssumption DEF TypeOK, Worker, Thread, PCs, ThreadStates
  <1>1. CASE WorkerBegin(w)
    BY <1>1 DEF WorkerBegin, Goto, listVars, clientVars, globalVars
  <1>2. CASE ProcessStay(w)
    <2>1. cur[w] \in Client
      BY <1>2 DEF ProcessStay, Lists, InHand, Busy
    <2> QED BY <1>2, <2>1 DEF ProcessStay, Goto, listVars, globalVars
  <1>3. CASE ProcessDone(w)
    BY <1>3 DEF ProcessDone, Goto, listVars, globalVars, Lists, InHand, Busy
  <1>4. CASE KeepaliveTest(w)
    BY <1>4 DEF KeepaliveTest, Goto, listVars, globalVars, Lists, InHand,
       Busy
  <1>5. CASE KeepaliveAdd(w)
    BY <1>5 DEF KeepaliveAdd, Goto, WorkerAddClient, globalVars, Lists,
       InHand, Busy
  <1>6. CASE PickSelected(w)
    BY <1>6 DEF PickSelected, Goto, listVars, clientVars, globalVars
  <1>7. CASE ChangeWorkerRefused(w)
    BY <1>7 DEF ChangeWorkerRefused, Goto, listVars, clientVars, globalVars
  <1>8. CASE ChangeWorker(w)
    BY <1>8 DEF ChangeWorker, Goto, WorkerAddClient, globalVars, Lists,
       InHand, Busy, Leaving, ServingInv
  <1>9. CASE WakeMoved(w)
    BY <1>9 DEF WakeMoved, Goto, listVars, clientVars, globalVars,
       WorkerWakeup
  <1>10. CASE Unlink(w)
    <2>1. count' \in [Worker -> Nat]
      BY <1>10, UnlinkCounts
    <2> QED BY <1>10, <2>1 DEF Unlink, Goto, clientVars, globalVars
  <1>11. CASE EndPass(w)
    BY <1>11 DEF EndPass, Goto, listVars, clientVars, globalVars, Drained
  <1>12. CASE WaitOver(w)
    BY <1>12 DEF WaitOver, Goto, listVars, clientVars, globalVars
  <1>13. CASE AddPending(w)
    BY <1>13 DEF AddPending, Goto, clientVars, globalVars
  <1>14. CASE WorkerExit(w)
    BY <1>14 DEF WorkerExit, Goto, listVars, clientVars, globalVars
  <1>15. ASSUME NEW c \in Client, VisitSkip(w, c) PROVE TypeOK'
    BY <1>15 DEF VisitSkip, listVars, clientVars, globalVars
  <1>16. ASSUME NEW c \in Client, VisitProcess(w, c) PROVE TypeOK'
    BY <1>16 DEF VisitProcess, Goto, listVars, clientVars, globalVars
  <1> QED
    BY <1>1, <1>2, <1>3, <1>4, <1>5, <1>6, <1>7, <1>8, <1>9, <1>10, <1>11,
       <1>12, <1>13, <1>14, <1>15, <1>16 DEF WorkerStep

\* Every step keeps the types.
LEMMA TypeNext == IInv /\ [Next]_vars => TypeOK'
  <1> SUFFICES ASSUME IInv, [Next]_vars PROVE TypeOK'
    OBVIOUS
  <1>0. TypeOK /\ Lists /\ ServingInv /\ CountsMatch
    BY DEF IInv
  <1>1. ASSUME NEW w \in Worker, WorkerStep(w) PROVE TypeOK'
    BY <1>0, <1>1, TypeWorker
  <1> USE <1>0, DistinctAssumption DEF TypeOK, Worker, Thread, ThreadStates
  <1>2. ASSUME NEW c \in Client, AcceptClient(c) PROVE TypeOK'
    BY <1>2 DEF AcceptClient, workerVars, globalVars, WorkerAddClient
  <1>3. ASSUME NEW c \in Client, ClientAddWorker(c) PROVE TypeOK'
    BY <1>3 DEF ClientAddWorker, workerVars, globalVars, WorkerAddClient
  <1>4. ASSUME NEW c \in Client, AuthDone(c) PROVE TypeOK'
    BY <1>4 DEF AuthDone, workerVars, listVars, globalVars
  <1>5. ASSUME NEW t \in Client \cup {Accept, Slave}, Wake(t) PROVE TypeOK'
    BY <1>5 DEF Wake, workerVars, listVars, clientVars, globalVars,
       WorkerWakeup
  <1>6. ASSUME NEW w \in Normal, WorkerStart(w) PROVE TypeOK'
    BY <1>6 DEF WorkerStart, listVars, clientVars
  <1>7. CASE StopAccepting
    BY <1>7 DEF StopAccepting, workerVars, listVars, clientVars
  <1>8. CASE StartAccepting
    BY <1>8 DEF StartAccepting, workerVars, listVars, clientVars
  <1>9. CASE Balance
    BY <1>9 DEF Balance, workerVars, listVars, clientVars, LeastBusy
  <1>10. CASE IncomingStop
    BY <1>10 DEF IncomingStop, listVars, clientVars, StopHandler
  <1>11. CASE JoinAndFree
    BY <1>11 DEF JoinAndFree, listVars, clientVars
  <1>12. CASE Halt
    BY <1>12 DEF Halt, workerVars, listVars, clientVars
  <1>13. CASE WorkerStop
    <2>1. workers' \in Seq(Normal) /\ Head(workers) \in Normal
      BY <1>13, TailList DEF WorkerStop
    <2>2. leastUsed' \in Normal \cup {None}
      BY <1>13, TailList DEF WorkerStop
    <2>3. /\ running' \in [Worker -> BOOLEAN] /\ pipe' \in [Worker -> BOOLEAN]
          /\ victim' \in Worker \cup {None} /\ adj' = "join"
      BY <1>13, <2>1 DEF WorkerStop, StopHandler
    <2>4. UNCHANGED <<thread, wpc, scan, cur, dest, listVars, clientVars,
                      incoming, accepting, halting, readers, owed>>
      BY <1>13 DEF WorkerStop
    <2> QED BY <2>1, <2>2, <2>3, <2>4 DEF listVars, clientVars
  <1>14. CASE UNCHANGED vars
    BY <1>14 DEF vars
  <1> QED
    BY <1>1, <1>2, <1>3, <1>4, <1>5, <1>6, <1>7, <1>8, <1>9, <1>10, <1>11,
       <1>12, <1>13, <1>14 DEF Next, SlaveStep

-----------------------------------------------------------------------------
(* The theorems.                                                           *)

\* Before the first worker_start the inductive invariant holds.
LEMMA InitIInv == Init => IInv
  <1> SUFFICES ASSUME Init PROVE IInv
    OBVIOUS
  <1>1. TypeOK
    <2>1. workers \in Seq(Normal)
      BY DEF Init
    <2>2. /\ thread \in [Worker -> ThreadStates] /\ wpc \in [Worker -> PCs]
          /\ running \in [Worker -> BOOLEAN] /\ pipe \in [Worker -> BOOLEAN]
          /\ active \in [Client -> BOOLEAN]
      BY DEF Init, ThreadStates, PCs
    <2>3. owed \in [Thread -> Worker \cup {None}]
      BY DEF Init
    <2> QED BY <2>1, <2>2, <2>3 DEF Init, TypeOK
  <1>2. Lists
    BY DistinctAssumption DEF Init, Lists, InHand, ListedOwner, PendingOwner,
       ListedAndPending, KeepaliveUnowned, OwnerHolds, NewUnlisted, Busy,
       Leaving, Worker, Thread
  <1>3. ServingInv
    <2>1. Len(workers) = 0 /\ Incoming \in Worker
      BY DEF Init, Worker
    <2> QED BY <2>1 DEF Init, ServingInv, Distinct
  <1>4. CountsMatch
    BY FS_EmptySet DEF Init, CountsMatch
  <1>5. NothingToRelocate
    BY DEF Init, NothingToRelocate
  <1> QED BY <1>1, <1>2, <1>3, <1>4, <1>5 DEF IInv

\* IInv holds in every reachable state: it is inductive.
THEOREM Inductive == Spec => []IInv
  <1>1. IInv /\ [Next]_vars => IInv'
    BY TypeNext, ListsNext, ServingNext, CountsNext, RelocateNext DEF IInv
  <1> QED BY InitIInv, <1>1, PTL DEF Spec

\* For any number of workers and clients every variable keeps its type; in
\* particular no counter of a worker falls below zero.
THEOREM TypeCorrect == Spec => []TypeOK
  <1>1. IInv => TypeOK
    BY DEF IInv
  <1> QED BY <1>1, Inductive, PTL

\* The abort() in the worker loop is never reached: a listed client points
\* back at its worker unless that worker has it in hand.
THEOREM OwnerCorrect == Spec => []OwnerMatches
  <1>1. IInv => OwnerMatches
    BY DEF IInv, Lists, ListedOwner, OwnerMatches
  <1> QED BY <1>1, Inductive, PTL

\* No two workers hold one client, except while one of them is letting go.
THEOREM OwnerUnique == Spec => []OneOwner
  <1>1. IInv => OneOwner
    <2> SUFFICES ASSUME IInv, NEW v \in Worker, NEW w \in Worker,
                        NEW c \in Client, v # w,
                        c \in onlist[v] \cup pending[v],
                        c \in onlist[w] \cup pending[w]
                 PROVE  \/ cur[v] = c /\ wpc[v] \in {"wake", "unlink"}
                        \/ cur[w] = c /\ wpc[w] \in {"wake", "unlink"}
      BY DEF OneOwner
    <2>1. ListTypes /\ ListedOwner /\ PendingOwner /\ KeepaliveUnowned
      BY ListTypesHold DEF IInv, Lists
    <2> QED BY <2>1 DEF ListTypes, ListedOwner, PendingOwner,
               KeepaliveUnowned, Leaving
  <1> QED BY <1>1, Inductive, PTL

\* The counters are the lengths of the lists they stand for.
THEOREM CountsCorrect == Spec => []CountsMatch
  <1>1. IInv => CountsMatch
    BY DEF IInv
  <1> QED BY <1>1, Inductive, PTL

\* No client is left behind by a worker that ends.
THEOREM NoneLeftBehind == Spec => []NothingToRelocate
  <1>1. IInv => NothingToRelocate
    BY DEF IInv
  <1> QED BY <1>1, Inductive, PTL

-----------------------------------------------------------------------------
(* The workers that other threads are about to use.                        *)

\* A worker thread that was started is on the list of workers until it is the
\* one that worker_stop waits for.
Listed ==
  \A w \in Normal :
    thread[w] \in {"none", "freed"} \/ InList(w) \/ (adj = "join" /\ victim = w)

\* A thread that owes a wake-up, or is about to hand a client over, has a hold
\* on the worker: workers_lock, the connection thread that is joined first, or
\* the slave thread itself.
Targets ==
  /\ owed[Accept] # None => owed[Accept] = Incoming /\ accepting
  /\ owed[Slave] # None => adj = "run" /\ Serving(owed[Slave])
  /\ \A w \in Worker :
       /\ owed[w] # None <=> wpc[w] = "wake"
       /\ wpc[w] = "move" => w \in readers
       /\ w \in readers => /\ wpc[w] \in {"move", "wake"}
                           /\ dest[w] # None /\ Serving(dest[w])
       /\ wpc[w] = "wake" =>
            IF w \in readers THEN owed[w] = dest[w]
            ELSE owed[w] = Incoming /\ (w = Incoming \/ Serving(Incoming))

\* A worker with clients pending is woken up, or will be, unless it is about to
\* take them over.
Woken ==
  \A w \in Worker :
    wpc[w] # "drained" /\ pending[w] # {} =>
      pipe[w] \/ \E t \in Thread : owed[t] = w

\* The threads have names of their own.
LEMMA Names ==
  /\ None \notin Thread /\ Worker \subseteq Thread /\ Client \subseteq Thread
  /\ Accept \in Thread \ (Worker \cup Client)
  /\ Slave \in Thread \ (Worker \cup Client \cup {Accept})
  /\ Worker \cap Client = {} /\ Normal \subseteq Worker /\ Incoming \in Worker \ Normal
  BY DistinctAssumption DEF Thread, Worker

\* Every step keeps the started workers in sight of worker_stop.
LEMMA ListedNext == IInv /\ Listed /\ [Next]_vars => Listed'
  <1> SUFFICES ASSUME IInv, Listed, [Next]_vars PROVE Listed'
    OBVIOUS
  <1>0. /\ TypeOK /\ ServingInv /\ Normal \subseteq Worker /\ workers \in Seq(Normal)
        /\ Incoming \notin Normal
    BY Names DEF IInv, TypeOK
  <1>1. ASSUME NEW w \in Worker, WorkerStep(w) PROVE Listed'
    <2>1. /\ UNCHANGED <<workers, adj, victim>>
          /\ \A v \in Worker : thread'[v] \in {"none", "freed"} <=> thread[v] \in {"none", "freed"}
      BY <1>0, <1>1 DEF WorkerStep, WorkerBegin, VisitSkip, VisitProcess, Goto,
         ProcessStay, ProcessDone, KeepaliveTest, KeepaliveAdd, PickSelected,
         ChangeWorkerRefused, ChangeWorker, WakeMoved, Unlink, EndPass,
         WaitOver, AddPending, WorkerExit, globalVars, TypeOK, ServingInv
    <2> QED BY <1>0, <2>1 DEF Listed, InList
  <1>2. ASSUME NEW w \in Normal, WorkerStart(w) PROVE Listed'
    <2>1. /\ \A i \in 1..Len(workers) : \E j \in 1..Len(workers') : workers'[j] = workers[i]
          /\ \E j \in 1..Len(workers') : workers'[j] = w
      <3>1. workers' = <<w>> \o workers
        BY <1>2 DEF WorkerStart
      <3>2. /\ Len(workers') = Len(workers) + 1 /\ workers'[1] = w
            /\ Len(workers) \in Nat
            /\ \A i \in 1..Len(workers) : workers'[i + 1] = workers[i]
        BY <1>0, <3>1
      <3> QED BY <3>2
    <2>2. /\ adj = "run"
          /\ \A v \in Normal : v # w => thread'[v] = thread[v]
      BY <1>0, <1>2 DEF WorkerStart, TypeOK
    <2> QED BY <2>1, <2>2 DEF Listed, InList
  <1>3. CASE WorkerStop
    <2>1. /\ workers # <<>> /\ workers' = Tail(workers) /\ thread' = thread
          /\ adj = "run" /\ adj' = "join" /\ victim' = Head(workers)
      BY <1>3 DEF WorkerStop, StopHandler
    <2>2. /\ Len(workers) \in Nat \ {0} /\ Len(workers') = Len(workers) - 1
          /\ \A i \in 1..Len(workers') : workers'[i] = workers[i + 1]
          /\ Head(workers) = workers[1]
      BY <1>0, <2>1
    <2>3. \A i \in 1..Len(workers) : i = 1 \/ (i - 1 \in 1..Len(workers') /\ workers'[i - 1] = workers[i])
      BY <2>2
    <2> QED BY <2>1, <2>2, <2>3 DEF Listed, InList
  <1>4. CASE IncomingStop
    BY <1>0, <1>4 DEF IncomingStop, StopHandler, Listed, InList, ServingInv
  <1>5. CASE JoinAndFree
    BY <1>0, <1>5 DEF JoinAndFree, Listed, InList, TypeOK
  <1>6. ASSUME \/ \E c \in Client : AuthDone(c) \/ AcceptClient(c)
                                    \/ ClientAddWorker(c)
               \/ \E t \in Client \cup {Accept, Slave} : Wake(t)
               \/ StopAccepting \/ StartAccepting \/ Balance
               \/ Halt
               \/ UNCHANGED vars
        PROVE  UNCHANGED <<thread, workers, adj, victim>>
    BY <1>6 DEF AuthDone, AcceptClient, ClientAddWorker, Wake, StopAccepting,
       StartAccepting, Balance, Halt, vars, workerVars, globalVars
  <1> QED BY <1>1, <1>2, <1>3, <1>4, <1>5, <1>6 DEF Next, SlaveStep, Listed, InList

\* A worker thread keeps its hold on the worker it uses for as long as it does.
LEMMA TargetsWorker ==
  ASSUME IInv, Targets, NEW w \in Worker, WorkerStep(w)
  PROVE  Targets'
  <1>0. TypeOK /\ ServingInv
    BY DEF IInv
  <1> USE <1>0, Names DEF TypeOK, Serving
  <1>1. CASE WorkerBegin(w)
    <2>1. /\ thread[w] = "created" /\ thread' = [thread EXCEPT ![w] = "alive"]
          /\ running' = [running EXCEPT ![w] = TRUE]
          /\ wpc' = [wpc EXCEPT ![w] = "scan"]
          /\ UNCHANGED <<dest, accepting, adj, readers, owed>>
      BY <1>1 DEF WorkerBegin, Goto, globalVars
    <2>2. \A v \in Worker : Serving(v) => Serving(v)'
      BY <2>1
    <2>3. wpc[w] = "off"
      BY <2>1 DEF ServingInv
    <2>4. \A v \in Worker : wpc'[v] = IF v = w THEN "scan" ELSE wpc[v]
      BY <2>1
    <2> HIDE DEF Serving
    <2> QED BY <2>1, <2>2, <2>3, <2>4 DEF Targets
  <1>2. CASE PickSelected(w)
    <2>1. leastUsed \in Normal /\ Serving(leastUsed)
      BY <1>2 DEF PickSelected, ServingInv, InList
    <2> QED BY <1>2, <2>1 DEF PickSelected, Goto, globalVars, Targets
  <1>3. CASE KeepaliveAdd(w)
    BY <1>3 DEF KeepaliveAdd, Goto, globalVars, ServingInv, Targets
  <1>4. CASE ChangeWorkerRefused(w)
    BY <1>4 DEF ChangeWorkerRefused, Goto, globalVars, Targets
  <1>5. CASE ChangeWorker(w)
    BY <1>5 DEF ChangeWorker, Goto, globalVars, Targets
  <1>6. CASE WakeMoved(w)
    BY <1>6 DEF WakeMoved, WorkerWakeup, Goto, globalVars, Targets
  <1>7. CASE WorkerExit(w)
    <2>1. /\ wpc[w] = "exit" /\ thread' = [thread EXCEPT ![w] = "exited"]
          /\ wpc' = [wpc EXCEPT ![w] = "off"]
          /\ UNCHANGED <<running, dest, accepting, adj, readers, owed>>
      BY <1>7 DEF WorkerExit, Goto, globalVars
    <2>2. ~running[w] /\ thread[w] # "created"
      BY <2>1 DEF ServingInv
    <2>3. \A v \in Worker : Serving(v) => Serving(v)'
      <3>1. \A v \in Worker : v # w => thread'[v] = thread[v]
        BY <2>1
      <3>2. running' = running
        BY <2>1
      <3> QED
        BY ONLY <2>2, <3>1, <3>2 DEF Serving
    <2>4. \A v \in Worker : wpc'[v] = IF v = w THEN "off" ELSE wpc[v]
      BY <2>1
    <2> HIDE DEF Serving
    <2> QED BY <2>1, <2>3, <2>4 DEF Targets
  <1>8. CASE ~\/ WorkerBegin(w) \/ PickSelected(w) \/ KeepaliveAdd(w)
              \/ ChangeWorkerRefused(w) \/ ChangeWorker(w) \/ WakeMoved(w)
              \/ WorkerExit(w)
    <2>1. /\ UNCHANGED <<thread, running, dest, globalVars, readers, owed>>
          /\ wpc' = wpc \/ \E pc \in PCs \ {"move", "wake"} : wpc' = [wpc EXCEPT ![w] = pc]
          /\ wpc[w] \notin {"move", "wake"}
      BY <1>8 DEF WorkerStep, VisitSkip, VisitProcess, ProcessStay, ProcessDone,
         KeepaliveTest, Unlink, EndPass, WaitOver, AddPending, Goto, PCs
    <2> QED BY <2>1 DEF globalVars, Targets
  <1> QED BY <1>1, <1>2, <1>3, <1>4, <1>5, <1>6, <1>7, <1>8

\* Every step keeps the workers in use alive.
LEMMA TargetsNext == IInv /\ Listed /\ Targets /\ [Next]_vars => Targets'
  <1> SUFFICES ASSUME IInv, Listed, Targets, [Next]_vars PROVE Targets'
    OBVIOUS
  <1>0. TypeOK /\ ServingInv
    BY DEF IInv
  <1> USE <1>0, Names DEF TypeOK, Serving
  <1>1. ASSUME NEW w \in Worker, WorkerStep(w) PROVE Targets'
    BY <1>1, TargetsWorker
  <1>2. ASSUME NEW c \in Client, AcceptClient(c) PROVE Targets'
    BY <1>2 DEF AcceptClient, workerVars, globalVars, Targets
  <1>3. ASSUME NEW c \in Client, ClientAddWorker(c) PROVE Targets'
    <2>1. Serving(leastUsed)
      BY <1>3 DEF ClientAddWorker, ServingInv, InList
    <2> QED BY <1>3, <2>1 DEF ClientAddWorker, workerVars, globalVars, Targets
  <1>4. ASSUME NEW c \in Client, AuthDone(c) PROVE Targets'
    BY <1>4 DEF AuthDone, workerVars, globalVars, Targets
  <1>5. ASSUME NEW t \in Client \cup {Accept, Slave}, Wake(t) PROVE Targets'
    BY <1>5 DEF Wake, WorkerWakeup, workerVars, globalVars, Targets
  <1>6. ASSUME NEW w \in Normal, WorkerStart(w) PROVE Targets'
    <2>1. \A v \in Worker : Serving(v) => Serving(v)'
      BY <1>6 DEF WorkerStart
    <2>2. UNCHANGED <<wpc, dest, accepting, adj, readers, owed>>
      BY <1>6 DEF WorkerStart
    <2> QED BY <2>1, <2>2 DEF Targets
  <1>7. CASE StopAccepting \/ StartAccepting
    BY <1>7 DEF StopAccepting, StartAccepting, workerVars, Targets
  <1>8. CASE WorkerStop
    <2>1. /\ readers = {} /\ owed[Slave] = None /\ ~accepting
          /\ Head(workers) \in Normal
          /\ running' = [running EXCEPT ![Head(workers)] = FALSE]
          /\ UNCHANGED <<thread, wpc, dest, accepting, readers, owed>>
      BY <1>8, TailList DEF WorkerStop, StopHandler
    <2>2. Serving(Incoming) => Serving(Incoming)'
      BY <2>1
    <2> QED BY <2>1, <2>2 DEF Targets
  <1>9. CASE IncomingStop
    <2>1. /\ readers = {} /\ adj = "last" /\ ~accepting /\ workers = <<>>
          /\ UNCHANGED <<thread, wpc, dest, accepting, readers, owed>>
      BY <1>9 DEF IncomingStop, ServingInv
    <2>2. \A w \in Normal : thread[w] \in {"none", "freed"}
      BY <2>1 DEF Listed, InList
    <2>3. \A w \in Worker : wpc[w] = "wake" => w = Incoming
      BY <2>2 DEF ServingInv, Worker
    <2> QED BY <2>1, <2>3 DEF Targets
  <1>10. CASE JoinAndFree
    <2>1. /\ adj = "join" /\ thread[victim] = "exited" /\ victim \in Worker
          /\ thread' = [thread EXCEPT ![victim] = "freed"]
          /\ UNCHANGED <<running, wpc, dest, accepting, readers, owed>>
      BY <1>10 DEF JoinAndFree, ServingInv
    <2>2. \A v \in Worker : Serving(v) => Serving(v)'
      BY <2>1
    <2> QED BY <2>1, <2>2 DEF Targets
  <1>11. CASE Balance \/ Halt \/ UNCHANGED vars
    BY <1>11 DEF Balance, Halt, vars, workerVars, Targets
  <1> QED BY <1>1, <1>2, <1>3, <1>4, <1>5, <1>6, <1>7, <1>8, <1>9, <1>10, <1>11
          DEF Next, SlaveStep

\* Every step leaves a wake-up on its way to a worker with clients pending.
LEMMA WokenNext == IInv /\ Targets /\ Woken /\ [Next]_vars => Woken'
  <1> SUFFICES ASSUME IInv, Targets, Woken, [Next]_vars PROVE Woken'
    OBVIOUS
  <1>0. TypeOK /\ ServingInv /\ NothingToRelocate
    BY DEF IInv
  <1> USE <1>0, Names DEF TypeOK
  <1>1. ASSUME NEW t \in Thread, owed[t] # None, WorkerWakeup(t),
               UNCHANGED <<pending, thread>>,
               \A w \in Worker : wpc'[w] = "drained" <=> wpc[w] = "drained"
        PROVE  Woken'
    <2>1. owed[t] \in Worker
      BY <1>1
    <2>2. \A w \in Worker : pending[w] # {} => thread[w] # "freed"
      BY DEF NothingToRelocate
    <2>3. /\ pipe' = [pipe EXCEPT ![owed[t]] = @ \/ thread[owed[t]] # "freed"]
          /\ owed' = [owed EXCEPT ![t] = None]
      BY <1>1 DEF WorkerWakeup
    <2>4. \A w \in Worker : pipe[w] => pipe'[w]
      BY <2>1, <2>3
    <2>5. \A w \in Worker : owed[t] = w /\ thread[w] # "freed" => pipe'[w]
      BY <2>1, <2>3
    <2>6. \A s \in Thread, w \in Worker : owed[s] = w => owed'[s] = w \/ owed[t] = w
      BY <2>3
    <2>7. ASSUME NEW w \in Worker, wpc'[w] # "drained", pending'[w] # {}
          PROVE  pipe'[w] \/ \E s \in Thread : owed'[s] = w
      <3>1. pipe[w] \/ \E s \in Thread : owed[s] = w
        BY <1>1, <2>7 DEF Woken
      <3>2. thread[w] # "freed"
        BY <1>1, <2>2, <2>7
      <3> QED BY <2>4, <2>5, <2>6, <3>1, <3>2
    <2> QED BY <2>7 DEF Woken
  <1>2. ASSUME NEW t \in Thread, owed[t] = None, NEW v \in Worker, NEW c \in Client,
               WorkerAddClient(v, c), owed' = [owed EXCEPT ![t] = v],
               UNCHANGED pipe,
               \A w \in Worker : wpc'[w] = "drained" <=> wpc[w] = "drained"
        PROVE  Woken'
    <2>1. \A s \in Thread, w \in Worker : owed[s] = w => owed'[s] = w
      BY <1>2
    <2>2. owed'[t] = v
      BY <1>2
    <2>3. \A w \in Worker : w # v => pending'[w] = pending[w]
      BY <1>2 DEF WorkerAddClient
    <2> QED BY <1>2, <2>1, <2>2, <2>3 DEF Woken
  <1>3. ASSUME UNCHANGED <<pending, owed>>, \A w \in Worker : pipe[w] => pipe'[w],
               \A w \in Worker : wpc[w] = "drained" => wpc'[w] = "drained"
        PROVE  Woken'
    BY <1>3 DEF Woken
  <1>4. ASSUME NEW w \in Worker, WorkerStep(w) PROVE Woken'
    <2>1. CASE WakeMoved(w)
      <3>1. owed[w] # None
        BY <2>1 DEF WakeMoved, Targets
      <3> QED BY <1>1, <2>1, <3>1 DEF WakeMoved, Goto, listVars
    <2>2. CASE KeepaliveAdd(w)
      <3>1. owed[w] = None /\ cur[w] \in Client
        BY <2>2 DEF KeepaliveAdd, Targets, IInv, Lists, InHand, Busy
      <3> QED BY <1>2, <2>2, <3>1 DEF KeepaliveAdd, Goto
    <2>3. CASE ChangeWorker(w)
      <3>1. owed[w] = None /\ cur[w] \in Client /\ dest[w] \in Worker
        BY <2>3 DEF ChangeWorker, Targets, IInv, Lists, InHand, Busy, ServingInv
      <3> QED BY <1>2, <2>3, <3>1 DEF ChangeWorker, Goto
    <2>4. CASE WaitOver(w)
      <3>1. /\ \A v \in Worker : v # w => pipe'[v] = pipe[v] /\ wpc'[v] = wpc[v]
            /\ wpc'[w] = "drained" /\ UNCHANGED <<pending, owed>>
        BY <2>4 DEF WaitOver, Goto, listVars
      <3> QED BY <3>1 DEF Woken
    <2>5. CASE AddPending(w)
      <3>1. /\ \A v \in Worker : v # w => pending'[v] = pending[v] /\ wpc'[v] = wpc[v]
            /\ pending'[w] = {} /\ UNCHANGED <<pipe, owed>>
        BY <2>5 DEF AddPending, Goto
      <3> QED BY <3>1 DEF Woken
    <2>6. CASE ~\/ WakeMoved(w) \/ KeepaliveAdd(w) \/ ChangeWorker(w)
                \/ WaitOver(w) \/ AddPending(w)
      <3>1. /\ UNCHANGED <<pending, owed, pipe>>
            /\ wpc' = wpc \/ \E pc \in PCs : wpc' = [wpc EXCEPT ![w] = pc]
            /\ wpc[w] # "drained"
        BY <1>4, <2>6 DEF WorkerStep, WorkerBegin, VisitSkip, VisitProcess, Goto,
           ProcessStay, ProcessDone, KeepaliveTest, PickSelected,
           ChangeWorkerRefused, Unlink, EndPass, WorkerExit, listVars, PCs,
           ServingInv
      <3> QED BY <1>3, <3>1
    <2> QED BY <2>1, <2>2, <2>3, <2>4, <2>5, <2>6
  <1>5. ASSUME NEW c \in Client, AcceptClient(c) PROVE Woken'
    BY <1>2, <1>5 DEF AcceptClient, workerVars
  <1>6. ASSUME NEW c \in Client, ClientAddWorker(c) PROVE Woken'
    BY <1>2, <1>6 DEF ClientAddWorker, workerVars
  <1>7. ASSUME NEW t \in Client \cup {Accept, Slave}, Wake(t) PROVE Woken'
    BY <1>1, <1>7 DEF Wake, workerVars, listVars
  <1>8. ASSUME NEW c \in Client, AuthDone(c) PROVE Woken'
    <2>1. /\ UNCHANGED <<pending, pipe, wpc>> /\ owed[c] = None
          /\ \A s \in Thread \ {c} : owed'[s] = owed[s]
      BY <1>8 DEF AuthDone, workerVars, listVars
    <2>2. \A s \in Thread, w \in Worker : owed[s] = w => owed'[s] = w
      BY <2>1
    <2>3. ASSUME NEW w \in Worker, wpc'[w] # "drained", pending'[w] # {}
          PROVE  pipe'[w] \/ \E s \in Thread : owed'[s] = w
      <3>1. pipe[w] \/ \E s \in Thread : owed[s] = w
        BY <2>1, <2>3 DEF Woken
      <3>2. (\E s \in Thread : owed[s] = w) => \E s \in Thread : owed'[s] = w
        BY <2>2
      <3>3. pipe'[w] = pipe[w]
        BY <2>1
      <3> QED BY <3>1, <3>2, <3>3
    <2> QED BY <2>3 DEF Woken
  <1>9. CASE WorkerStop
    <2>1. Head(workers) \in Worker
      BY <1>9, TailList DEF WorkerStop
    <2> QED BY <1>3, <1>9, <2>1 DEF WorkerStop, StopHandler, listVars
  <1>10. CASE IncomingStop
    BY <1>3, <1>10 DEF IncomingStop, StopHandler, listVars
  <1>11. ASSUME \/ \E w \in Normal : WorkerStart(w)
                \/ StopAccepting \/ StartAccepting \/ Balance \/ JoinAndFree
                \/ Halt \/ UNCHANGED vars
         PROVE  UNCHANGED <<pending, owed, pipe, wpc>>
    BY <1>11 DEF WorkerStart, StopAccepting, StartAccepting, Balance,
       JoinAndFree, Halt, vars, workerVars, listVars
  <1> QED BY <1>3, <1>4, <1>5, <1>6, <1>7, <1>8, <1>9, <1>10, <1>11
          DEF Next, SlaveStep

\* What the theorems below rest on.
LEMMA UseInductive == Spec => [](IInv /\ Listed /\ Targets /\ Woken)
  <1>1. Init => Listed /\ Targets /\ Woken
    <2>1. ASSUME Init PROVE Targets
      BY <2>1, Names DEF Init, Targets
    <2>2. ASSUME Init PROVE Listed /\ Woken
      BY <2>2, Names DEF Init, Listed, Woken
    <2> QED BY <2>1, <2>2
  <1> QED BY <1>1, Inductive, ListedNext, TargetsNext, WokenNext, PTL DEF Spec

\* The threads that follow the locking rules never touch a worker_t that
\* worker_stop has freed: not the connection thread, the slave thread or a
\* worker that moves a client, in whatever order they run.
THEOREM TargetsAlive == Spec => []TargetAlive
  <1>1. ASSUME IInv, Targets PROVE TargetAlive
    <2>1. ServingInv /\ TypeOK
      BY <1>1 DEF IInv
    <2> QED BY <1>1, <2>1, Names DEF Targets, TargetAlive, Serving, ServingInv
  <1> QED BY <1>1, UseInductive, PTL

\* worker_add_client and worker_wakeup against worker_wait and
\* worker_add_pending_clients: a worker does not sleep on clients that were
\* handed to it with no byte on its way.
THEOREM WakeupsKept == Spec => []NoLostWakeup
  <1>1. Woken => NoLostWakeup
    BY DEF Woken, NoLostWakeup
  <1> QED BY <1>1, UseInductive, PTL
=============================================================================
