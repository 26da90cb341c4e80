# A verification of icecast-kh in TLA+

icecast-kh is a streaming server. A source client sends a stream to a mount;
the server keeps the last part of it in a queue and sends it to the listeners
of the mount. All clients are processed by a few worker threads; a slave thread
manages workers and relays, a connection thread accepts clients, and
authentication threads wait for back ends. This directory models the parts of
`src/` whose correctness depends on the order in which those threads run, or on
bookkeeping that goes wrong only after a long sequence of legal steps. TLC
checks them on small instances, and TLAPS proves the invariants of the core and
of nine components around it for every value of the constants.

## Inventory

| Part | State | Operations | Interacts with | Hard part |
|---|---|---|---|---|
| Worker threads (`client.c`) | per worker: client list, pending list, counters, wake-up pipe, `running`; globals `workers`, `worker_incoming`, `worker_least_used` | process a pass, add, move, keep alive, unlink, start, balance, stop | every client type through `ops->process`, the slave and connection threads | hand-over between threads, stop while clients arrive, freed workers |
| Source life cycle (`source.c`) | flags, `listeners`, `clients`, `termination_count`, `fallback.mount`, the client it belongs to | start, hijack, read, shut down, synchronise listeners, move, override, release | workers, admin requests, fserve, auth | listeners on other threads while the source ends |
| Stream queue (`source.c`, `refbuf.c`) | list of blocks, `stream_data`, `min_queue_point`, byte counters, `shrink_pos`; per listener `refbuf`, `pos`, `queue_pos` | append, move start point, prune, shrink; join, advance, requeue, leave | format plugins (make blocks, write bytes) | listeners hold no reference on their block |
| Authentication (`auth.c`) | queue of `auth_client`, handles, `refcount`, `pending_count`, `auth_lock` | queue, start thread, take, process, finish; replace configuration; shut down | workers (clients put aside), configuration | threads that start and end with the queue |
| Authentication back ends (`auth_url.c`, `auth_htpasswd.c`, `auth_cmd.c`) | user tables, curl handles, child processes, back-off time | authenticate, add, remove | auth threads | data of one client kept for the next, a file changed while it is read |
| Relays, master/slave (`slave.c`) | tree of relays, details of each, `in_use` host, flags, redirectors | start, read, reset, expire, update from configuration and master | source, workers, configuration | restart with paused listeners, removal while starting |
| File serving (`fserve.c`) | cache of file handles, their reference counts and clients | open, add, remove, move, override, scan | source (fallback), workers | override while clients send, leave and move |
| Statistics (`stats.c`) | tree of sources and values, event queues of stats clients | set, event, register, send, expire | all | snapshot against events, entries freed in use |
| Directory (`yp.c`) | servers, active and pending entries, state of each | add, touch, remove, recheck | sources, configuration | changes queued while the thread works on the lists |
| Configuration (`cfgfile.c`, `event.c`) | current configuration, its lock | get, release, grab, set, clear | all | every return path has to release the lock |
| Connections (`connection.c`) | listening sockets, ban list, request state | accept, read headers, dispatch | workers, source, admin | sockets that outlive their configuration, stop and restart of the thread |
| Administration (`admin.c`) | none | commands on sources and on the server | source, slave, stats | uses of another thread's structures |
| Formats (`format*.c`, `mpeg.c`, `flv.c`) | parser state, metadata blocks, header pages | make blocks, write to a client | queue | partial writes, metadata across blocks, headers of chained streams |
| Stylesheets (`xslt.c`) | cache of parsed sheets, update threads | look up, load, apply | admin and stats pages | replaced while they are applied |
| Logs (`log/log.c`, `logging.c`) | lines, last line written, file | add, write, trim, reopen, close | all | lock given up for each write |
| Helpers (`avl`, `httpp`, `net`, `thread`, `util.c`) | trees, parsed headers, sockets, locks, rates | | all | |

The hazards behind the properties are listed in `PROJECT.json`, each at its
line; those that no property covers are at the end of this file.

## Modules

Each component has a module. The core components (`Workers`, `SourceLife`,
`AuthQueue`, `StreamQueue`) have an `MC` module with the small sets TLC uses and a
`Proofs` module each. The others are checked in four groups (see Runs); of
these `Stylesheets` has a `Proofs` module as well, `ServerProofs` is about `FileServe`,
`Redirectors` and `Connections`, `ServicesProofs` about `Relay`, `PasswordFile` and `Logs`,
`ClientsProofs` about `BanList` and `ListenerAuth`, and `SourceProofs`, the one of
`SourceLife`, is about `Directory` too. One step of a module is one critical section of the code, or the code between two of
them; so every point at which another thread can run is a point between two
steps, and a lock needs no variable of its own unless it is held over several
steps. Operators named "mutant of X" are deliberately wrong versions of X; they
are used to show that a property would notice the mistake, and by nothing else.

Where the code does something that breaks a property in a known way, the module
records that it happened in a history variable and the property is stated for
the other behaviours. Each such exception is named below; they are hazards, and
what the properties say is that there are no others.

### Workers

`thread`, `running`, `onlist`, `pending`, `count`, `pcount` and `pipe` are the fields
of `worker_t`; `wpc`, `scan`, `cur` and `dest` are the locals of the thread function
`worker`; `cworker`, `active` and `cstate` are the client's. A list is a set, so the
order of a pass is open. `ops->process` is reduced to its effect on the loop: the
client stays (and may have been handed to an authentication thread), is moved,
is kept alive, or is done. `WorkerBegin` … `WorkerExit` are the thread function,
`AcceptClient`, `ClientAddWorker` and `AuthDone` the other threads that hand over
clients, `WorkerStart`, `Balance`, `WorkerStop`, `IncomingStop` and `JoinAndFree` the
slave thread. `Spec` has the callers that follow the locking rule (destination
chosen and used under `workers_lock`); `SpecUnlocked` adds the two that do not,
`listener_change_worker`, which has the lock when it uses its choice (`LockPicked`), and
`admin_mount_request`, which never has it. A worker structure is used
once, as `worker_start` allocates a new one each time.

### SourceLife

One `source_t`. `src` holds its flags, `listeners`, `termination_count` and fallback,
`clients` its tree; `sop` is the `ops` of a source client and `spc` the place where it
has given up the lock; `lpc` is the `ops` of a listener or the place where it waits
for the write lock (`toError`, `toMove`, `toLeave`, `toWait`), is inside `move_listener`
without any lock on the source (`moving`), or is about to be released. Time is two
flags: a second went by since `timer_start` (`timer`) and since the synchronisation
began (`syncAge`). `Spec` leaves out hijacking, which breaks `FreedUnattached`; `SpecHijack` puts it
back. `SyncGrace` excuses the synchronisation that `moveclients` set off (`moved`): it
leaves `timer_start` as it is, which may be long ago, so that `source_read` may give up at
once. For every other start of one, and whatever happens in between, the second is
kept. The code's branch for a positive result of `move_listener` cannot be
reached and has no action. The pause of listeners and on-demand sources are in
`Relay`.

### StreamQueue

`src.blocks` is the history of all blocks, of which `first..Last` are on the queue, so
that a property can tell where a listener really is; the stream position `at` of a
block is such a history field and no action's guard reads a position the code does
not have: byte counts are always differences between two blocks of the queue,
which is what the code's loops add up. `lst` has the fields of a listener. A visit
is `send_listener` with its `check_buffer`; how many bytes the socket takes is open,
as are `counter` and `norequeue` that decide on a requeue. Content that a listener is
sent from memory of its own (headers, intro, a copied block) is one step. A visit
that is throttled changes nothing and is a stuttering step.

### AuthQueue and AuthService

`AuthQueue` is one `auth_t`, its queue, handles and threads, and the life of clients
from new to gone as the authentication code sees it. A client that waits is not
`CLIENT_ACTIVE` and its worker leaves it alone. What a back end answers is open.
`auth_shutdown` is two steps, as it waits for `auth_lock`; a thread that was created
and has not yet taken the lock is not waited for and finds it destroyed, which the
model shows as a `ThreadBegin` after `DestroyAuthLock` and no property forbids. When
no thread can be created for a start or end event the code answers a copy of the
client that has no worker; that crash is not followed.

`AuthService` is the abstract specification: a client is handed over with a
request, given back once with an answer to that request, and the authenticator is
released only when the configuration has dropped it and nobody waits; every
client that waits is answered in the end. `ServiceKept` is the refinement: `AuthService` instantiated with the state
of `AuthQueue` (who waits, what for, the configuration, the memory), as a property
of the run `auth`, fairness included; its safety part is proved
(`ServiceImplemented`).

### FileServe

`fserve.c`: the cache of file handles (`fh`, `cache`), their open files (`fds`), counts and
trees of clients, and the place of every client (`at`, and `old` while it is moved).
Finding and joining a handle is one step, as the lock of the handle is taken while
`fh_cache` is held; releases and moves are two. Requests for files and for prepared
responses, fallbacks, overrides by a returning source, moves to a source or to
another file, the timeout scan, a reload and the shutdown are actions.
`HandlesOwned`: counts are right, no client is on a freed handle, each open file has
one owner, a lookup is not ambiguous and a client is in the tree of its handle.
Excused: a client whose `move_listener` failed stays in the tree it was in (`lost`),
and the shutdown frees what is left after its two seconds (`torn`).

### Connections

`connection.c` with the reload of `event.c` and the loop of the slave thread: `lst` are the
counted `listener_t`s, `cfg` and `old` the lists that refer to them, `sock`/`conn` the two
arrays of the accepting thread (`thr`), `ctl` the slave thread, `cl` the clients. `PortsKept`: a
`listener_t` in use is not freed, a client has the settings of the port it came to,
the client limit holds, and a thread that is told to stop hears it. Excused: the
positions after a socket error, which compacts one array only (`failed`, one error at most
in a behaviour); a stop before the thread has set `connection_running` (`early`). The count
that the reload takes down without the lock is read in one step and written in the next.

### Redirectors

`slave.c`, the table of slaves that listeners are sent to. Walks of clients take entries out
under the read side of the lock (`slave.c:298-305`), so the load of `checking->next`, the
store to `*trail`, the load of `redirect_count` and its store are steps of their own that
mix with those of other walks; the rest holds the write lock. `RedirectorsKept`: the count
is never below what the list and the walks under way have and is exactly that, configured
servers stay, each server is there once, the number of slaves is bounded, and a client is
redirected if there is an entry. Excused: a count that is too high because one walk's
store overwrote another's, which lasts until the next reload (`overcounted`: a selection
can then run past the list, and a slave be refused its place); walks under which an entry
was dropped; the master's own entry, which expires; and a registration between the two
halves of a reload. A behaviour ends where an entry that was freed is used (`freed`): two
walks take out one entry, or two next to each other so that one is linked again.
TLC reaches both excuses and this end; the code prevents none of them.

### BanList

`connection.c` and the cached files of `util.c`: the tree of addresses, the patterns, the
file and its times. `tree` is `NoTree` while there is no tree. What an answer is compared
with is kept apart from the tree and no step that takes an entry out touches it: the lines
the list was last read with (`loaded`), the end of the timed bans given to each address,
extended as visits extend them (`ends`), and the number of its clients that go with a ban
(`holders`, `<ban-client>` below 0). `BansExact`: an address is refused exactly while one of
the three says so, no lookup throws out a ban that holds, and a change of the file is seen
in time.

Excused, because the code does it: an address that was in the tree twice (`twice`), where
the entry found may be the one that has ended and the one that a leaving client takes out
may be the file's (`connection.c:724`); a ban that runs while the list is read again or
cleared, or that is given while there is no tree, which the list does not have (`forgot`,
`util.c:1085`, `connection.c:716`); for the file, a change within the second of the last
one noticed, a file that cannot be opened when its change is noticed (`util.c:1076`) and one
that is gone. If a lookup comes between a reload and the file being named, the list stays
empty for up to a period. A behaviour ends where a noted entry is used after it was freed
(`reused`). `banned_ip.contents` is tested before the lock is taken (`connection.c:709`, `:721`)
and used after; the model takes both in one step, and so leaves out that a reload clears
the list between them.

### OggStream

`format_ogg.c`, `format_vorbis.c`, `format_theora.c`: the codecs of a group of streams, the
chain of header pages (at an address, as that is how a listener knows it), blocks
that refer to chains, a Vorbis stream that is taken apart and built again with new
titles, and a listener that joins, sends, is stopped in the middle of a chain and is
moved. `HeadersFirst`: before a page of a stream the listener has all its headers,
first pages stand before other header pages, and the chain that is being sent has
not been freed. Excused: another chain at the address that the listener remembers
(`reused`) and streams with a header page that the code keeps nowhere (`dropped`). A page
of Theora holds as many header packets as `PageHeaders` has it; the run takes both that
follow the first on one page.

### Relay

`slave.c`: the relay clients of one mountpoint (`ops`, `det`), the counted details (`rs`), the tree
they are in, the source, the listeners paused over a restart, `global.sources` and
`relays_connecting`. A `process` call is two steps (details under the lock of the tree, the
rest under that of the source); the relay thread is a step per host. `RelaysAccounted`:
both counters agree with what runs, details in use are not freed, those in the tree
have a client, and one relay at most runs the source. Requests in states in which the
code would follow a NULL pointer are left out (`admin.c:643`).

### Directory

`yp.c`: servers (active and pending), entries with their state and time, the queue of
changes and the two threads. A pass holds the lock for reading and is a step per
entry; times are relative to now. `DirectoryTrue`: a change of the lists is flagged for
the thread, it wakes in time for the earliest entry, entries of mounts that are no
longer public are released and those of public mounts are kept, and after the
shutdown nothing is used. Excused: a removal that meets a pending entry (`missed`), an
addition that finds one being released (`swallowed`); a behaviour ends where the client
is put on two workers (`twice`).

### Logs

`log/log.c`, `logging.c`: the lines, the last one written, the file and its state; a log thread
and a closing thread with a stack of nested calls. `LogKept`: lines go out once, in
order and without loss, and neither the line being written nor the tail of the list
is freed under a thread. Excused: two threads that run one log at once (`overlap`), a
log closed because its file cannot be opened (`noOpen`).

### PasswordFile

`auth_htpasswd.c`: the file, the temporary file, and for each authenticator the tree of users
with the time it is believed to match; the server may stop between any two steps.
`UsersKept`: the users of an unchanged file are those of the tree, the users that were not
deleted are in the file or in the copy wherever a deletion fails or stops, and a deleted
user does not come back. Excused: two contents with one modification time; calls through
two authenticators of the same file that crossed (`crossed`), which have a lock each; and two
ways in which the code loses users for good or keeps them (`cut`, `lost`). Nobody looks at the
results of the writes (`auth_htpasswd.c:302`, `:373-381`): any line may be missing from the
copy that then replaces the file, and an addition may be answered as done that is not in
it. And a deletion compares names up to the first colon (`:362`), where the reader takes
them up to the last (`:154`): with `a` goes `a:b`, and `a:b` cannot be deleted (`Stem`,
`TakenAlong`, `Plain`). A line that is written in part, and a file that is read while it is
appended to, are left out.

### ListenerAuth

`auth_url.c`, `auth_cmd.c`: the requests for listeners, source clients and stream events as a
thread processes them, with the headers and body that come back and the data the
thread keeps from one client to the next. `AnswersOwn`: a client is answered once, is
let in by the header of its own answer (or `presume_innocent`), is never sent to the
location of another, its intro is owned once, and a back-off stays set for its time
(`BackoffKept`; requests for listeners that come and go look at it, those for source
clients and stream events never do). Excused: a location that a command left behind, a
thread that clears a newer back-off.

The comment at `auth_cmd.c:21-22` says that a return code of 0 "indicates a valid user,
authentication failure if otherwise". The code does not do that, and neither does
`CmdEnds`: the exit code is not compared with 0, a listener with the header is let in
whatever it is (`auth_cmd.c:362`), one without is refused after a 0, and a command that was
killed after it wrote the header has its listener let in as well (`auth_cmd.c:356` returns
AUTH_FAILED, and `auth.c:532` looks at the flag). `LetInByAnswer` is about the header. A body
that comes back for `stream_auth` with `withintro` is left out: `auth_url.c:296` keeps it by
fields that only `url_add_listener` sets up.

### IcyListener, IcyFilter

`format_mp3.c`, `mpeg.c`, in two halves. `IcyListener`: titles at addresses, the blocks that refer
to them, and a listener with metadata after every interval or as iceblocks, whose
writes stop after any byte; the receiver's own parser is the reference. `IcyFilter`: a
source stream whose inline metadata is taken out and whose frames are cut at block
ends; the reference is the stream of audio bytes itself. `MetadataFramed` joins
`SentFramed` (metadata is where the receiver expects it, alive and the current title,
and the position counts stream data only) and `ReadFramed` (no audio byte is lost,
doubled or taken for metadata; blocks hold whole frames). Excused: a block taken away
half way by a restart (`cut`), a write that stopped in an iceblock header, after which the
position is not followed until the listener joins again (`unplaced`), a title at the address
of the one sent last (`reused`), and a take-over in mid interval, a tag larger than a block,
or a block with more after its frames than the parser puts up with, of which the rest is
dropped (`DropRest`; all three `shifted`).

### Rates, Avl

Algorithms against a reference definition. `Rates` (`util.c`, `rate_calc`): the ring of
samples with threads that give the lock up to allocate; `RatesExact` compares its total
with the samples of the window. A thread whose clock lags is excused (`back`). `Avl`
(`avl/avl.c`): insertion, deletion, lookup by key and by index; `TreeSound` says that the tree
is balanced, holds exactly the keys put in, finds them, and that ranks are exact until
a key that is not there is deleted.

### Stats, Stylesheets

`Stats` (`stats.c`): the entries of mounts and their locks, a value that is followed, a
counter reported at intervals, and a stats client with its snapshot and queue; once it has
an error it is sent nothing, and its queue is not followed to its release.
`StatsFaithful`: no freed entry is used, the lengths of the queue are right, and when the
queue is empty the client has been told what the tree holds. `Stylesheets` (`xslt.c`): slots,
requests, update threads and files that change. `SheetsCurrent`: a sheet that is applied is
not freed, one that is stale is found out at its next check, each file is cached once,
and the count of update threads is right. A file changed twice in a second is excused.

## Runs

Passing runs:

| Run | Instance | Shows |
|---|---|---|
| `workers` | 2 workers + incoming, 1 client | `OwnerMatches`, `CountsMatch`, `NoLostWakeup`, `OneOwner`, `NothingToRelocate`, `TargetAlive` |
| `workers_live` | 1 worker + incoming, 1 client, fairness | `PendingAdopted`, `StoppedWorkerExits` |
| `source` | 2 listeners, 2 source clients, fairness | `ListenersMatch`, `FreedUnattached`, `SourcesCounted`, `SyncGrace`, `MountReleased` |
| `auth` | 3 clients, 2 handles, 2 worker threads, fairness | `QueueServed`, `AuthAlive`, `ClientsAccounted`, `ClientAnswered`, `AuthFreed`, `ServiceKept` |
| `queue` | 1 listener, 5 blocks of 1 or 2 bytes, fairness | `QueueAccounted`, `PositionsAgree`, `SendsFromQueue`, `NoTrap`, `MinimumKept`, `BehindLetGo` |
| `stats` | 1 mount with 2 entries, 1 stats client; 6 nodes over 4 keys; 3 sheets in 2 slots, 3 requests; 3 Ogg streams | `StatsFaithful`, `TreeSound`, `SheetsCurrent`, `HeadersFirst` |
| `server` | 2 clients, 2 handles, 3 `listener_t` on 2 ports, 3 redirectors with 2 walks | `HandlesOwned`, `PortsKept`, `RedirectorsKept` |
| `services` | 2 relay clients, 2 details; 1 directory server and mount; 3 lines of a log; 2 users, one with a colon, 2 authenticators, 2 threads | `RelaysAccounted`, `DirectoryTrue`, `LogKept`, `UsersKept` |
| `clients` | 2 clients and 2 threads of a back end; 3 metadata blocks, 24 bytes of audio; 2 threads that add samples; 2 addresses, bans of 1 s and of one client | `AnswersOwn`, `MetadataFramed`, `RatesExact`, `BansExact` |

The last four runs check several components each. These share no variable and do
not act on each other at the level of their modules, so that running them side by
side would only multiply their states: the variable `part` says which one a
behaviour is about, `MCInit` starts that one and `MCNext` has its actions alone, and a
property is that of the component it names. The component that is also proved
about is extended by the group's module, so that what TLC checks and what the
theorem says are one definition; it stays in an initial state in behaviours that
are about others, which have no state in behaviours that are not about them. A property such as `HandlesOwned` is the
conjunction of the type invariant of its module and of its named parts
(`RefsMatch`, `HandleAlive`, …), each with its own comment there. Every run has its
actions listed one by one, so that each of them is seen to happen. Symmetry is used
for clients, threads and users, which are interchangeable in every action and never
chosen by `CHOOSE`; no run with liveness uses it.

Bounds. Workers and clients run through their lives once, so the sets are the
only bounds of `Workers`, `SourceLife` and `AuthQueue`. Two workers and the incoming
one are enough for a move, a stop of the destination and a hand-over in every
order; a second client meets the first in the lists and counters only, and what
is said of those is proved for any number. Two listeners let one wait or move
while the other fails or leaves in the same synchronisation. Three clients make
a queue that is longer than its two threads; with `MaxPending` 0 the limit is
reached at once. In `StreamQueue` blocks have one or two bytes, so that a listener
can be inside a block, at its end and between blocks. Listeners meet in `shrink_pos`
alone, and one listener can give it every value that two can. The tuning constants
of the code (8000 bytes of slack, 48 blocks per call, every 32 buffers) are scaled
down to sizes at which pruning, its limit per call and the shrinking all happen
within `MaxBlocks` blocks.

In the other modules there are two of everything that can race (clients, relay
clients, threads, walks, authenticators) and one structure more than can be in use
at once (entries, addresses of blocks), or as many where no property tells a fresh
structure from one used again (handles, details), so that freed memory is reused. Counters of reloads, updates, edits, lines, titles and streams
(`MaxReloads`, `MaxUpdates`, `MaxEdits`, `MaxLines`, `MaxTags`, `MaxStreams` and so on; `MaxInputs`
bounds streams, pages, titles and moves of `OggStream` together) stop the
environment, not the program; each lets the event happen again after the system
has begun to react to the first. Clocks (`EndTime`, `LastTime`, `MaxSecond`, `Final`) go past the
longest timeout at least once. Six nodes of `Avl`, with repeated keys,
let insertions and deletions set off single and double rotations on either side.

All runs have deadlock checking off: clients go and are not replaced, and bounded
environments stop, so every behaviour comes to an end.

Runs that show a disagreement between the code and what it says; each is a finding
in `PROJECT.json` with the line it contradicts:

| Run | Property | What happens |
|---|---|---|
| `workers_shutdown` | `ShutdownCompletes` | `worker_stop` before the thread's first line: `running` is set again and `thread_join` never returns |
| `workers_released` | `NoReleasedWorkerUsed` | `admin_mount_request` hands a client to the worker of the source, which takes it, lets go of both clients, is stopped, joined and freed; then it is woken up (2 workers + incoming, 2 clients) |
| `source_hijack` | `FreedUnattached` | the failed response to a hijacker frees a source with listeners |

## Fairness

* `Workers`: threads are scheduled, `poll` in `worker_wait` has a timeout of at most
  60 seconds, authentication ends with an answer or a timeout (weak fairness).
  Strong fairness is assumed only after the server halts, where a worker that is
  told to stop processes all active clients and their `process` functions return -1
  after finitely many calls, and for `worker_stop`, which waits for a lock that
  readers hold for a moment.
* `SourceLife`: workers process their clients again and again. A listener is looked
  at every 150 ms at the latest, several times per second, so it does not miss the
  terminating flag for ever although the source client clears and sets it once
  a second (strong fairness).
* `StreamQueue`: a worker visits its listeners again and again, and they leave once
  the source has ended.
* `AuthQueue`: authentication threads run, back ends answer or time out, the slave
  thread goes on to clear the old configuration. Nothing is assumed of clients.

The other modules state safety only.

## Proofs

Each `Proofs` module defines an inductive invariant, `IInv` or one for each of its
components, a conjunction of named parts, shows that it holds initially and is kept by
each action, and derives the properties from it. Each was checked by TLC first, on the instance of the
component's run. The assumptions are those of the modules (`Settings` where they
are gathered under one name), evaluated by TLC in every run of the module: finite
sets of clients, listeners, handles or addresses, distinct constants, blocks that
are not empty, settings that are natural numbers.

* `WorkersProofs`: `TypeOK`, `OwnerMatches`, `OneOwner`, `CountsMatch`,
  `NothingToRelocate`, `TargetAlive`, `NoLostWakeup`. `Lists` says where a client can
  be and what that means for `client->worker`: a client on a list belongs to the
  worker unless the worker has it in hand and is letting go; a client that is
  listed and pending with the same worker came back before it was unlinked.
  `ServingInv` says which workers can be given clients: those on the list and the
  incoming one run or are about to. That is needed for `NothingToRelocate`, as a
  worker past its exit test may be given no client. `Targets` adds what keeps a
  destination from being freed between its choice and the wake-up, which differs
  with the thread: `workers_lock` held for reading, the connection thread that is
  joined first, or being the slave thread oneself. `Woken` then says that pending
  clients have a byte in the pipe or a thread that owes it.
* `SourceProofs`, of `SourceLife`: `TypeOK`, `ListenersMatch`, `FreedUnattached`, `SourcesCounted`,
  `SyncGrace`, for `Spec`, that is without hijacking. The structure has one
  source client (`OneSourceClient`); the listeners in the tree are those at a place
  that uses it (`ClientsAttached`); `timer_start` is never older than the
  synchronisation (`TimerFresh`), but for one that `MoveClients` set off.
* `SourceProofs`, of `Directory`: `DirectoryTrue`, for `Directory!Spec`; the run
  `services` takes its steps in the part "directory". The inductive invariant is
  `DirectoryInv`. The changes still to be applied, those a thread took (`list`) before
  those queued since (`changes`), are related to what each mount is. While the server
  runs, an addition of a mount that is not public any more has a removal behind it and
  the other way round (`Asked`), and a mount whose last change is no longer among them
  has, or has not, an entry to stay on every server (`Reflected`). A pass starts with
  the largest `ypclient.counter` and lowers it entry by entry: every entry before the
  place it has come to has a time no earlier than the counter (`Timed`, `Visited`), a
  released one excepted, so between two passes all have. `Flagged` is the rest of what
  waits for the update, with what a reload asked for. `Only`, which filters a list by
  the places it keeps, has its elements from `Ascending`: a finite set of numbers has an
  order.
* `AuthQueueProofs`: `TypeOK`, `QueueServed`, `AuthAlive`, `ClientsAccounted`, and the
  refinement. The core is `RefsCounted`: one reference per thread and one for the
  configuration; so the limit on `refcount` in `queue_auth_client` is one on threads,
  and a busy queue has a thread. `HeldOnce` says where a client that was put aside
  is: at one position of the queue or with one thread, never at both.
  `ListenersAdmitted` bounds the queue: it counts a listener as soon as it passed
  the test of `pending_count`, as that test is made without the lock.
  `ServiceImplemented` shows that the initial states of `AuthQueue` are initial states
  of `AuthService` under the mapping and that each step is a step of `AuthService` or
  changes nothing of what it sees. A step that takes, finishes or adds a job
  changes what one client is asked for and leaves it alone for all others
  (`AskedTaken`, `AskedDone`, `AskedQueued`), which rests on `HeldOnce`.
* `StreamQueueProofs`: `TypeOK`, `QueueAccounted`, `PositionsAgree`, `SendsFromQueue`,
  `NoTrap`, and the action property `MinimumKept`. Blocks follow each other and end
  where the source client is (`InOrder`); each listener is at the place its
  position says (`Placed`). The lag test is right because of both: a pruned block
  ends at or before the head of the queue, so its reader lags by more than
  `queue_size`, or by just that with `pos` not 0. For `MinimumKept` the blocks have no
  gap (`Chained`) and the limit is never below the minimum (`SizesOrdered`).
* `StylesheetsProofs`: `SheetsCurrent`. A slot keeps its sheet for as long as a request
  is at it (`AtSlot`); no time that a sheet is known by is later than that of its
  file, nor that than the clock (`TimesOrdered`), so that the time of a change is a
  new one.
* `ServerProofs`: `HandlesOwned` of `FileServe`, and `RedirectorsKept` and `PortsKept` of the
  specification the run `server` checks.
  - Files: a reference count cannot be followed on its own: that it comes down once for
    each time it went up rests on who points to what (`Kept`, `Known`): a client that
    points to a handle is in its tree, or the handle has none and this is its only
    client. `Sound` says what a structure is while it is live, free or cut off from the
    cache.
  - Redirectors (`RedirectInv`): a walk that has met no dropped entry has its selection
    ahead of it or has sent the client on (`Selected`), as it was drawn from the count
    and the count was the length of the list. That holds because what is due, the entries
    listed and those taken out and not counted yet, only comes down while walks are
    inside: what a walk loaded of the count is no less than it (`CountsDue`), so that a
    lost count-down leaves the count too high and never too low. An entry a walk is about
    to take out is still there, unless the behaviour has ended (`Unlinking`). Hosts differ (`HostsDiffer`), since between
    the halves of a reload the list is empty unless a slave came in; this takes that the
    configuration names a host once. A configured host has an entry without an end until
    somebody sets one (`Configured`).
  - Connections (`PortInv`): each structure is used (`Used`) by at most as many as its count
    says (`Counted`), where users are counted over clients, two lists, the configuration and
    the reload itself. What makes the unlocked count-down sound is `Phases`: the accepting
    thread was joined before, so only releases come between the read and the write and
    what was read is at worst too high. While nobody but users holds the last reference
    the port of a structure stays, hence `Ports`, through sockets that are closed and the
    ones that keep their old structure. The counting lemmas (`InConcat`, `InSplit`,
    `InPlaces`, `OnMoves`) say how many places of a sequence hold a structure.
* `ClientsProofs`: `BansExact` of `BanList`, and `AnswersOwn` of the specification the run
  `clients` checks.
  - Bans (`BanInv`): an address that was never in the tree twice and of which the list lost
    no ban has no entry and nothing that bans it, or one entry and one reason: the file, one
    client, or a timed ban with just the end of the entry (`Agrees`, `Matches`). So the entry
    that a leaving client or a lookup takes out is the one it is meant to take. Reading the
    file again makes the tree agree for all addresses without a running ban (`ListPruned`).
    That a lookup of one address throws out no entry of another that holds compares two
    intervals of the code: the next look at the file is at most `Period` ahead
    (`Clocks`), and an entry is thrown out `Hold` before it.
  - Authentication of listeners (`AuthInv`): a thread has the client of its request, which
    no other has (`Alone`) and which was not answered before it let go of it (`Has`). What
    threads keep between requests is no harm: buffers are collected for one add request
    (`Collects`), a location is that of the request at hand (`Placed`) or was left by a
    command, whose thread does not reset it. A client nobody has asked about has no
    intro (`Fresh`), and after the answer the flag and the buffers agree (`Settled`). A
    back-off that is set ends `stop_req_duration` after the last failure (`Backs`), so one
    that a thread clears early is not the one it read.
* `ServicesProofs`, of the specification the run `services` checks: `RelaysAccounted`,
  `UsersKept`, `LogKept`.
  - Relays: details are replaced behind the back of the client that uses them.
    `Linked` says why that is sound: only details with a source and without an end are
    replaced, the new ones have no client and no successor, so that a chain has one
    link; `Leaving`, that what is to be released is not in the tree any more.
    `Sourced` gives the source to one client, and `Counted` ties the two global
    counters to the clients that are connected or in the relay thread.
  - The password file (`PasswordInv`): every time an authenticator notes is one that the
    file had, with the users it had then, unless two contents share a time. One thread
    at most holds the lock of an authenticator, so the tree it has, or is about to be
    given, is that of the time it notes. Until a deletion removes the file it has all users
    whose lines were written; from then on the copy has them but for those it was found
    to lack (`Deletions`).
  - Logs (`LogInv`): the list is the last of the lines that were logged, in their order
    (`Consecutive`), so what a purge takes off is told by its length. The run there is
    has come to the line after the last one written (`RunsFit`, `HeldOpen`); when no line
    is noted as written, nothing was purged, but for a log closed with an empty list.
    `LockHeld` says which thread may be between two steps of a run.

Only model-checked, and why:

* Liveness (`PendingAdopted`, `StoppedWorkerExits`, `MountReleased`, `ClientAnswered`,
  `AuthFreed`, `BehindLetGo`) and the fairness part of `ServiceKept`: out of the prover's
  reach.
* `TreeSound`: `Avl` climbs the tree by a recursive definition; what such a definition
  returns for every tree needs induction over data. A least element is all that was
  needed of induction elsewhere (the first slot, the next host, a set of places in
  order); it comes from `<` being well founded on the natural numbers.
* `RatesExact`, `MetadataFramed`, `HeadersFirst`: sums and joins over sequences that a fold
  computes; how a fold over a longer sequence relates to that over the shorter one is
  again induction over data.
* `StatsFaithful`: the queue of events is replayed as a whole against the tree, by the same
  kind of definition.
* Properties of the specifications with the callers that break the rules
  (`SpecUnlocked`, `SpecHijack`): those runs end in counterexamples. The theorems about
  `Workers` and `SourceLife` are about `Spec`, which leaves these callers out.

## Hazards no property covers

Things in this code that can go wrong, and that no property states because the code
does just that, or because the modules leave the detail out.

Workers, sources and the queue:

* `client.c:150`: a connection that is kept alive is handed to `worker_incoming`, tested
  under `global_lock` and NULL by then. `client.c:309`: a thread that worked for a client
  wakes `client->worker` after it set `CLIENT_ACTIVE`; that worker may have let go of the
  client and been freed. Both are behaviours of `Workers`; `Crashed` marks the first.
* `client.c:614`: while clients keep arriving, a pass walks only those just taken over
  and the clients on the list of the worker wait.
* `source.c:1340`: the lock of a source is given up for `move_listener`, when the
  listener is counted no longer; the source may have been freed when it is taken again.
* `source.c:769`: `source_client_read` reads `shared_data` before it has the lock, and a
  hijacker may have replaced the client.
* `source.c:588`: `source->wakeup` is reset before every worker has seen it; the listener is
  processed at its schedule time.
* `source.c:1228`: a listener that leaves looks at the flags of a block that may have been
  pruned, without the lag test. `source.c:711`: a listener that is not processed for the
  600 ms granted to it loses its place.
* `admin.c:519`: `moveclients` starts a synchronisation without setting `timer_start`, so the
  source may be shut down at once (`MoveClients`; excused by `SyncGrace`).

Authentication:

* `auth.c:996`: `auth_lock` is destroyed with a created thread about to take it.
  `auth.c:181`: no thread for a stream event, and a copy of the client without worker is
  answered. `auth.c:670`: a return without `config_release_config`.
* `auth_htpasswd.c:362`: deleting `a` deletes `a:b` as well; `auth_htpasswd.c:373`: a copy cut
  short by a full disk replaces the file (both excused by `UsersKept`).
  `auth_htpasswd.c:401`: USERDELETED is answered also when the file was not replaced;
  `auth_htpasswd.c:173`: callers that do not test for a table that was never read.
* `auth_cmd.c:362`: a location set for a client that was let in goes to the next refused;
  the exit code of the command, which `auth_cmd.c:21` says decides, decides nothing.
  `auth_url.c:306`: buffers of a `stream_auth` answer are kept in fields that were not set up.

Relays, files, connections:

* `slave.c:1422`: `relay->flags` is changed without the lock of the tree; `slave.c:1496`: a
  signed count compared with an unsigned one; `slave.c:1562`: a source cleared while paused
  listeners keep a position; `admin.c:643`: a lock of `relay->source`, which may be NULL.
* `fserve.c:757`: `fh->format` is used without the lock; `fserve.c:611`: `global.listeners` drifts
  when an override clears `FS_FALLBACK` while the client is there.
* `connection.c:1498`: a stop that comes before the thread sets `connection_running` is lost.
  `connection.c:1830`: `client_limit` is read through a configuration already released.
  `connection.c:775`, `util.c:1112`: noted entries and patterns used after they were freed.
* `connection.c:724`: a client whose ban ends with it takes out whichever entry of its address
  is met, the file's too; `util.c:1085`: bans that run are lost when the file is read again
  (both excused by `BansExact`). `connection.c:709`, `connection.c:721`: the list is tested
  before the lock is taken and may be cleared by then.

Statistics, directory, logs, pages, formats:

* `stats.c:1019`: a hidden mount is left out of a snapshot and has no NEW event later;
  `stats.c:1021`: a walk of an entry without its lock; `source.c:2612`: `stats_release` after a
  failed `stats_lock`.
* `yp.c:270`: `ypclient` handed to a worker again while it has one, which aborts;
  `yp.c:637`: entries behind the first 20 are never looked at; `yp.c:558`: an entry without a
  sid is touched, not added.
* `log/log.c:498`: lines dropped when a file cannot be opened at a close; `log/log.c:505`: a FILE
  closed while another thread prints to it.
* `xslt.c:471`: the name of a slot read after the lock is given up; `xslt.c:219`: locks
  destroyed while an update thread has to count itself off.
* `format_mp3.c:740`, `format_mp3.c:581`: the position after a write that stopped in a header, a title
  taken for the one sent last by its address. `format_vorbis.c:534`: a comment packet
  kept nowhere; `format_vorbis.c:431`: `vorbis_set_tag` stays the handler for another codec;
  `format_kate.c:209`: no parent set. `refbuf.c:112`: `refbuf_copy_default` copies the chain of
  associated blocks twice over.

## Not modelled

* The HTTP parser, XML documents, the configuration file, EBML and FLV and the byte
  layouts of formats: sequential conversions by one thread with no shared state; a
  model would repeat the code.
* MD5 and fnmatch are third-party algorithms, the Windows front end, web assets and
  the build are outside the scope.
* Sockets, name resolution and the thread wrappers are the open outcomes of sends and
  reads and the atomicity of steps. Start-up order and privileges are not modelled; a
  signal is the `Halt` action of the modules.
* Weak memory: a read or write outside a lock takes the latest value.

## Left to do

Of the code, the lock of the configuration over every return path, and the composition
of `Relay` with `SourceLife`, are not there yet.
