----------------------------- MODULE FileServe -----------------------------
(***************************************************************************)
(* File serving (fserve.c): the cache of file handles, their reference     *)
(* counts, the clients that are sent a file or a prepared response, the    *)
(* override of a fallback file when its source returns, and the timeout of *)
(* unused handles.                                                         *)
(*                                                                         *)
(* A step is what one thread does under the lock of a handle (taken while  *)
(* fh_cache is still held, so finding and joining a handle is one step).   *)
(* The release and the move of a client are two steps each, as the code    *)
(* takes the locks of two objects one after the other.  Times are left     *)
(* open: a handle with an expiry time may be found expired by any scan.    *)
(***************************************************************************)
EXTENDS Integers, FiniteSets

CONSTANTS
    Client,     \* clients that come to fserve, each of them once
    Mount,      \* files that can be asked for
    Handle,     \* memory for fh_node structures; a bound on the live ones
    NoFile,     \* the static handle of prepared responses
    None

VARIABLES
    fh,         \* fh_node structures
    cache,      \* handles in fh_cache
    fds,        \* open file descriptors
    at,         \* client->shared_data
    old,        \* handle that fserve_move_listener has still to leave
    pc,         \* which routine client->ops names, or where the client is
    auth,       \* clients with CLIENT_AUTHENTICATED
    err,        \* clients with connection.error
    listeners,  \* global.listeners
    running,    \* fserve_running
    torn,       \* fh_cache has been freed by fserve_shutdown
    lost        \* clients whose move failed after they were on a new handle

fvars == <<fh, cache, fds>>
cvars == <<at, old, pc, auth, err, lost>>
vars == <<fh, cache, fds, at, old, pc, auth, err, listeners, running, torn, lost>>

AllHandles == Handle \cup {NoFile}

(* what is asked of the constants; a run evaluates it *)
Settings ==
    /\ IsFiniteSet(Client) /\ IsFiniteSet(Handle) /\ Mount # {}
    /\ None \notin AllHandles \cup Mount
    /\ NoFile \notin Handle

Places == {"out", "source", "buffer", "file", "leaving", "gone"}

(***************************************************************************)
(* fh_node.  fb and del are FS_FALLBACK and FS_DELETE; never is an expire  *)
(* of -1; moved tells that fallback names a destination; tree is FALSE for *)
(* the handle of an error response, which has no tree of clients.          *)
(***************************************************************************)
Node(m, fb, fd) ==
    [st |-> "live", m |-> m, fb |-> fb, del |-> FALSE, refs |-> 0, on |-> {},
     never |-> fb, moved |-> FALSE, fd |-> fd, tree |-> TRUE]

(* memory that is not, or no longer, an fh_node *)
Freed == [Node(None, FALSE, None) EXCEPT !.st = "free"]

TypeOK ==
    /\ fh \in [AllHandles -> [st : {"live", "free"}, m : Mount \cup {None},
                              fb : BOOLEAN, del : BOOLEAN,
                              refs : 0 .. Cardinality(Client) + 1, on : SUBSET Client,
                              never : BOOLEAN, moved : BOOLEAN,
                              fd : Handle \cup {None}, tree : BOOLEAN]]
    /\ cache \subseteq AllHandles
    /\ fds \subseteq Handle
    /\ at \in [Client -> AllHandles \cup {None}]
    /\ old \in [Client -> Handle \cup {None}]
    /\ pc \in [Client -> Places]
    /\ auth \subseteq Client /\ err \subseteq Client /\ lost \subseteq Client
    /\ listeners \in Int
    /\ running \in BOOLEAN /\ torn \in BOOLEAN

(* fserve_initialize *)
Init ==
    /\ fh = [h \in AllHandles |->
                IF h = NoFile
                THEN [Node(None, FALSE, None) EXCEPT !.refs = 1, !.never = TRUE]
                ELSE Freed]
    /\ cache = {NoFile}
    /\ fds = {}
    /\ at = [c \in Client |-> None]
    /\ old = [c \in Client |-> None]
    /\ pc = [c \in Client |-> "out"]
    /\ auth = {} /\ err = {} /\ lost = {}
    /\ listeners = 0
    /\ running = TRUE /\ torn = FALSE

(***************************************************************************)
(* Handles                                                                 *)
(***************************************************************************)

(* memory that a new structure can be given: nobody points to it *)
FreeSlots == {h \in Handle : /\ fh[h].st # "live"
                             /\ \A c \in Client : at[c] # h /\ old[c] # h}
Slots == IF FreeSlots = {} THEN {} ELSE {CHOOSE h \in FreeSlots : TRUE}

(* the descriptor that open returns *)
Descriptor == CHOOSE d \in Handle : d \notin fds

(* find_fh: the tree is ordered by mount and flags *)
Found(m, fb) == {h \in cache : fh[h].m = m /\ fh[h].fb = fb}

(* open_fh on a file that is not in the cache yet, with its descriptor *)
Opened(h, m, fb) ==
    /\ Found(m, fb) = {}
    /\ fh' = [fh EXCEPT ![h] = Node(m, fb, Descriptor)]
    /\ fds' = fds \cup {Descriptor}
    /\ cache' = cache \cup {h}

(* fh_add_client: the handle of an error response has its one reference *)
Joined(node, c) ==
    IF node.tree THEN [node EXCEPT !.on = @ \cup {c}, !.refs = @ + 1] ELSE node

(* mutant of Left: an overridden handle goes with the first client to leave *)
LeftDeletesEarly(node, c) ==
    LET n == [node EXCEPT !.refs = @ - 1, !.on = @ \ {c}] IN
    IF n.m # None /\ n.del THEN Freed ELSE n

(* the end of remove_from_fh: a handle that was overridden is deleted with *)
(* its last client, an ordinary file expires later, a fallback file stays  *)
Left(node, c) ==
    LET n == [node EXCEPT !.refs = @ - 1, !.on = @ \ {c}] IN
    IF n.refs # 0 \/ n.m = None \/ n.fb THEN n
    ELSE IF n.del THEN Freed ELSE [n EXCEPT !.never = FALSE]

(* remove_from_fh, with the file_close of _delete_fh *)
RemoveFromFh(h, c) ==
    /\ fh' = [fh EXCEPT ![h] = Left(@, c)]
    /\ fds' = IF fh'[h].st = "free" THEN fds \ {fh[h].fd} ELSE fds
    /\ cache' = cache

(***************************************************************************)
(* fserve_setup_client_fb: client c is put on a handle for file m, which   *)
(* is found or opened; rest says what becomes of the client's other state  *)
(***************************************************************************)
JoinFile(c, m, fb) ==
    \/ \E h \in Found(m, fb) :
          /\ fh' = [fh EXCEPT ![h] = Joined(@, c)]
          /\ at' = [at EXCEPT ![c] = h]
          /\ UNCHANGED <<cache, fds>>
    \/ \E h \in Slots :
          /\ Found(m, fb) = {}
          /\ fh' = [fh EXCEPT ![h] = Joined(Node(m, fb, Descriptor), c)]
          /\ cache' = cache \cup {h}
          /\ fds' = fds \cup {Descriptor}
          /\ at' = [at EXCEPT ![c] = h]

(* fserve_setup_client: a prepared response.  The answer to a client that  *)
(* was authenticated for a mount has a handle of its own, deleted after it *)
JoinResponse(c, own) ==
    /\ IF own
       THEN \E h \in Slots :
              /\ fh' = [fh EXCEPT ![h] = [Node(CHOOSE m \in Mount : TRUE, FALSE, None) EXCEPT
                                             !.del = TRUE, !.refs = 1, !.tree = FALSE]]
              /\ at' = [at EXCEPT ![c] = h]
       ELSE /\ fh' = [fh EXCEPT ![NoFile] = Joined(@, c)]
            /\ at' = [at EXCEPT ![c] = NoFile]
    /\ UNCHANGED <<cache, fds>>

(***************************************************************************)
(* Clients come                                                            *)
(***************************************************************************)

(* fserve_client_create for a file that can be read; the listener was let  *)
(* in by authentication.  The answer is a refusal when limits are exceeded *)
(* or the file cannot be opened.                                           *)
RequestFile(c, m) ==
    /\ running /\ ~torn /\ pc[c] = "out"
    /\ pc' = [pc EXCEPT ![c] = "buffer"]
    /\ auth' = auth \cup {c}
    /\ JoinFile(c, m, FALSE) \/ (\E own \in BOOLEAN : JoinResponse(c, own))
    /\ UNCHANGED <<old, err, listeners, running, torn, lost>>

(* a request that is refused before authentication, a generated playlist,  *)
(* an answer of the administration interface                               *)
RequestResponse(c) ==
    /\ running /\ ~torn /\ pc[c] = "out"
    /\ pc' = [pc EXCEPT ![c] = "buffer"]
    /\ JoinResponse(c, FALSE)
    /\ UNCHANGED <<old, auth, err, listeners, running, torn, lost>>

(* a listener that joined a source, where it was counted                   *)
JoinSource(c) ==
    /\ running /\ ~torn /\ pc[c] = "out"
    /\ pc' = [pc EXCEPT ![c] = "source"]
    /\ auth' = auth \cup {c}
    /\ listeners' = listeners + 1
    /\ UNCHANGED <<fvars, at, old, err, running, torn, lost>>

(* source_add_listener with a source that is not there: the listener is    *)
(* put on the fallback file and is not counted                             *)
JoinFallback(c, m) ==
    /\ running /\ ~torn /\ pc[c] = "out"
    /\ pc' = [pc EXCEPT ![c] = "buffer"]
    /\ auth' = auth \cup {c}
    /\ JoinFile(c, m, TRUE)
    /\ UNCHANGED <<old, err, listeners, running, torn, lost>>

(* move_listener from a source that ended, to its fallback file            *)
FallBack(c, m) ==
    /\ running /\ ~torn /\ pc[c] = "source"
    /\ pc' = [pc EXCEPT ![c] = "buffer"]
    /\ JoinFile(c, m, TRUE)
    /\ UNCHANGED <<old, auth, err, listeners, running, torn, lost>>

(* source_listener_release *)
LeaveSource(c) ==
    /\ ~torn /\ pc[c] = "source"
    /\ pc' = [pc EXCEPT ![c] = "gone"]
    /\ auth' = auth \ {c}
    /\ listeners' = listeners - 1
    /\ UNCHANGED <<fvars, at, old, err, running, torn, lost>>

(***************************************************************************)
(* Clients are served                                                      *)
(***************************************************************************)

(* prefile_send after the prepared blocks are sent, file_send,             *)
(* throttled_file_send: the process routine returns -1 and the worker      *)
(* releases the client                                                     *)
Ends(c) ==
    \/ ~running
    \/ c \in err
    \/ pc[c] = "buffer" /\ c \notin auth
    \/ fh[at[c]].fd = None     \* nothing to read, or the read fails

(* file_release, first part: the listener of a fallback file is taken off  *)
(* the global count; the flags are read without the lock of the handle     *)
ReleaseCount(c) ==
    /\ ~torn /\ pc[c] \in {"buffer", "file"} /\ old[c] = None
    /\ Ends(c)
    /\ listeners' = IF fh[at[c]].fb /\ c \in auth THEN listeners - 1 ELSE listeners
    /\ pc' = [pc EXCEPT ![c] = "leaving"]
    /\ UNCHANGED <<fvars, at, old, auth, err, running, torn, lost>>

(* file_release, second part *)
ReleaseHandle(c) ==
    /\ ~torn /\ pc[c] = "leaving"
    /\ RemoveFromFh(at[c], c)
    /\ at' = [at EXCEPT ![c] = None]
    /\ auth' = auth \ {c} /\ err' = err \ {c}
    /\ pc' = [pc EXCEPT ![c] = "gone"]
    /\ UNCHANGED <<old, listeners, running, torn, lost>>

(* prefile_send: on to the file *)
StartFile(c) ==
    /\ running /\ ~torn /\ pc[c] = "buffer" /\ c \in auth \ err /\ old[c] = None
    /\ ~fh[at[c]].moved /\ fh[at[c]].fd # None
    /\ pc' = [pc EXCEPT ![c] = "file"]
    /\ UNCHANGED <<fvars, at, old, auth, err, listeners, running, torn, lost>>

(* the end of an ordinary file, a write error; and fserve_kill_client,     *)
(* which finds the client in the tree of a handle in the cache             *)
ConnectionError(c) ==
    /\ ~torn /\ pc[c] \in {"buffer", "file"} /\ c \notin err
    /\ err' = err \cup {c}
    /\ UNCHANGED <<fvars, at, old, pc, auth, listeners, running, torn, lost>>

(***************************************************************************)
(* fserve_move_listener on a handle that was overridden.  move_listener    *)
(* puts the listener on the source, on a file (with the flags of the old   *)
(* handle, which are no longer those of a fallback), or on an error        *)
(* response; the old handle is left after that.                            *)
(***************************************************************************)
Moving(c) ==
    /\ running /\ ~torn /\ pc[c] \in {"buffer", "file"} /\ old[c] = None
    /\ c \in auth \ err
    /\ fh[at[c]].moved

MoveToSource(c) ==
    /\ Moving(c)
    /\ at' = [at EXCEPT ![c] = None]
    /\ old' = [old EXCEPT ![c] = at[c]]
    /\ pc' = [pc EXCEPT ![c] = "source"]
    /\ UNCHANGED <<fvars, auth, err, listeners, running, torn, lost>>

MoveToFile(c, m) ==
    /\ Moving(c)
    /\ JoinFile(c, m, FALSE) \/ JoinResponse(c, TRUE)
    /\ old' = [old EXCEPT ![c] = at[c]]
    /\ pc' = [pc EXCEPT ![c] = "buffer"]
    /\ UNCHANGED <<auth, err, listeners, running, torn, lost>>

(* the end of fserve_move_listener *)
LeaveOld(c) ==
    /\ ~torn /\ old[c] # None
    /\ RemoveFromFh(old[c], c)
    /\ old' = [old EXCEPT ![c] = None]
    /\ UNCHANGED <<at, pc, auth, err, listeners, running, torn, lost>>

(* the process routine of the new handle, called by                        *)
(* fserve_setup_client_fb, returns -1: fserve_move_listener takes that for *)
(* a move that failed and does not leave the old handle                    *)
MoveFails(c) ==
    /\ ~torn /\ old[c] # None /\ pc[c] = "buffer"
    /\ ~running \/ c \in err \/ fh[at[c]].fd = None
    /\ old' = [old EXCEPT ![c] = None]
    /\ pc' = [pc EXCEPT ![c] = "leaving"]
    /\ lost' = lost \cup {c}
    /\ UNCHANGED <<fvars, at, auth, err, listeners, running, torn>>

(***************************************************************************)
(* Other threads                                                           *)
(***************************************************************************)

(* fserve_query_count: the fallback file is opened, with no client on it   *)
QueryCount(m) ==
    /\ running /\ ~torn
    /\ \/ \E h \in Slots : Opened(h, m, TRUE)
       \/ /\ \E h \in Found(m, TRUE) : fh' = [fh EXCEPT ![h].never = TRUE]
          /\ UNCHANGED <<cache, fds>>
    /\ UNCHANGED <<cvars, listeners, running, torn>>

(* fserve_set_override: the clients stay on the old structure, which names *)
(* where they should go; a copy takes its place, its file and its format   *)
SetOverride(m) ==
    /\ running /\ ~torn
    /\ \E h \in Found(m, TRUE), n \in Slots :
          /\ fh[h].refs > 0
          /\ fh' = [fh EXCEPT ![n] = Node(m, TRUE, fh[h].fd),
                              ![h].del = TRUE, ![h].fb = FALSE, ![h].fd = None,
                              ![h].moved = TRUE]
          /\ cache' = (cache \ {h}) \cup {n}
    /\ UNCHANGED <<fds, cvars, listeners, running, torn>>

(* fserve_scan, one handle: an unused handle whose time has come           *)
Scan(h) ==
    /\ running /\ ~torn
    /\ h \in cache /\ fh[h].refs = 0 /\ ~fh[h].never
    /\ cache' = cache \ {h}
    /\ fh' = [fh EXCEPT ![h] = Freed]
    /\ fds' = fds \ {fh[h].fd}
    /\ UNCHANGED <<cvars, listeners, running, torn>>

(* fserve_scan with a time of 0, after a change of configuration: all      *)
(* handles may expire                                                      *)
Reload ==
    /\ running /\ ~torn
    /\ fh' = [h \in AllHandles |-> IF h \in cache THEN [fh[h] EXCEPT !.never = FALSE] ELSE fh[h]]
    /\ UNCHANGED <<cache, fds, cvars, listeners, running, torn>>

(* fserve_shutdown *)
Shutdown ==
    /\ running
    /\ running' = FALSE
    /\ cache' = cache \ {NoFile}
    /\ UNCHANGED <<fh, fds, cvars, listeners, torn>>

(* its loop, while two handles or more are left: an unused handle is taken *)
(* out of the tree, and not deleted                                        *)
ShutdownUnused(h) ==
    /\ ~running /\ ~torn
    /\ Cardinality(cache) > 1
    /\ h \in cache /\ fh[h].refs = 0
    /\ cache' = cache \ {h}
    /\ UNCHANGED <<fh, fds, cvars, listeners, running, torn>>

(* avl_tree_free, when one handle is left or after 20 waits *)
ShutdownFree ==
    /\ ~running /\ ~torn
    /\ torn' = TRUE
    /\ fh' = [h \in AllHandles |-> IF h \in cache THEN Freed ELSE fh[h]]
    /\ fds' = fds \ {fh[h].fd : h \in cache}
    /\ cache' = {}
    /\ UNCHANGED <<cvars, listeners, running>>

Next ==
    \/ \E c \in Client :
          \/ \E m \in Mount : RequestFile(c, m)
          \/ RequestResponse(c)
          \/ JoinSource(c)
          \/ \E m \in Mount : JoinFallback(c, m) \/ FallBack(c, m)
          \/ LeaveSource(c)
          \/ ReleaseCount(c) \/ ReleaseHandle(c) \/ StartFile(c)
          \/ ConnectionError(c)
          \/ MoveToSource(c)
          \/ \E m \in Mount : MoveToFile(c, m)
          \/ LeaveOld(c)
          \/ MoveFails(c)
    \/ \E m \in Mount : QueryCount(m) \/ SetOverride(m)
    \/ \E h \in AllHandles : Scan(h) \/ ShutdownUnused(h)
    \/ Reload
    \/ Shutdown
    \/ ShutdownFree

Spec == Init /\ [][Next]_vars

(***************************************************************************)
(* Properties                                                              *)
(***************************************************************************)

(* The reference count of a handle agrees with its tree of clients, what   *)
(* fh_add_client and remove_from_fh log an error about: the static handle  *)
(* and that of an error response hold one reference more.                  *)
RefsMatch ==
    \A h \in AllHandles : fh[h].st = "live" =>
        fh[h].refs = Cardinality(fh[h].on)
                     + (IF h = NoFile \/ ~fh[h].tree THEN 1 ELSE 0)

(* No client is left on a handle that was freed, by the timeout of         *)
(* fserve_scan or by the last client of an overridden handle, and none has *)
(* one still to leave; fserve_shutdown alone frees the cache regardless.   *)
HandleAlive ==
    \A c \in Client : \A h \in {at[c], old[c]} \ {None} :
        fh[h].st = "live" \/ torn

(* Each open file belongs to exactly one handle, through the copy that     *)
(* fserve_set_override makes: it is closed once and it is not leaked.      *)
FilesOwned ==
    /\ \A d \in fds : Cardinality({h \in Handle : fh[h].fd = d}) = 1
    /\ \A h \in Handle : fh[h].fd \in fds \cup {None}

(* A lookup in fh_cache is not ambiguous and never returns a freed handle. *)
CacheSound ==
    \A h \in cache :
        /\ fh[h].st = "live" /\ ~fh[h].del
        /\ \A k \in cache \ {h} : <<fh[h].m, fh[h].fb>> # <<fh[k].m, fh[k].fb>>

(* A client is in the tree of the handle it is on, and of the one it is    *)
(* moving from; it stays behind in another tree only by a move that failed *)
(* after the client was on its new handle.                                 *)
ClientsFound ==
    \A h \in AllHandles : \A c \in fh[h].on :
        at[c] = h \/ old[c] = h \/ c \in lost

(* File handles and their clients agree through requests, overrides, moves and timeouts: the   *)
(* counts are right, no client is on a freed handle, each open file has one owner, a lookup is *)
(* not ambiguous and a client is in the tree of its handle.                                    *)
HandlesOwned == 
    /\ TypeOK
    /\ RefsMatch
    /\ HandleAlive
    /\ FilesOwned
    /\ CacheSound
    /\ ClientsFound
=============================================================================
