---------------------------- MODULE PasswordFile ----------------------------
(***************************************************************************)
(* The htpasswd authenticator (auth_htpasswd.c): the file of users, the    *)
(* temporary file a deletion writes, and for every auth_t that names the   *)
(* file the tree of users it has cached with the modification time that    *)
(* the tree is believed to match.  Two mounts, or the authenticators of    *)
(* two configurations, may name one file; the lock is the authenticator's  *)
(* and not the file's.  A user stands for its line, name and hash; a write *)
(* that fails, which no caller looks at, loses whole lines.  The reader    *)
(* takes a name up to the last colon of a line and a deletion up to the    *)
(* first, so that names with a colon are taken for others.                 *)
(***************************************************************************)
EXTENDS Naturals, FiniteSets

CONSTANTS
    User,       \* the user names
    Stem,       \* Stem[u]: what of u stands before its first colon
    Auth,       \* the auth_t objects that name the file
    Thread,     \* the authentication and admin threads
    None,       \* no thread, no user
    MaxSecond,  \* the bound of the clock
    MaxCalls    \* the bound of the calls, which the model counts

VARIABLES
    file,       \* the password file: there, its users, its mtime
    tmp,        \* the ".tmp" file: there and its users
    users,      \* users[a]: the cached tree, or None before it is created
    mtime,      \* mtime[a]: the mtime the tree is believed to match
    writer,     \* writer[a]: the holder of file_rwlock for writing
    pc, on, op, name, \* of a thread: its step, authenticator, call and user
    seen,       \* seen[t]: st_mtime of its stat
    read,       \* read[t]: the tree it has built
    second,     \* the clock, in seconds as st_mtime is
    calls,
    (* history *)
    stamped,    \* the mtimes that contents of the file have had
    reused,     \* the mtimes that two contents have shared
    overlap,    \* the authenticators two threads were reloading at once
    crossed,    \* a call through one authenticator met a deletion of another
    wanted,     \* the users added and not deleted
    gone,       \* the users whose deletion has replaced the file
    cut,        \* the users the temporary file was to have or keep and has not
    lost        \* the users whose line was not written, or was cut and the file replaced

(* what the proofs need of the constants *)
Settings == MaxSecond \in Nat \ {0} /\ MaxCalls \in Nat

cached == <<users, mtime, writer>>
threads == <<pc, on, op, name, seen, read>>
history == <<stamped, reused, overlap, crossed, wanted, gone, cut, lost>>
vars == <<file, tmp, cached, threads, second, calls, history>>

Missing == [there |-> FALSE, users |-> {}, mtime |-> 0]
Written(us, m) == [there |-> TRUE, users |-> us, mtime |-> m]

\* Every authenticator has been created on the file as it is.
Init ==
    /\ \E us \in SUBSET User : file = Written(us, 1) /\ wanted = us
    /\ tmp = Missing
    /\ users = [a \in Auth |-> file.users]
    /\ mtime = [a \in Auth |-> file.mtime]
    /\ writer = [a \in Auth |-> None]
    /\ pc = [t \in Thread |-> "idle"] /\ on = [t \in Thread |-> None]
    /\ op = [t \in Thread |-> "none"] /\ name = [t \in Thread |-> None]
    /\ seen = [t \in Thread |-> 0] /\ read = [t \in Thread |-> {}]
    /\ second = 1 /\ calls = 0
    /\ stamped = {1} /\ reused = {} /\ overlap = {} /\ crossed = FALSE /\ gone = {}
    /\ cut = {} /\ lost = {}

Goes(t, step) == pc' = [pc EXCEPT ![t] = step]
Returns(t) == /\ Goes(t, "idle")
              /\ op' = [op EXCEPT ![t] = "none"] /\ name' = [name EXCEPT ![t] = None]
              /\ on' = [on EXCEPT ![t] = None] /\ seen' = [seen EXCEPT ![t] = 0]
              /\ read' = [read EXCEPT ![t] = {}]
\* Where a call goes after htpasswd_recheckfile: a deletion has finished.
AfterRecheck(t) == IF op[t] = "delete" THEN Returns(t)
                   ELSE Goes(t, "use") /\ UNCHANGED <<on, op, name, seen, read>>
Inside(a, steps) == {t \in Thread : on[t] = a /\ pc[t] \in steps}
Stamp(m) == /\ stamped' = stamped \cup {m}
            /\ reused' = IF m \in stamped THEN reused \cup {m} ELSE reused

\* htpasswd_auth, htpasswd_adduser and htpasswd_userlist start with the
\* recheck, htpasswd_deleteuser with the lock.
Call(t, a, o, u) ==
    /\ pc[t] = "idle" /\ calls < MaxCalls
    /\ calls' = calls + 1
    /\ Goes(t, IF o = "delete" THEN "lock" ELSE "stat")
    /\ on' = [on EXCEPT ![t] = a] /\ op' = [op EXCEPT ![t] = o]
    /\ name' = [name EXCEPT ![t] = u]
    /\ UNCHANGED <<file, tmp, cached, seen, read, second, history>>

\* stat: a missing file gives a dummy tree, an mtime that is known ends it.
RecheckStat(t) ==
    LET a == on[t] IN
    /\ pc[t] = "stat"
    /\ \/ /\ ~file.there /\ writer[a] = None
          /\ users' = [users EXCEPT ![a] = IF @ = None THEN {} ELSE @]
          /\ AfterRecheck(t)
       \/ /\ file.there /\ file.mtime = mtime[a]
          /\ AfterRecheck(t) /\ UNCHANGED users
       \/ /\ file.there /\ file.mtime # mtime[a]
          /\ seen' = [seen EXCEPT ![t] = file.mtime]
          /\ Goes(t, "open") /\ UNCHANGED <<users, on, op, name, read>>
    /\ UNCHANGED <<file, tmp, mtime, writer, second, calls, history>>

\* fopen fails, because the file has gone since or cannot be opened.
RecheckOpenFails(t) ==
    /\ pc[t] = "open" /\ AfterRecheck(t)
    /\ UNCHANGED <<file, tmp, cached, second, calls, history>>

\* The mtime that the tree about to be read will be taken to match.
Believed(t) == seen[t]

\* The mtime of the stat is set before the file is read, without the lock.
RecheckRead(t) ==
    /\ pc[t] = "open" /\ file.there
    /\ mtime' = [mtime EXCEPT ![on[t]] = Believed(t)]
    /\ read' = [read EXCEPT ![t] = file.users]
    /\ Goes(t, "install")
    /\ overlap' = IF Inside(on[t], {"install"}) # {} THEN overlap \cup {on[t]} ELSE overlap
    /\ UNCHANGED <<file, tmp, users, writer, on, op, name, seen, second, calls,
                   stamped, reused, crossed, wanted, gone, cut, lost>>

RecheckInstall(t) ==
    LET a == on[t] IN
    /\ pc[t] = "install" /\ writer[a] = None
    /\ users' = [users EXCEPT ![a] = read[t]]
    /\ AfterRecheck(t)
    /\ UNCHANGED <<file, tmp, mtime, writer, second, calls, history>>

\* The search of the cached tree, under the read lock.
Lookup(t) ==
    /\ pc[t] = "use" /\ op[t] \in {"auth", "list"}
    /\ writer[on[t]] = None /\ users[on[t]] # None
    /\ Returns(t)
    /\ UNCHANGED <<file, tmp, cached, second, calls, history>>

Deleting == {t \in Thread : pc[t] \in {"copy", "remove", "rename"}}

\* The user is looked for in the cached tree and appended to the file, which
\* fopen creates when it is missing; nobody looks whether the line was written.
\* The tree is left to the next recheck.
AddUser(t, whole) ==
    LET a == on[t]
        line == IF whole THEN {name[t]} ELSE {}
    IN
    /\ pc[t] = "use" /\ op[t] = "add" /\ writer[a] = None /\ users[a] # None
    /\ IF name[t] \in users[a]
       THEN UNCHANGED <<file, history>>
       ELSE /\ IF whole \/ ~file.there
               THEN file' = Written(file.users \cup line, second) /\ Stamp(second)
               ELSE UNCHANGED <<file, stamped, reused>>
            /\ wanted' = wanted \cup {name[t]} /\ gone' = gone \ {name[t]}
            /\ lost' = (lost \ line) \cup ({name[t]} \ (file.users \cup line))
            /\ crossed' = (crossed \/ Deleting # {})
            /\ UNCHANGED <<overlap, cut>>
    /\ Returns(t)
    /\ UNCHANGED <<tmp, cached, second, calls>>

\* fopen fails: nothing is added.
AddFails(t) ==
    /\ pc[t] = "use" /\ op[t] = "add" /\ writer[on[t]] = None
    /\ Returns(t)
    /\ UNCHANGED <<file, tmp, cached, second, calls, history>>

\* A file that is missing, a temporary file left behind, or one of the two that
\* cannot be opened rejects it.
DeleteCheck(t) ==
    LET a == on[t] IN
    /\ pc[t] = "lock" /\ writer[a] = None
    /\ \/ /\ file.there /\ ~tmp.there
          /\ writer' = [writer EXCEPT ![a] = t]
          /\ Goes(t, "copy") /\ UNCHANGED <<on, op, name, seen, read>>
       \/ Returns(t) /\ UNCHANGED writer
    /\ UNCHANGED <<file, tmp, users, mtime, second, calls, history>>

\* Mutant of Copied: the users in memory are written, not those of the file.
CopiedFromTree(t) ==
    {u \in (IF users[on[t]] = None THEN {} ELSE users[on[t]]) : Stem[u] # name[t]}

\* The lines that are copied: strchr ends a name at its first colon.
Copied(t) == {u \in file.users : Stem[u] # name[t]}

\* The lines of others that are taken for those of the user.
TakenAlong(t) == {u \in file.users \ {name[t]} : Stem[u] = name[t]}

\* The result of fprintf, fflush, fsync and fclose is not looked at: any of the
\* lines may be missing from the copy.
DeleteCopy(t) ==
    /\ pc[t] = "copy" /\ Goes(t, "remove")
    /\ \E failed \in SUBSET Copied(t) :
          /\ tmp' = Written(Copied(t) \ failed, second)
          /\ cut' = failed \cup TakenAlong(t)
    /\ wanted' = wanted \ {name[t]}
    /\ crossed' = (crossed \/ Deleting # {t})
    /\ UNCHANGED <<file, cached, on, op, name, seen, read, second, calls,
                   stamped, reused, overlap, gone, lost>>

\* remove: an error leaves both files, and the call still reports a deletion.
DeleteRemove(t) ==
    /\ pc[t] = "remove"
    /\ \/ /\ file' = Missing /\ Goes(t, "rename") /\ file.there /\ UNCHANGED writer
          /\ lost' = lost \cup cut
       \/ /\ Goes(t, "stat") /\ writer' = [writer EXCEPT ![on[t]] = None]
          /\ UNCHANGED <<file, lost>>
    /\ UNCHANGED <<tmp, users, mtime, on, op, name, seen, read, second, calls,
                   stamped, reused, overlap, crossed, wanted, gone, cut>>

\* What rename leaves of the temporary file.
KeptTemp(moved) == IF moved THEN Missing ELSE tmp

DeleteRename(t, moved) ==
    /\ pc[t] = "rename" /\ (moved => tmp.there)
    /\ IF moved
       THEN /\ file' = tmp /\ Stamp(tmp.mtime)
            /\ gone' = (gone \cup {name[t]}) \ wanted
       ELSE UNCHANGED <<file, stamped, reused, gone>>
    /\ tmp' = KeptTemp(moved)
    /\ Goes(t, "stat") /\ writer' = [writer EXCEPT ![on[t]] = None]
    /\ UNCHANGED <<users, mtime, on, op, name, seen, read, second, calls,
                   overlap, crossed, wanted, cut, lost>>

\* htpasswd_clear and auth_get_htpasswd_auth: a configuration read again makes
\* a new object, whose tree stays NULL when the file cannot be opened.
Configure(a, readable) ==
    /\ Inside(a, {"lock", "stat", "open", "install", "use", "copy", "remove", "rename"}) = {}
    /\ users' = [users EXCEPT ![a] = IF ~file.there THEN {} ELSE IF readable THEN file.users ELSE None]
    /\ mtime' = [mtime EXCEPT ![a] = IF file.there /\ readable THEN file.mtime ELSE 0]
    /\ overlap' = overlap \ {a}
    /\ calls < MaxCalls /\ calls' = calls + 1
    /\ UNCHANGED <<file, tmp, writer, threads, second, stamped, reused, crossed, wanted, gone, cut, lost>>

\* The process ends at any point, a lookup in a NULL tree included, and is
\* started again on the files that are left.
Restart ==
    /\ calls < MaxCalls /\ calls' = calls + 1
    /\ users' = [a \in Auth |-> file.users] /\ mtime' = [a \in Auth |-> file.mtime]
    /\ writer' = [a \in Auth |-> None]
    /\ pc' = [t \in Thread |-> "idle"] /\ on' = [t \in Thread |-> None]
    /\ op' = [t \in Thread |-> "none"] /\ name' = [t \in Thread |-> None]
    /\ seen' = [t \in Thread |-> 0] /\ read' = [t \in Thread |-> {}]
    /\ overlap' = {}
    /\ UNCHANGED <<file, tmp, second, stamped, reused, crossed, wanted, gone, cut, lost>>

Tick == /\ second < MaxSecond /\ second' = second + 1
        /\ UNCHANGED <<file, tmp, cached, threads, calls, history>>

Next ==
    \/ \E t \in Thread, a \in Auth :
          \/ \E o \in {"add", "delete"}, u \in User : Call(t, a, o, u)
          \/ \E o \in {"auth", "list"} : Call(t, a, o, None)
    \/ \E t \in Thread : RecheckStat(t) \/ RecheckOpenFails(t) \/ RecheckRead(t)
                         \/ RecheckInstall(t) \/ Lookup(t) \/ AddFails(t)
                         \/ DeleteCheck(t) \/ DeleteCopy(t) \/ DeleteRemove(t)
    \/ \E t \in Thread, whole \in BOOLEAN : AddUser(t, whole)
    \/ \E t \in Thread, moved \in BOOLEAN : DeleteRename(t, moved)
    \/ \E a \in Auth, readable \in BOOLEAN : Configure(a, readable)
    \/ Restart
    \/ Tick

Spec == Init /\ [][Next]_vars

-----------------------------------------------------------------------------
Files == [there : BOOLEAN, users : SUBSET User, mtime : 0..MaxSecond]

\* The type of every variable.
TypeOK ==
    /\ file \in Files /\ tmp \in Files
    /\ \A a \in Auth : users[a] = None \/ users[a] \subseteq User
    /\ mtime \in [Auth -> 0..MaxSecond]
    /\ writer \in [Auth -> Thread \cup {None}]
    /\ pc \in [Thread -> {"idle", "stat", "open", "install", "use", "lock", "copy", "remove", "rename"}]
    /\ on \in [Thread -> Auth \cup {None}]
    /\ op \in [Thread -> {"none", "auth", "list", "add", "delete"}]
    /\ name \in [Thread -> User \cup {None}]
    /\ seen \in [Thread -> 0..MaxSecond] /\ read \in [Thread -> SUBSET User]
    /\ second \in 1..MaxSecond /\ calls \in 0..MaxCalls
    /\ stamped \subseteq 0..MaxSecond /\ reused \subseteq stamped
    /\ overlap \subseteq Auth /\ crossed \in BOOLEAN
    /\ wanted \subseteq User /\ gone \subseteq User
    /\ cut \subseteq User /\ lost \subseteq User

\* htpasswd_recheckfile: a tree whose mtime is the file's, so that no call will
\* read the file again, holds the file's users once no reload is under way;
\* except when two contents shared an mtime (changes within a second) or two
\* threads reloaded at once and the older tree was installed last.
UsersCurrent ==
    \A a \in Auth :
       (/\ file.there /\ mtime[a] = file.mtime /\ users[a] # None
        /\ Inside(a, {"install"}) = {}
        /\ file.mtime \notin reused /\ a \notin overlap)
       => users[a] = file.users

\* htpasswd_deleteuser removes the file before it renames the temporary one:
\* whether it is removed or renamed or neither, and wherever the process stops,
\* the users that were not deleted are in one of the two files; but for lines
\* that were not written, as a write failed, names that begin with a deleted
\* one and a colon, and calls through two authenticators that crossed.
Recoverable == crossed \/ wanted \ lost \subseteq (file.users \cup tmp.users)

\* The names a deletion can match: those with a colon never equal their stem.
Plain(us) == {u \in us : Stem[u] = u}

\* htpasswd_deleteuser: a user without a colon whose deletion replaced the file
\* is not brought back by a later call that did not add it, whatever tree that
\* call had cached.
DeletedGone == crossed \/ Plain(gone) \cap file.users = {}

(* A table of users that counts as current is, and the file loses no user that was not deleted *)
(* and regains none that was, through failures of remove, rename and open and restarts of the  *)
(* server; a line that a failed write lost is excused, and names with a colon.                 *)
UsersKept == TypeOK /\ UsersCurrent /\ Recoverable /\ DeletedGone
=============================================================================
