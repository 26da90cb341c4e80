---------------------------- MODULE Stylesheets -----------------------------
(***************************************************************************)
(* The cache of stylesheets (xslt.c).  A request looks its sheet up with   *)
(* the read lock and applies it with the lock held.  A sheet that is not   *)
(* there, or whose file has changed, is parsed by a thread of its own,     *)
(* which puts it into the cache with the write lock and answers the        *)
(* request itself; at most MaxUpdating of them run, and the requests       *)
(* beyond that come back later.  A cached sheet is compared with its file  *)
(* once every Recheck seconds.                                             *)
(***************************************************************************)
EXTENDS Integers, FiniteSets

CONSTANTS
    Askers,         \* requests for a page at a time
    Sheet,          \* stylesheet files
    Edited,         \* those of them that somebody changes
    None,
    CacheSize,      \* CACHESIZE (10)
    MaxUpdating,    \* update threads at a time (3)
    Recheck,        \* seconds between two looks at a file (20)
    MaxAsked,       \* bound on the requests
    EndTime,        \* bound on the clock
    MaxChanges      \* bound on the changes to the files

VARIABLES
    cache,          \* the slots: what was loaded, or None
    updating,       \* xsl_updating
    writer,         \* the request whose thread has xslt_lock for writing
    ask,            \* the requests: where each is and what it has at hand
    file,           \* the files: there or not, contents, time of change
    clock,
    changes,        \* number of changes to the files
    blurred,        \* files changed twice in a second
    asked           \* number of requests

vars == <<cache, updating, writer, ask, file, clock, changes, blurred, asked>>

Asker == 1 .. Askers
Place == 1 .. CacheSize

(* xsl_req, and a slot of the cache, for those sheets *)
Request == [filename : Sheet, last_modified : Nat, cache_age : Nat, next_check : Nat]
Entry == [filename : Sheet, last_modified : Nat, content : Nat, cache_age : Nat,
          next_check : Nat]

(* what is asked of the constants; a run evaluates it *)
Settings ==
    /\ Askers \in Nat /\ CacheSize \in Nat \ {0} /\ MaxUpdating \in Nat
    /\ Recheck \in Nat /\ EndTime \in Nat
    /\ Edited \subseteq Sheet
    /\ None \notin Asker \cup Request \cup Entry

(* a request: the sheet it is for, the slot it was found in (0 for none), the *)
(* time of its worker, its xsl_req, what its thread has parsed, and whether   *)
(* the sheet that it applies has been freed                                   *)
NoRequest == [pc |-> "idle", fn |-> None, idx |-> 0, at |-> 0, req |-> None,
              content |-> 0, lost |-> FALSE]

Init ==
    /\ cache = [i \in Place |-> None]
    /\ updating = 0
    /\ writer = None
    /\ ask = [a \in Asker |-> NoRequest]
    /\ file = [f \in Sheet |-> [there |-> TRUE, content |-> 1, mtime |-> 0]]
    /\ clock = 0
    /\ changes = 0
    /\ blurred = {}
    /\ asked = 0

---------------------------------------------------------------------------
Readers == {a \in Asker : ask[a].pc \in {"stat", "send"} /\ writer # a}

Holds(f) == {i \in Place : cache[i] # None /\ cache[i].filename = f}

First(slots) == CHOOSE i \in slots : \A j \in slots : i <= j

(* lookup of xslt_cached *)
Cached(f) == IF Holds(f) = {} THEN 0 ELSE First(Holds(f))

(* slots that were loaded for the earliest request *)
Oldest == {i \in Place : \A j \in Place : cache[i].cache_age <= cache[j].cache_age}

(* slot that xslt_cached gives to a new sheet *)
Evict(f) ==
    IF Holds(f) # {} THEN Cached(f)
    ELSE LET free == {i \in Place : cache[i] = None}
         IN  First(IF free # {} THEN free ELSE Oldest)

(* cache with the next look at slot i put off; slot 0 is none *)
PutOff(i, t) == IF i = 0 THEN cache ELSE [cache EXCEPT ![i].next_check = t + Recheck]

(* xslt_transform, first for a request, which goes by the lowest number *)
(* that is free, and then for one that was put off                      *)
Asks(a, f) ==
    /\ \/ /\ asked < MaxAsked
          /\ ask[a].pc = "idle" /\ \A b \in 1 .. a - 1 : ask[b].pc # "idle"
          /\ asked' = asked + 1
       \/ ask[a].pc = "delayed" /\ f = ask[a].req.filename /\ UNCHANGED asked
    /\ writer = None

(* the next look at the file is still to come: the sheet is used as it is *)
UseCached(a, f) ==
    /\ Asks(a, f)
    /\ LET i == Cached(f)
       IN  /\ i # 0
           /\ cache[i].next_check > clock
           /\ ask' = [ask EXCEPT ![a] = [@ EXCEPT !.pc = "send", !.fn = f, !.idx = i,
                                                !.at = clock]]
    /\ UNCHANGED <<cache, updating, writer, file, clock, changes, blurred>>

(* a look is due; of those that come in that very second one takes it on *)
TakeCheck(a, f) ==
    /\ Asks(a, f)
    /\ LET i == Cached(f)
       IN  /\ i # 0 => cache[i].next_check <= clock
           /\ cache' = IF i # 0 /\ cache[i].next_check = clock THEN PutOff(i, clock) ELSE cache
           /\ ask' = [ask EXCEPT ![a] = [@ EXCEPT !.pc = "stat", !.fn = f, !.idx = i,
                                                !.at = clock]]
    /\ UNCHANGED <<updating, writer, file, clock, changes, blurred>>

(* the file is not there: 404 *)
StatFails(a) ==
    /\ ask[a].pc = "stat"
    /\ ~file[ask[a].fn].there
    /\ ask' = [ask EXCEPT ![a] = NoRequest]
    /\ UNCHANGED <<cache, updating, writer, file, clock, changes, blurred, asked>>

Modified(a) ==
    ask[a].idx # 0 => file[ask[a].fn].mtime # cache[ask[a].idx].last_modified

NotModified(a) ==
    /\ ask[a].pc = "stat"
    /\ file[ask[a].fn].there
    /\ ~Modified(a)
    /\ cache' = PutOff(ask[a].idx, ask[a].at)
    /\ ask' = [ask EXCEPT ![a] = [@ EXCEPT !.pc = "send"]]
    /\ UNCHANGED <<updating, writer, file, clock, changes, blurred, asked>>

(* what a request is to load; one that was put off keeps its own *)
Req(a) ==
    IF ask[a].req # None THEN ask[a].req
    ELSE [filename |-> ask[a].fn, last_modified |-> file[ask[a].fn].mtime,
          cache_age |-> ask[a].at, next_check |-> ask[a].at + Recheck]

(* the request leaves its worker for a thread, or comes back later *)
ReqSheet(a) ==
    /\ ask[a].pc = "stat"
    /\ file[ask[a].fn].there
    /\ Modified(a)
    /\ cache' = PutOff(ask[a].idx, ask[a].at)
    /\ \/ /\ updating < MaxUpdating
          /\ updating' = updating + 1
          /\ ask' = [ask EXCEPT ![a] = [@ EXCEPT !.req = Req(a), !.pc = "parse"]]
       \/ /\ updating >= MaxUpdating
          /\ ask' = [ask EXCEPT ![a] = [@ EXCEPT !.req = Req(a), !.pc = "delayed"]]
          /\ UNCHANGED updating
    /\ UNCHANGED <<writer, file, clock, changes, blurred, asked>>

(* xslt_update reads the file *)
Parse(a) ==
    /\ ask[a].pc = "parse"
    /\ file[ask[a].fn].there
    /\ ask' = [ask EXCEPT ![a] = [@ EXCEPT !.pc = "parsed",
                                         !.content = file[ask[a].fn].content]]
    /\ UNCHANGED <<cache, updating, writer, file, clock, changes, blurred, asked>>

(* it is gone or cannot be parsed: 404 *)
ParseFails(a) ==
    /\ ask[a].pc = "parse"
    /\ ask' = [ask EXCEPT ![a] = [NoRequest EXCEPT !.pc = "ending"]]
    /\ UNCHANGED <<cache, updating, writer, file, clock, changes, blurred, asked>>

(* mutant: the time of the file is taken after it was read *)
LoadedLate(a) ==
    [filename |-> ask[a].fn, last_modified |-> file[ask[a].fn].mtime,
     content |-> ask[a].content, cache_age |-> ask[a].req.cache_age,
     next_check |-> ask[a].req.next_check]

(* what a thread puts into the cache *)
Loaded(a) ==
    [filename |-> ask[a].fn, last_modified |-> ask[a].req.last_modified,
     content |-> ask[a].content, cache_age |-> ask[a].req.cache_age,
     next_check |-> ask[a].req.next_check]

(* xslt_lock can be had for writing *)
Exclusive == writer = None /\ Readers = {}

(* with the write lock, the sheet replaces what its slot held *)
Install(a) ==
    /\ ask[a].pc = "parsed"
    /\ Exclusive
    /\ LET i == Evict(ask[a].fn)
       IN  /\ cache' = [cache EXCEPT ![i] = Loaded(a)]
           /\ ask' = [b \in Asker |->
                 IF b = a THEN [ask[a] EXCEPT !.idx = i, !.req = None, !.pc = "send"]
                 ELSE IF b \in Readers /\ ask[b].idx = i THEN [ask[b] EXCEPT !.lost = TRUE]
                 ELSE ask[b]]
    /\ writer' = a
    /\ UNCHANGED <<updating, file, clock, changes, blurred, asked>>

(* xslt_send_sheet: the page, or 404 for a sheet that cannot be applied, *)
(* and the lock is given up; a request that was put off drops its xsl_req *)
SendSheet(a) ==
    /\ ask[a].pc = "send"
    /\ ask' = [ask EXCEPT ![a] =
                  IF writer = a THEN [NoRequest EXCEPT !.pc = "ending"] ELSE NoRequest]
    /\ writer' = IF writer = a THEN None ELSE writer
    /\ UNCHANGED <<cache, updating, file, clock, changes, blurred, asked>>

ThreadEnds(a) ==
    /\ ask[a].pc = "ending"
    /\ updating' = updating - 1
    /\ ask' = [ask EXCEPT ![a] = NoRequest]
    /\ UNCHANGED <<cache, writer, file, clock, changes, blurred, asked>>

(* somebody writes the file anew *)
Change(f) ==
    /\ changes < MaxChanges
    /\ changes' = changes + 1
    /\ file' = [file EXCEPT ![f] = [there |-> TRUE, content |-> @.content + 1,
                                     mtime |-> clock]]
    /\ blurred' = IF file[f].mtime = clock THEN blurred \cup {f} ELSE blurred
    /\ UNCHANGED <<ask, cache, updating, writer, clock, asked>>

Remove(f) ==
    /\ changes < MaxChanges
    /\ changes' = changes + 1
    /\ file' = [file EXCEPT ![f].there = FALSE]
    /\ UNCHANGED <<ask, cache, updating, writer, clock, blurred, asked>>

Tick ==
    /\ clock < EndTime
    /\ clock' = clock + 1
    /\ UNCHANGED <<ask, cache, updating, writer, file, changes, blurred, asked>>

Next ==
    \/ \E a \in Asker, f \in Sheet : UseCached(a, f)
    \/ \E a \in Asker, f \in Sheet : TakeCheck(a, f)
    \/ \E a \in Asker : StatFails(a)
    \/ \E a \in Asker : NotModified(a)
    \/ \E a \in Asker : ReqSheet(a)
    \/ \E a \in Asker : Parse(a)
    \/ \E a \in Asker : ParseFails(a)
    \/ \E a \in Asker : Install(a)
    \/ \E a \in Asker : SendSheet(a)
    \/ \E a \in Asker : ThreadEnds(a)
    \/ \E f \in Edited : Change(f)
    \/ \E f \in Edited : Remove(f)
    \/ Tick

Spec == Init /\ [][Next]_vars

---------------------------------------------------------------------------
TypeOK ==
    /\ \A i \in Place : cache[i] # None => cache[i].filename \in Sheet
    /\ updating \in 0 .. MaxUpdating
    /\ writer \in Asker \cup {None}
    /\ \A a \in Asker : ask[a].idx \in 0 .. CacheSize
    /\ clock \in 0 .. EndTime

(* A sheet that a request is applying stays in its slot until it is done, and *)
(* is the one that was asked for: no thread that loads another frees it, by   *)
(* loading the same file again or by needing the slot (xslt_cached).          *)
SheetAlive ==
    \A a \in Asker : ask[a].pc = "send" =>
        ~ask[a].lost /\ cache[ask[a].idx].filename = ask[a].fn

(* contents c that were read for time t are those of the file, or t tells *)
ToldApart(f, c, t) ==
    file[f].there /\ f \notin blurred /\ c # file[f].content => t # file[f].mtime

(* What is in the cache, or on its way there, and no longer what the file says *)
(* is also known by another time, however late the thread that loaded it came  *)
(* and whichever of two came last: the next look finds it out.  Excused is a   *)
(* file that was changed twice within a second.                                *)
StaleFound ==
    /\ \A i \in Place : cache[i] = None
          \/ ToldApart(cache[i].filename, cache[i].content, cache[i].last_modified)
    /\ \A a \in Asker : ask[a].pc # "parsed"
          \/ ToldApart(ask[a].fn, ask[a].content, ask[a].req.last_modified)

(* Two threads that load the same sheet, in a full cache too, leave it in one  *)
(* slot: a lookup never finds an older one before it.                          *)
CachedOnce == \A i, j \in Place :
    cache[i] # None /\ cache[j] # None /\ cache[i].filename = cache[j].filename => i = j

(* xsl_updating counts the update threads that run, whichever way they end; a  *)
(* request that was put off would else be put off for ever.                    *)
UpdatersCounted ==
    updating = Cardinality({a \in Asker :
        ask[a].pc \in {"parse", "parsed", "ending"} \/ writer = a})

(* A stylesheet is not freed in use, one that its file has left behind is found out, each is *)
(* cached once, and the places for update threads come back, whatever order the threads that *)
(* load sheets and the requests that apply them run in.                                      *)
SheetsCurrent == TypeOK /\ SheetAlive /\ StaleFound /\ CachedOnce /\ UpdatersCounted
=============================================================================
