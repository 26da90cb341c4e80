------------------------------ MODULE BanList ------------------------------
(***************************************************************************)
(* Banned addresses (connection.c: banned_ip, util.c: the cached files).   *)
(* The list is a tree kept from a file that is looked at again every few   *)
(* seconds, together with the timed bans that mounts give to their         *)
(* listeners; a lookup also throws out bans that it passed on its way and  *)
(* that ended some time ago.  An address can be in the tree twice.         *)
(***************************************************************************)
EXTENDS Integers, FiniteSets, FiniteSetsExt

CONSTANTS
    Ip,         \* addresses
    Wild,       \* addresses that the wildcard of the file matches
    Files,      \* contents the ban file can have: sets of lines, WildLine among them
    WildLine,   \* the line with the wildcard
    NoData,
    Duration,   \* <ban-client> of the mounts: seconds, or less than 0 until the client leaves
    Period,     \* time between two looks at a file (10 s)
    Hold,       \* how long an ended ban may stay (60 s)
    Extension,  \* what an attempt extends a ban by (300 s)
    LastTime,   \* bound on the clock
    MaxEntries, \* bound on the entries of the tree
    MaxHolders, \* bound on the clients of an address with a ban of their own
    MaxEdits    \* bound on the changes to the file

VARIABLES
    tree,       \* banned_ip.contents: entries, or NoTree
    wildcards,  \* banned_ip.extra is not empty
    recheck,    \* banned_ip.file_recheck
    mtime,      \* banned_ip.file_mtime
    named,      \* when banned_ip.filename was set, or NotNamed
    file,       \* the file: lines, time of the last change, and whether it is there
    edits,      \* number of changes to the file
    time,       \* time(NULL)
    asks,       \* address being looked up, between the two critical sections
    answer,     \* answer to the last lookup: banned or not, whether a ban was due, and the
                \* excuses of the address
    ends,       \* the latest end of the timed bans given to each address; 0: none
    holders,    \* clients of each address that go with a ban (CLIENT_IP_BAN_LIFT)
    twice,      \* addresses that were in the tree more than once
    forgot,     \* addresses with a ban that the list does not have
    loaded,     \* lines the list was last read with
    missed,     \* a change was made at a time the list already knew, or could not be read
    reused      \* an entry was noted twice for removal and used after its release

(* there is no tree *)
NoTree == {NoData}

Entries == [ip : Ip, till : Nat, n : 1 .. MaxEntries]

(* what is asked of the constants; a run evaluates it *)
Settings ==
    /\ Files \subseteq SUBSET (Ip \cup {WildLine}) /\ WildLine \notin Ip
    /\ \A f \in Files : IsFiniteSet(f) /\ Cardinality(f) <= MaxEntries
    /\ Duration \subseteq Int \ {0}
    /\ Period \in Nat /\ Hold \in Nat /\ Period <= Hold /\ Extension \in Nat
    /\ LastTime \in Nat /\ LastTime >= 2 /\ MaxEntries \in Nat /\ MaxHolders \in Nat
    /\ NoData \notin Ip \cup Entries

(* what the list is made of *)
listVars == <<tree, wildcards, recheck, mtime, named, loaded, missed>>
(* what bans were given, and the excuses *)
givenVars == <<ends, holders, twice, forgot>>
vars == <<listVars, givenVars, file, edits, time, asks, answer, reused>>

NotNamed == 0
Quiet == [banned |-> FALSE, due |-> FALSE, two |-> FALSE, forgot |-> FALSE]

Init ==
    /\ tree = NoTree
    /\ wildcards = FALSE
    /\ recheck = 0
    /\ mtime = 0
    /\ named = NotNamed
    /\ \E f \in Files : file = [lines |-> f, at |-> 1, there |-> "yes"]
    /\ edits = 0
    /\ time = 2
    /\ asks = NoData
    /\ answer = Quiet
    /\ ends = [i \in Ip |-> 0]
    /\ holders = [i \in Ip |-> 0]
    /\ twice = {}
    /\ forgot = {}
    /\ loaded = {}
    /\ missed = FALSE
    /\ reused = FALSE

----------------------------------------------------------------------------
(* Entries: address, timeout (0: none) and a number that tells equal ones  *)
(* apart                                                                   *)
Entry(i, t, n) == [ip |-> i, till |-> t, n |-> n]
Of(i) == {e \in tree : e.ip = i}
FreeNumber == CHOOSE n \in 1 .. MaxEntries : \A e \in tree : e.n # n

(* add_banned_ip for the lines of a file: a wildcard goes to the list, an  *)
(* address to the tree without a timeout                                   *)
FromFile(lines) ==
    LET ips == lines \ {WildLine}
        num == CHOOSE f \in [ips -> 1 .. Cardinality(ips)] :
                  \A i, j \in ips : i # j => f[i] # f[j]
    IN  {Entry(i, 0, num[i]) : i \in ips}

(* when the file is looked at the next time *)
NextRecheck(t) == t + Period

(* a ban given to the address runs, or a client it was given to is there *)
Running(i) == holders[i] > 0 \/ ends[i] > time

(* cached_prune: the list is thrown away, with the bans given to addresses *)
Pruned(t, lines) ==
    /\ tree' = t
    /\ wildcards' = (WildLine \in lines)
    /\ loaded' = lines
    /\ twice' = {}
    /\ forgot' = {i \in Ip : Running(i)}

(* cached_file_recheck, one critical section under global_lock: without a  *)
(* name the list is thrown away; a file that stat does not find leaves it  *)
(* as it is; it is read again if the time of the file has changed.  The    *)
(* new time is kept even if the file then cannot be opened ("shut").       *)
CachedFileRecheck ==
    \/ /\ time < recheck
       /\ UNCHANGED <<tree, wildcards, recheck, mtime, loaded, missed, twice, forgot>>
    \/ /\ time >= recheck
       /\ recheck' = NextRecheck(time)
       /\ \/ /\ named = NotNamed
             /\ Pruned(NoTree, {})
             /\ UNCHANGED <<mtime, missed>>
          \/ /\ named # NotNamed
             /\ file.there = "gone" \/ file.at = mtime
             /\ UNCHANGED <<tree, wildcards, mtime, loaded, missed, twice, forgot>>
          \/ /\ named # NotNamed
             /\ file.there # "gone" /\ file.at # mtime
             /\ mtime' = file.at
             /\ \/ /\ file.there = "shut"
                   /\ missed' = TRUE
                   /\ UNCHANGED <<tree, wildcards, loaded, twice, forgot>>
                \/ /\ file.there = "yes"
                   /\ Pruned(FromFile(file.lines), file.lines)
                   /\ missed' = FALSE

(* accept_ip_address, for a connection or for the address a proxy passed *)
AcceptIpAddress(i) ==
    /\ asks = NoData
    /\ asks' = i
    /\ answer' = Quiet
    /\ CachedFileRecheck
    /\ UNCHANGED <<named, ends, holders, file, edits, time, reused>>

----------------------------------------------------------------------------
(* search_banned_ip_locked *)

(* mutant of Stale: bans are dropped before their time is over *)
StaleLate(e) == e.till # 0 /\ e.till < recheck + Hold

(* compare_banned_ip notes an entry with another address for removal *)
Stale(e) == e.till # 0 /\ e.till < recheck - Hold

(* a ban that an attempt found is extended *)
Extended(t) == IF t # 0 /\ time + Extension > t THEN time + Extension ELSE t

(* the entry still holds *)
Holds(e) == e.till = 0 \/ e.till > time

(* avl_delete by the address of each noted entry takes the entry it meets  *)
(* first, which need not be the one noted                                  *)
Removals(noted) ==
    {R \in SUBSET {e \in tree : \E s \in noted : s.ip = e.ip} :
        \A i \in {s.ip : s \in noted} :
            Cardinality({e \in R : e.ip = i}) = Cardinality({s \in noted : s.ip = i})}

(* Removing an entry compares addresses again, so an entry on the way may  *)
(* be noted a second time and be looked at when it is freed.               *)
NotedTwice(noted) == IF Cardinality(noted) > 1 THEN BOOLEAN ELSE {FALSE}

(* the list as last read has the address, or a wildcard that matches it *)
Listed(i) == i \in loaded \/ (WildLine \in loaded /\ i \in Wild)

IsDue(i) == Listed(i) \/ Running(i)

Answer(i, banned) ==
    answer' = [banned |-> banned, due |-> IsDue(i), two |-> i \in twice, forgot |-> i \in forgot]

(* the address matches a wildcard *)
SearchWild ==
    /\ asks # NoData
    /\ wildcards /\ asks \in Wild
    /\ asks' = NoData
    /\ Answer(asks, TRUE)
    /\ UNCHANGED <<listVars, givenVars, file, edits, time, reused>>

(* no tree: there is nothing to find *)
SearchNothing ==
    /\ asks # NoData
    /\ ~(wildcards /\ asks \in Wild)
    /\ tree = NoTree
    /\ asks' = NoData
    /\ Answer(asks, FALSE)
    /\ UNCHANGED <<listVars, givenVars, file, edits, time, reused>>

(* the way through the tree passes some of the other entries; which ones   *)
(* depends on its shape                                                    *)
Search ==
    /\ asks # NoData
    /\ ~(wildcards /\ asks \in Wild)
    /\ tree # NoTree
    /\ asks' = NoData
    /\ \E noted \in SUBSET {e \in tree : e.ip # asks /\ Stale(e)} :
       \E gone \in Removals(noted) :
          \/ /\ Of(asks) = {}
             /\ tree' = tree \ gone
             /\ Answer(asks, FALSE)
             /\ reused' \in NotedTwice(noted)
             /\ UNCHANGED ends
          \/ \E e \in Of(asks) :
             /\ Holds(e)
             /\ tree' = ((tree \ gone) \ {e}) \cup {[e EXCEPT !.till = Extended(@)]}
             /\ ends' = [ends EXCEPT ![asks] = IF @ > time THEN Extended(@) ELSE @]
             /\ Answer(asks, TRUE)
             /\ reused' \in NotedTwice(noted)
          \/ \E e \in Of(asks) :
             /\ ~Holds(e)
             /\ tree' = (tree \ gone) \ {e}
             /\ reused' = (noted # {})
             /\ Answer(asks, FALSE)
             /\ UNCHANGED ends
    /\ UNCHANGED <<wildcards, recheck, mtime, named, loaded, missed, holders, twice, forgot,
                   file, edits, time>>

----------------------------------------------------------------------------
(* connection_add_banned_ip and connection_release_banned_ip, called by    *)
(* workers as a client comes to a mount with <ban-client> and as it goes   *)

Timeout(d) == IF d > 0 THEN time + d ELSE 0

(* a ban is given: the reference that lookups are compared with *)
Given(i, d) ==
    IF d > 0 THEN /\ ends' = [ends EXCEPT ![i] = IF @ > time + d THEN @ ELSE time + d]
                  /\ UNCHANGED holders
    ELSE /\ holders[i] < MaxHolders
         /\ holders' = [holders EXCEPT ![i] = @ + 1]
         /\ UNCHANGED ends

ConnectionAddBannedIp(i, d) ==
    /\ Given(i, d)
    /\ \/ /\ tree = NoTree
          /\ forgot' = forgot \cup {i}
          /\ UNCHANGED <<tree, twice>>
       \/ /\ tree # NoTree
          /\ Cardinality(tree) < MaxEntries
          /\ tree' = tree \cup {Entry(i, Timeout(d), FreeNumber)}
          /\ twice' = IF Of(i) = {} THEN twice ELSE twice \cup {i}
          /\ UNCHANGED forgot
    /\ UNCHANGED <<wildcards, recheck, mtime, named, loaded, missed, file, edits, time, asks,
                   answer, reused>>

(* whichever entry of the address is met is taken out, that of the file or *)
(* of another client too                                                   *)
ConnectionReleaseBannedIp(i) ==
    /\ holders[i] > 0
    /\ holders' = [holders EXCEPT ![i] = @ - 1]
    /\ \/ tree = NoTree /\ UNCHANGED tree
       \/ tree # NoTree /\ Of(i) = {} /\ UNCHANGED tree
       \/ tree # NoTree /\ \E e \in Of(i) : tree' = tree \ {e}
    /\ UNCHANGED <<wildcards, recheck, mtime, named, loaded, missed, ends, twice, forgot,
                   file, edits, time, asks, answer, reused>>

(* cached_file_clear as the connection thread ends, at every reload of the *)
(* configuration                                                           *)
CachedFileClear ==
    /\ Pruned(NoTree, {})
    /\ recheck' = 0
    /\ mtime' = 0
    /\ named' = NotNamed
    /\ missed' = FALSE
    /\ UNCHANGED <<ends, holders, file, edits, time, asks, answer, reused>>

(* cached_file_init as it starts, if the configuration names a file: the   *)
(* time of the next look stays                                             *)
CachedFileInit ==
    /\ named = NotNamed
    /\ named' = time
    /\ mtime' = 0
    /\ UNCHANGED <<tree, wildcards, recheck, loaded, missed, givenVars, file, edits, time, asks,
                   answer, reused>>

(* the administrator changes the file; it cannot be opened, or is gone *)
Edit ==
    /\ edits < MaxEdits
    /\ edits' = edits + 1
    /\ \E f \in Files, there \in {"yes", "shut", "gone"} :
          /\ file' = [lines |-> f, at |-> time, there |-> there]
          /\ missed' = (missed \/ time = mtime)
    /\ UNCHANGED <<tree, wildcards, recheck, mtime, named, loaded, givenVars, time, asks, answer,
                   reused>>

Tick ==
    /\ time < LastTime
    /\ time' = time + 1
    /\ UNCHANGED <<listVars, givenVars, file, edits, asks, answer, reused>>

Next ==
    /\ ~reused
    /\ \/ \E i \in Ip : AcceptIpAddress(i) \/ ConnectionReleaseBannedIp(i)
       \/ SearchWild
       \/ SearchNothing
       \/ Search
       \/ \E i \in Ip, d \in Duration : ConnectionAddBannedIp(i, d)
       \/ CachedFileClear
       \/ CachedFileInit
       \/ Edit
       \/ Tick

Spec == Init /\ [][Next]_vars

----------------------------------------------------------------------------
TypeOK ==
    /\ tree = NoTree \/ tree \subseteq Entries
    /\ wildcards \in BOOLEAN /\ missed \in BOOLEAN /\ reused \in BOOLEAN
    /\ recheck \in Nat /\ mtime \in Nat /\ named \in Nat /\ time \in 0 .. LastTime
    /\ asks \in Ip \cup {NoData}
    /\ answer \in [banned : BOOLEAN, due : BOOLEAN, two : BOOLEAN, forgot : BOOLEAN]
    /\ ends \in [Ip -> Nat] /\ holders \in [Ip -> Nat]
    /\ twice \subseteq Ip /\ forgot \subseteq Ip /\ loaded \subseteq Ip \cup {WildLine}

(* A lookup refuses an address exactly as long as the file, as last read,  *)
(* lists it, a timed ban given to it runs, or a client that goes with a    *)
(* ban is there, whatever was thrown out by lookups of others; unless the  *)
(* address was in the tree twice, when the entry found may be the one that *)
(* has ended and the one removed the one that holds, or the list lost a    *)
(* ban of the address: it was read again or cleared while the ban ran, or  *)
(* there was no tree to put it in.                                         *)
AnswerExact == answer.two \/ answer.forgot \/ answer.banned = answer.due

(* No entry that still holds is thrown out: an address that the file lists *)
(* or that has a ban is in the tree, with the same exceptions.             *)
BansKept ==
    \A i \in Ip : i \in loaded \/ Running(i) =>
        \/ i \in twice \cup forgot
        \/ tree # NoTree /\ Of(i) # {}

(* A change to the file is not overlooked: as long as the list was read    *)
(* from other lines the next look is due within a period of the change, or *)
(* of the file being named, unless the change was made in the second in    *)
(* which the file was last read, the file could not be opened when the     *)
(* change was noticed, or it is gone.                                      *)
FileHeeded ==
    named # NotNamed /\ file.there # "gone" /\ loaded # file.lines /\ ~missed =>
        recheck <= (IF file.at > named THEN file.at ELSE named) + Period

(* An address is refused exactly while its file or a ban given to it says so, no lookup       *)
(* throws out a ban that holds, and a change of the file is seen in time.                     *)
BansExact == TypeOK /\ AnswerExact /\ BansKept /\ FileHeeded
============================================================================
