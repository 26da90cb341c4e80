------------------------------ MODULE MCStats -------------------------------
(***************************************************************************)
(* What is made for those who look and listen, for TLC: the statistics,    *)
(* the trees they are kept in, the stylesheets of their pages, and Ogg     *)
(* streams. They share no variable, so a behaviour is one of a single      *)
(* part, which part says.                                                  *)
(* Stylesheets, which this module extends, stays in its initial state in a *)
(* behaviour of another part; the others have no state in those of other   *)
(* parts.                                                                  *)
(***************************************************************************)
EXTENDS Stylesheets, TLC

CONSTANTS
    Mount, Slot, Value, Count, Full, Limit, Global,
    OggAddr, NoAddr, Kind, MaxCodecs, QueueLen, PageHeaders,
    MaxStreams, MaxPages, MaxTags, MaxMoves, MaxInputs,
    Key, MaxNodes

VARIABLES
    part,           \* the component this behaviour is about
    count, reported, entry, tree, source, handle, gap, recheck, busy, stage, admin,
    blocks, recent, content, pos, snap, todo, err, view,
    filter, passthrough, codecs, chain, bosDone, sync, start, vb, current, queue,
    lst, unfit, cut, reused, dropped, streams, pages, tags, moves,
    heap, length, bag, deleted, bumped

T == INSTANCE Stats
O == INSTANCE OggStream WITH Addr <- OggAddr
A == INSTANCE Avl

ASSUME SheetSettings == Settings

statsVars == <<count, reported, entry, tree, source, handle, gap, recheck, busy, stage,
        admin, blocks, recent, content, pos, snap, todo, err, view>>
sheetsVars == vars
oggVars == <<filter, passthrough, codecs, chain, bosDone, sync, start, vb, current,
        queue, lst, unfit, cut, reused, dropped, streams, pages, tags, moves>>
avlVars == <<heap, length, bag, deleted, bumped>>
allVars == <<part, statsVars, sheetsVars, oggVars, avlVars>>

NoStats == count = 0 /\ reported = 0 /\ entry = 0 /\ tree = 0 /\ source = 0
    /\ handle = 0 /\ gap = 0 /\ recheck = 0 /\ busy = 0 /\ stage = 0 /\ admin = 0
    /\ blocks = 0 /\ recent = 0 /\ content = 0 /\ pos = 0 /\ snap = 0 /\ todo = 0
    /\ err = 0 /\ view = 0
NoSheets == Init
NoOgg == filter = 0 /\ passthrough = 0 /\ codecs = 0 /\ chain = 0 /\ bosDone = 0
    /\ sync = 0 /\ start = 0 /\ vb = 0 /\ current = 0 /\ queue = 0 /\ lst = 0
    /\ unfit = 0 /\ cut = 0 /\ reused = 0 /\ dropped = 0 /\ streams = 0 /\ pages = 0
    /\ tags = 0 /\ moves = 0
NoAvl == heap = 0 /\ length = 0 /\ bag = 0 /\ deleted = 0 /\ bumped = 0

MCInit ==
    \/ part = "stats" /\ T!Init /\ NoSheets /\ NoOgg /\ NoAvl
    \/ part = "sheets" /\ Init /\ NoStats /\ NoOgg /\ NoAvl
    \/ part = "ogg" /\ O!Init /\ NoStats /\ NoSheets /\ NoAvl
    \/ part = "avl" /\ A!Init /\ NoStats /\ NoSheets /\ NoOgg

OnlyStats == UNCHANGED <<part, sheetsVars, oggVars, avlVars>>
OnlySheets == UNCHANGED <<part, statsVars, oggVars, avlVars>>
OnlyOgg == UNCHANGED <<part, statsVars, sheetsVars, avlVars>>
OnlyAvl == UNCHANGED <<part, statsVars, sheetsVars, oggVars>>

MCNext ==
    \/ part = "stats" /\ (\E m \in Mount : T!Reserve(m)) /\ OnlyStats
    \/ part = "stats" /\ (\E m \in Mount : T!Start(m)) /\ OnlyStats
    \/ part = "stats" /\ (\E m \in Mount : T!Stop(m)) /\ OnlyStats
    \/ part = "stats" /\ (\E m \in Mount : T!Flush(m)) /\ OnlyStats
    \/ part = "stats" /\ (\E m \in Mount : T!Leave(m)) /\ OnlyStats
    \/ part = "stats" /\ (\E m \in Mount, v \in Value \cup {0} : T!SetStat(m, v)) /\ OnlyStats
    \/ part = "stats" /\ (\E m \in Mount, v \in Value \cup {0} : T!EventByName(m, v)) /\ OnlyStats
    \/ part = "stats" /\ (\E m \in Mount, h \in BOOLEAN : T!SetHidden(m, h)) /\ OnlyStats
    \/ part = "stats" /\ (\E m \in Mount, by \in {"relay", "drop"} : T!RemoveBegin(m, by)) /\ OnlyStats
    \/ part = "stats" /\ (\E m \in Mount : T!RemoveEnd(m)) /\ OnlyStats
    \/ part = "stats" /\ (\E m \in Mount, h \in BOOLEAN, v \in Value : T!RecheckMount(m, h, v)) /\ OnlyStats
    \/ part = "stats" /\ (\E m \in Mount : T!RecheckSkips(m)) /\ OnlyStats
    \/ part = "stats" /\ (\E m \in Mount : T!SnapMount(m)) /\ OnlyStats
    \/ part = "stats" /\ (\E v \in Count : T!SetCount(v)) /\ OnlyStats
    \/ part = "stats" /\ T!Report /\ OnlyStats
    \/ part = "stats" /\ T!RecheckBegin /\ OnlyStats
    \/ part = "stats" /\ T!Purge /\ OnlyStats
    \/ part = "stats" /\ T!Register /\ OnlyStats
    \/ part = "stats" /\ T!SnapGlobal /\ OnlyStats
    \/ part = "stats" /\ T!SnapList /\ OnlyStats
    \/ part = "stats" /\ T!SnapEnd /\ OnlyStats
    \/ part = "stats" /\ T!SendLine /\ OnlyStats
    \/ part = "stats" /\ T!ReleaseClient /\ OnlyStats
    \/ part = "sheets" /\ (\E a \in Asker, f \in Sheet : UseCached(a, f)) /\ OnlySheets
    \/ part = "sheets" /\ (\E a \in Asker, f \in Sheet : TakeCheck(a, f)) /\ OnlySheets
    \/ part = "sheets" /\ (\E a \in Asker : StatFails(a)) /\ OnlySheets
    \/ part = "sheets" /\ (\E a \in Asker : NotModified(a)) /\ OnlySheets
    \/ part = "sheets" /\ (\E a \in Asker : ReqSheet(a)) /\ OnlySheets
    \/ part = "sheets" /\ (\E a \in Asker : Parse(a)) /\ OnlySheets
    \/ part = "sheets" /\ (\E a \in Asker : ParseFails(a)) /\ OnlySheets
    \/ part = "sheets" /\ (\E a \in Asker : Install(a)) /\ OnlySheets
    \/ part = "sheets" /\ (\E a \in Asker : SendSheet(a)) /\ OnlySheets
    \/ part = "sheets" /\ (\E a \in Asker : ThreadEnds(a)) /\ OnlySheets
    \/ part = "sheets" /\ (\E f \in Edited : Change(f)) /\ OnlySheets
    \/ part = "sheets" /\ (\E f \in Edited : Remove(f)) /\ OnlySheets
    \/ part = "sheets" /\ Tick /\ OnlySheets
    \/ part = "ogg" /\ (\E k \in Kind, a \in OggAddr \cup {NoAddr} : O!BosPage(k, a)) /\ OnlyOgg
    \/ part = "ogg" /\ (\E i \in DOMAIN codecs, n \in PageHeaders, a \in OggAddr \cup {NoAddr} : O!HeaderPage(i, n, a)) /\ OnlyOgg
    \/ part = "ogg" /\ (\E i \in DOMAIN codecs, a \in OggAddr \cup {NoAddr} : O!VorbisHeader(i, a)) /\ OnlyOgg
    \/ part = "ogg" /\ (\E i \in DOMAIN codecs, a \in OggAddr \cup {NoAddr} : O!VorbisHeadersDone(i, a)) /\ OnlyOgg
    \/ part = "ogg" /\ (\E i \in DOMAIN codecs : O!DataPage(i)) /\ OnlyOgg
    \/ part = "ogg" /\ (\E i \in DOMAIN codecs, fresh \in BOOLEAN, key \in BOOLEAN : O!TheoraPage(i, fresh, key)) /\ OnlyOgg
    \/ part = "ogg" /\ (\E eos \in BOOLEAN : O!VorbisPage(eos)) /\ OnlyOgg
    \/ part = "ogg" /\ (\E a \in OggAddr \cup {NoAddr} : O!VorbisHeaders(a)) /\ OnlyOgg
    \/ part = "ogg" /\ O!VorbisBlock /\ OnlyOgg
    \/ part = "ogg" /\ O!VorbisAudio /\ OnlyOgg
    \/ part = "ogg" /\ O!VorbisFinished /\ OnlyOgg
    \/ part = "ogg" /\ O!SetTag /\ OnlyOgg
    \/ part = "ogg" /\ O!Prune /\ OnlyOgg
    \/ part = "ogg" /\ (\E i \in DOMAIN queue : O!Join(i)) /\ OnlyOgg
    \/ part = "ogg" /\ O!SendHeaders /\ OnlyOgg
    \/ part = "ogg" /\ O!SendBlock /\ OnlyOgg
    \/ part = "ogg" /\ O!Advance /\ OnlyOgg
    \/ part = "ogg" /\ O!Move /\ OnlyOgg
    \/ part = "ogg" /\ O!Restart /\ OnlyOgg
    \/ part = "avl" /\ (\E k \in Key : A!InsertKey(k)) /\ OnlyAvl
    \/ part = "avl" /\ (\E k \in Key : A!DeleteKey(k)) /\ OnlyAvl
    \/ part = "avl" /\ (\E k \in Key : A!DeleteMissing(k)) /\ OnlyAvl

MCSpec == MCInit /\ [][MCNext]_allVars

----------------------------------------------------------------------------
(* Nobody uses an entry of the tree that was freed, the queue of a stats client is what its     *)
(* counters say, and what the client was sent amounts to the statistics that there are, through *)
(* purges, reloads, hidden mounts and the events that come in while its first list is made.     *)
StatsFaithful == part = "stats" => T!StatsFaithful

(* After any sequence of insertions and deletions the tree is balanced, is walked in order, *)
(* finds exactly the keys that are in it and gives the right one at each index.             *)
TreeSound == part = "avl" => A!TreeSound

(* A listener of an Ogg stream has all headers of a stream before a page of it, first pages in *)
(* front, from a chain that is not freed under it, wherever it starts, is stopped or is moved. *)
HeadersFirst == part = "ogg" => O!HeadersFirst
=============================================================================
