------------------------------- MODULE Stats -------------------------------
(***************************************************************************)
(* Statistics (stats.c): the tree of the statistics of each mount, the     *)
(* handles that sources keep on its entries, their removal and purge, and  *)
(* the queue of events of a connected stats client (the streamlist of a    *)
(* slave or the stats feed of an administrator).                           *)
(*                                                                         *)
(* Of the statistics of a mount one is followed, with its value; 0 stands  *)
(* for a statistic that is not there.  A step is what a thread does while  *)
(* it holds the lock of an entry, or of the whole source_tree; the removal *)
(* by process_source_stat has a gap between two locked parts.              *)
(***************************************************************************)
EXTENDS Integers, Sequences, SequencesExt, FiniteSets

CONSTANTS
    Mount,      \* mounts with statistics
    Slot,       \* memory for stats_source_t
    Value,      \* values of the statistic of a mount, without 0
    Count,      \* values of the global statistic
    Full,       \* lines that fit a block, for 4096 bytes
    Limit,      \* lines queued to a client before it is dropped, for 6000000
    Global,     \* the name of the global statistic
    None

VARIABLES
    count,      \* value of a global statistic with STATS_REGULAR
    reported,   \* its last_reported is not 0
    entry,      \* stats_source_t structures
    tree,       \* entries in _stats.source_tree
    source,     \* the source of each mount: none, idle (not available), up
    handle,     \* source->stats
    gap,        \* a removal that has given up the lock of its entry, by whom
    recheck,    \* mounts that source_recheck_mounts has still to look at
    busy,       \* it is running
    stage,      \* what the stats client does
    admin,      \* its mask has STATS_HIDDEN
    blocks,     \* client->refbuf: the queue of blocks of lines
    recent,     \* recent_block, as a position in blocks, 0 for NULL
    content,    \* content_len
    pos,        \* client->pos in the first block
    snap,       \* lines of biglist
    todo,       \* mounts whose statistics biglist still lacks
    err,        \* client->connection.error
    view        \* what the client knows of the lines it was sent, while it has no error

gvars == <<count, reported>>
evars == <<entry, tree>>
svars == <<source, handle, gap>>
rvars == <<recheck, busy>>
qvars == <<blocks, recent, content, err, view>>
cvars == <<stage, admin, pos, snap, todo>>
vars == <<count, reported, entry, tree, source, handle, gap, recheck, busy, stage,
          admin, blocks, recent, content, pos, snap, todo, err, view>>

Line(k, m, v) == [k |-> k, m |-> m, v |-> v]
Lines == [k : {"NEW", "EVENT", "DELETE", "DELSTAT", "FLUSH"}, m : Mount \cup {Global},
          v : Value \cup Count \cup {0}]

(* age is the updated field: LONG_MAX, the mark of this recheck, or older *)
Ages == {"never", "marked", "old"}

(* what stats_handle and process_source_event put in the tree *)
NewEntry(m) == [m |-> m, live |-> TRUE, hidden |-> TRUE, val |-> 0, age |-> "old"]
FreeEntry == [m |-> None, live |-> FALSE, hidden |-> TRUE, val |-> 0, age |-> "old"]

TypeOK ==
    /\ count \in Count /\ reported \in BOOLEAN
    /\ entry \in [Slot -> [m : Mount \cup {None}, live : BOOLEAN, hidden : BOOLEAN,
                           val : Value \cup {0}, age : Ages]]
    /\ tree \subseteq Slot
    /\ source \in [Mount -> {"none", "idle", "up"}]
    /\ handle \in [Mount -> Slot \cup {None}]
    /\ gap \in [Mount -> {"no", "relay", "drop"}]
    /\ recheck \subseteq Mount /\ busy \in BOOLEAN
    /\ stage \in {"out", "registered", "counted", "listing", "active", "gone"}
    /\ admin \in BOOLEAN /\ err \in BOOLEAN
    /\ blocks \in Seq(Seq(Lines)) /\ snap \in Seq(Lines)
    /\ recent \in 0 .. Len(blocks)
    /\ content \in Nat /\ pos \in Nat
    /\ todo \subseteq Mount
    /\ view \in [Mount \cup {Global} -> Value \cup Count \cup {0}]

Unknown == [m \in Mount \cup {Global} |-> 0]

Init ==
    /\ count \in Count /\ reported = FALSE
    /\ entry = [s \in Slot |-> FreeEntry]
    /\ tree = {}
    /\ source = [m \in Mount |-> "none"]
    /\ handle = [m \in Mount |-> None]
    /\ gap = [m \in Mount |-> "no"]
    /\ recheck = {} /\ busy = FALSE
    /\ stage = "out"
    /\ admin \in BOOLEAN
    /\ blocks = <<>> /\ recent = 0 /\ content = 0 /\ pos = 0
    /\ snap = <<>> /\ todo = {}
    /\ err = FALSE
    /\ view = Unknown

(***************************************************************************)
(* The queue of the stats client                                           *)
(***************************************************************************)

(* the client is in _stats.event_listeners *)
Listening == stage \in {"registered", "counted", "listing", "active"}

QAddedNewBlock(q, l) ==
    [q EXCEPT !.b = Append(@, <<l>>), !.r = Len(q.b) + 1, !.n = @ + 1]

(* _add_stats_to_stats_client: onto the recent block when there is room,   *)
(* else a block of its own (_add_node_to_stats_client)                     *)
QAdded(q, l) ==
    IF q.n > Limit THEN [q EXCEPT !.e = TRUE]
    ELSE IF q.r > 0 /\ Len(q.b[q.r]) < Full
         THEN [q EXCEPT !.b[q.r] = Append(@, l), !.n = @ + 1]
         ELSE QAddedNewBlock(q, l)

(* nothing of the client is left to send *)
NoQueue == blocks' = <<>> /\ recent' = 0 /\ content' = 0 /\ view' = Unknown

(* stats_listener_send for a sequence of lines, each with its hidden flag. *)
(* A client with an error is sent nothing more (stats_listeners_send looks *)
(* at it first): its queue is not followed to its release.                 *)
Send(sent) ==
    LET wanted == SelectSeq(sent, LAMBDA x : admin \/ ~x.hidden)
        q == FoldLeft(LAMBDA a, x : QAdded(a, x.line),
                      [b |-> blocks, r |-> recent, n |-> content, e |-> err], wanted)
    IN IF ~Listening \/ err THEN UNCHANGED qvars
       ELSE IF q.e THEN err' = TRUE /\ NoQueue
       ELSE /\ blocks' = q.b /\ recent' = q.r /\ content' = q.n
            /\ UNCHANGED <<err, view>>

Sent(h, l) == [hidden |-> h, line |-> l]

(***************************************************************************)
(* The tree.  Creating and deleting an entry needs source_tree for writing *)
(***************************************************************************)
Writable == stage # "listing"

Entries(m) == {s \in tree : entry[s].m = m}
Unused == {s \in Slot : ~ entry[s].live /\ \A m \in Mount : handle[m] # s}

(* the entry of a mount, found (_find_source) or made *)
Looked(m) ==
    IF Entries(m) # {} THEN Entries(m)
    ELSE IF Unused = {} THEN {} ELSE {CHOOSE s \in Unused : TRUE}
Made(s, m) == IF s \in tree THEN entry[s] ELSE NewEntry(m)

(* process_source_stat on a named statistic; v = 0 removes it *)
ValueSent(e, v) ==
    IF v # 0 THEN <<Sent(e.hidden, Line("EVENT", e.m, v))>>
    ELSE IF e.val # 0 THEN <<Sent(e.hidden, Line("DELSTAT", e.m, 0))>> ELSE <<>>

(* process_source_stat on the flags of the mount: a mount that is hidden   *)
(* is deleted for everyone, one that is shown is announced with its stats  *)
FlagsSent(e, h) ==
    IF e.hidden = h THEN <<>>
    ELSE IF h THEN <<Sent(FALSE, Line("DELETE", e.m, 0))>>
    ELSE <<Sent(FALSE, Line("NEW", e.m, 0))>>
         \o (IF e.val = 0 THEN <<>> ELSE <<Sent(FALSE, Line("EVENT", e.m, e.val))>>)

(* _free_source_stats, from avl_delete *)
Delete(dead) ==
    /\ entry' = [s \in Slot |-> IF s \in dead THEN FreeEntry ELSE entry[s]]
    /\ tree' = tree \ dead
    /\ Send([i \in 1 .. Cardinality(dead) |->
                LET s == SetToSeq(dead)[i]
                IN Sent(entry[s].hidden, Line("DELETE", entry[s].m, 0))])

(***************************************************************************)
(* The global statistic: process_global_event with modify_node_event and,  *)
(* for one that is reported at intervals, stats_global_calc                *)
(***************************************************************************)
CountLine == <<Sent(FALSE, Line("EVENT", Global, count))>>

(* mutant of CountReported: the flag of the last report is left as it was *)
CountKeepsReported(v) == reported' = reported

(* no event is sent, last_reported is cleared for the next interval *)
CountReported(v) == reported' = FALSE

SetCount(v) ==
    /\ v # count
    /\ count' = v
    /\ CountReported(v)
    /\ UNCHANGED <<evars, svars, rvars, qvars, cvars>>

(* last_reported + 9 < now: always so after a change *)
Report ==
    /\ Send(CountLine)
    /\ reported' = TRUE
    /\ UNCHANGED <<count, evars, svars, rvars, cvars>>

(***************************************************************************)
(* Sources                                                                 *)
(***************************************************************************)

(* the mount is reserved in global.source_tree *)
Reserve(m) ==
    /\ source[m] = "none"
    /\ source' = [source EXCEPT ![m] = "idle"]
    /\ UNCHANGED <<gvars, evars, handle, gap, rvars, qvars, cvars>>

(* stats_lock without a handle, stats_handle, as the source starts *)
Start(m) ==
    /\ source[m] = "idle" /\ gap[m] = "no" /\ Writable
    /\ \E s \in IF handle[m] = None THEN Looked(m) ELSE {handle[m]} :
          /\ entry' = [entry EXCEPT ![s] =
                          IF handle[m] = None THEN [Made(s, m) EXCEPT !.age = "never"] ELSE @]
          /\ tree' = IF handle[m] = None THEN tree \cup {s} ELSE tree
          /\ handle' = [handle EXCEPT ![m] = s]
    /\ source' = [source EXCEPT ![m] = "up"]
    /\ UNCHANGED <<gvars, gap, rvars, qvars, cvars>>

(* stats_set and its variants with the handle *)
SetStat(m, v) ==
    /\ source[m] = "up"
    /\ entry' = [entry EXCEPT ![handle[m]].val = v]
    /\ Send(ValueSent(entry[handle[m]], v))
    /\ UNCHANGED <<gvars, tree, svars, rvars, cvars>>

(* stats_event: process_source_event finds or makes the entry.  A source   *)
(* sets statistics while it is available, its format removes them after    *)
EventByName(m, v) ==
    /\ source[m] = "up" \/ (source[m] = "idle" /\ v = 0)
    /\ Writable
    /\ IF Entries(m) = {} /\ v = 0 THEN UNCHANGED <<evars, qvars>>
       ELSE \E s \in Looked(m) :
               /\ entry' = [entry EXCEPT ![s] = [Made(s, m) EXCEPT !.val = v]]
               /\ tree' = tree \cup {s}
               /\ Send(ValueSent(Made(s, m), v))
    /\ UNCHANGED <<gvars, svars, rvars, cvars>>

(* stats_set_flags without a name, from source_update_settings *)
SetHidden(m, h) ==
    /\ source[m] = "up"
    /\ entry' = [entry EXCEPT ![handle[m]].hidden = h]
    /\ Send(FlagsSent(entry[handle[m]], h))
    /\ UNCHANGED <<gvars, tree, svars, rvars, cvars>>

(* the source ends; no request uses the handle from here on *)
Stop(m) ==
    /\ source[m] = "up"
    /\ source' = [source EXCEPT ![m] = "idle"]
    /\ UNCHANGED <<gvars, evars, handle, gap, rvars, qvars, cvars>>

(* a relay stands by for a restart: stats_flush, the handle is kept *)
Flush(m) ==
    /\ source[m] = "idle" /\ handle[m] # None /\ gap[m] = "no"
    /\ entry' = [entry EXCEPT ![handle[m]].val = 0]
    /\ Send(<<Sent(entry[handle[m]].hidden, Line("FLUSH", m, 0))>>)
    /\ UNCHANGED <<gvars, tree, svars, rvars, cvars>>

(***************************************************************************)
(* stats_set (handle, NULL, NULL): process_source_stat lets the entry go   *)
(* to take source_tree first.  drop_source_from_tree does so while it has  *)
(* global.source_tree, relay_read without it                               *)
(***************************************************************************)
RemoveBegin(m, by) ==
    /\ source[m] = "idle" /\ handle[m] # None /\ gap[m] = "no"
    /\ gap' = [gap EXCEPT ![m] = by]
    /\ UNCHANGED <<gvars, evars, source, handle, rvars, qvars, cvars>>

RemoveEnd(m) ==
    /\ gap[m] # "no" /\ Writable
    /\ Delete({handle[m]})
    /\ handle' = [handle EXCEPT ![m] = None]
    /\ source' = [source EXCEPT ![m] = IF gap[m] = "drop" THEN "none" ELSE @]
    /\ gap' = [gap EXCEPT ![m] = "no"]
    /\ UNCHANGED <<gvars, rvars, cvars>>

(* a source without statistics leaves global.source_tree *)
Leave(m) ==
    /\ source[m] = "idle" /\ handle[m] = None
    /\ source' = [source EXCEPT ![m] = "none"]
    /\ UNCHANGED <<gvars, evars, handle, gap, rvars, qvars, cvars>>

(***************************************************************************)
(* source_recheck_mounts: mounts that have only a fallback keep an entry   *)
(* for as long as the recheck finds them; the others are purged            *)
(***************************************************************************)
TreeHeld == \E m \in Mount : gap[m] = "drop"

RecheckBegin ==
    /\ ~busy /\ ~TreeHeld
    /\ busy' = TRUE /\ recheck' = Mount
    /\ entry' = [s \in Slot |-> IF entry[s].age = "marked"
                                THEN [entry[s] EXCEPT !.age = "old"] ELSE entry[s]]
    /\ UNCHANGED <<gvars, tree, svars, qvars, cvars>>

(* stats_set_expire only when there is no source at all *)
RecheckAge(m) == IF source[m] = "none" THEN "marked" ELSE "never"

RecheckMount(m, h, v) ==
    /\ m \in recheck /\ ~TreeHeld
    /\ recheck' = recheck \ {m}
    /\ source[m] # "up" /\ Writable
    /\ \E s \in Looked(m) :
          LET e == [Made(s, m) EXCEPT !.age = RecheckAge(m)] IN
          /\ entry' = [entry EXCEPT ![s] = [e EXCEPT !.hidden = h, !.val = v]]
          /\ tree' = tree \cup {s}
          /\ Send(FlagsSent(e, h) \o ValueSent([e EXCEPT !.hidden = h], v))
    /\ UNCHANGED <<gvars, svars, busy, cvars>>

(* a mount with a source that is available, or without a usable fallback *)
RecheckSkips(m) ==
    /\ m \in recheck /\ ~TreeHeld
    /\ recheck' = recheck \ {m}
    /\ UNCHANGED <<gvars, evars, svars, busy, qvars, cvars>>

(* stats_purge: updated < mark *)
Purgeable == {s \in tree : entry[s].age = "old"}

Purge ==
    /\ busy /\ recheck = {} /\ ~TreeHeld /\ Writable
    /\ busy' = FALSE
    /\ Delete(Purgeable)
    /\ UNCHANGED <<gvars, svars, recheck, cvars>>

(***************************************************************************)
(* The stats client: _register_listener in its locked parts, then sending  *)
(***************************************************************************)
Register ==
    /\ stage = "out"
    /\ stage' = "registered"
    /\ UNCHANGED <<gvars, evars, svars, rvars, qvars, admin, pos, snap, todo>>

(* the global statistics *)
SnapGlobal ==
    /\ stage = "registered"
    /\ stage' = "counted"
    /\ snap' = <<Line("EVENT", Global, count)>>
    /\ UNCHANGED <<gvars, evars, svars, rvars, qvars, admin, pos, todo>>

(* the list of mounts, with source_tree for reading from here to its end *)
SnapList ==
    /\ stage = "counted"
    /\ stage' = "listing"
    /\ todo' = {entry[s].m : s \in tree}
    /\ snap' = snap \o SetToSeq({Line("NEW", entry[s].m, 0) : s \in tree})
    /\ UNCHANGED <<gvars, evars, svars, rvars, qvars, admin, pos>>

(* the statistics of one mount, with its lock *)
SnapMount(m) ==
    /\ stage = "listing" /\ m \in todo
    /\ todo' = todo \ {m}
    /\ \E s \in Entries(m) :
          snap' = IF entry[s].val = 0 THEN snap
                  ELSE Append(snap, Line("EVENT", m, entry[s].val))
    /\ UNCHANGED <<gvars, evars, svars, rvars, qvars, stage, admin, pos>>

(* the big list goes before the events that came in meanwhile *)
Prepended(big) == blocks' = big \o blocks /\ content' = content + Len(snap)

RecentAfter(big) == recent' = Len(big) + Len(blocks)

SnapEnd ==
    /\ stage = "listing" /\ todo = {}
    /\ stage' = "active"
    /\ IF err THEN UNCHANGED <<blocks, content, recent>>
       ELSE Prepended(<<snap>>) /\ RecentAfter(<<snap>>)
    /\ snap' = <<>>
    /\ UNCHANGED <<gvars, evars, svars, rvars, admin, pos, todo, view, err>>

Known(w, l) ==
    CASE l.k = "EVENT" -> [w EXCEPT ![l.m] = l.v]
      [] OTHER -> [w EXCEPT ![l.m] = 0]

(* stats_listeners_send: a line of the first block is written; the block   *)
(* is released when all of it is                                           *)
SendLine ==
    /\ stage = "active" /\ ~err /\ blocks # <<>>
    /\ view' = Known(view, blocks[1][pos + 1])
    /\ IF pos + 1 = Len(blocks[1])
       THEN /\ blocks' = Tail(blocks)
            /\ content' = content - Len(blocks[1])
            /\ recent' = IF Len(blocks) = 1 THEN 0 ELSE recent - 1
            /\ pos' = 0
       ELSE /\ pos' = pos + 1
            /\ UNCHANGED <<gvars, blocks, content, recent>>
    /\ UNCHANGED <<gvars, evars, svars, rvars, stage, admin, snap, todo, err>>

(* an error on the connection, or more than the limit for a client that    *)
(* had the time to catch up: stats_client_release                          *)
ReleaseClient ==
    /\ stage = "active"
    /\ stage' = "gone"
    /\ NoQueue /\ pos' = 0
    /\ UNCHANGED <<gvars, evars, svars, rvars, admin, snap, todo, err>>

Next ==
    \/ \E m \in Mount :
          \/ Reserve(m) \/ Start(m) \/ Stop(m) \/ Flush(m) \/ Leave(m)
          \/ \E v \in Value \cup {0} : SetStat(m, v)
          \/ \E v \in Value \cup {0} : EventByName(m, v)
          \/ \E h \in BOOLEAN : SetHidden(m, h)
          \/ \E by \in {"relay", "drop"} : RemoveBegin(m, by)
          \/ RemoveEnd(m)
          \/ \E h \in BOOLEAN, v \in Value : RecheckMount(m, h, v)
          \/ RecheckSkips(m)
          \/ SnapMount(m)
    \/ \E v \in Count : SetCount(v)
    \/ Report
    \/ RecheckBegin \/ Purge
    \/ Register \/ SnapGlobal \/ SnapList \/ SnapEnd \/ SendLine \/ ReleaseClient

Spec == Init /\ [][Next]_vars

(***************************************************************************)
(* Properties                                                              *)
(***************************************************************************)

(* A source that keeps a handle (source->stats) finds behind it the entry  *)
(* of its mount, in the tree and not freed: neither a purge nor another    *)
(* removal deletes it, also not in the gap of process_source_stat.         *)
StatsAlive ==
    \A m \in Mount : handle[m] # None =>
        handle[m] \in tree /\ entry[handle[m]].live /\ entry[handle[m]].m = m

(* content_len is what is queued to the client, and recent_block is its    *)
(* last block, or NULL when there is none: the limits of the queue count   *)
(* what is there and new lines go to its end.                              *)
QueueAccounted ==
    /\ content = FoldLeft(LAMBDA n, b : n + Len(b), 0, blocks)
    /\ recent = Len(blocks)
    /\ \A i \in DOMAIN blocks : blocks[i] # <<>>

(* A stats client that is sent its whole queue knows the statistics of     *)
(* every mount that is shown and the global one once it was reported, and  *)
(* an administrator knows none of a mount that is not there: the list made *)
(* at the start and the events that came in meanwhile fit, in this order.  *)
ViewConverges ==
    LET queued == SubSeq(FlattenSeq(blocks), pos + 1, Len(FlattenSeq(blocks)))
        final == FoldLeft(Known, view, queued)
    IN stage = "active" /\ ~err =>
          /\ reported => final[Global] = count
          /\ \A m \in Mount :
             /\ \A s \in Entries(m) : ~entry[s].hidden => final[m] = entry[s].val
             /\ Entries(m) = {} /\ admin => final[m] = 0

(* Nobody uses an entry of the tree that was freed, the queue of a stats client is what its     *)
(* counters say, and what the client was sent amounts to the statistics that there are, through *)
(* purges, reloads, hidden mounts and the events that come in while its first list is made.     *)
StatsFaithful == TypeOK /\ StatsAlive /\ QueueAccounted /\ ViewConverges
=============================================================================
