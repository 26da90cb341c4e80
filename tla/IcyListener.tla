----------------------------- MODULE IcyListener -----------------------------
(***************************************************************************)
(* A listener of an MP3 or AAC stream (format_mp3.c) that asked for inline *)
(* metadata: shoutcast style, a metadata block after every interval of     *)
(* audio, or as iceblocks, a header and any new metadata before each block *)
(* of the queue.  Blocks of the queue point to a counted metadata block    *)
(* that lives at an address; the listener remembers the address it sent    *)
(* last, without a reference.  Writes may stop after any byte.  What the   *)
(* listener's own parser makes of the bytes is kept as the receiver.       *)
(***************************************************************************)
EXTENDS Integers, Sequences, FiniteSets

CONSTANTS
    Addr,       \* the addresses of metadata blocks
    NoAddr,     \* NULL
    Title,      \* the titles, naturals; title n takes a block of n + 2 bytes
    Interval,   \* the metadata interval of the stream
    BlockLen,   \* the length of every block of the queue
    QueueLen,   \* how many blocks the queue keeps
    MaxBlocks,  \* the bound of the blocks that are read from the source
    MaxTags     \* the bound of the times that tags are set

VARIABLES
    mem,        \* mem[a]: count, on_queue, title and iceblock of the block at a
    current,    \* source_mp3->metadata
    title, tags, \* the tags that were set and not applied yet (0 for none), how often
    queue,      \* the blocks on the queue, as the address each is associated with
    first,      \* the number of the first of them, counting every block read
    kind,       \* "icy" or "ice" (CLIENT_WANTS_META)
    at,         \* the number of the block in client->refbuf, 0 for none
    block,      \* the address that block is associated with
    private,    \* the block is a copy and not on the queue
    pos, queue_pos, since, inMeta, offset, associated, error, \* client and client_mp3
    (* the receiver, and history *)
    gap, due,   \* audio since its last metadata, bytes it still takes as metadata
    shown,      \* the title it shows
    wanted,     \* the title of the block at which it was last sent metadata
    cut,        \* it lost a block half way through metadata
    unplaced,   \* queue_pos is not followed until it joins again
    reused      \* the address it remembers was given to other metadata

source == <<mem, current, title, tags, queue, first>>
sending == <<pos, queue_pos, since, inMeta, offset, associated, error>>
receiver == <<gap, due, shown, wanted, cut, unplaced>>
vars == <<source, kind, at, block, private, sending, receiver, reused>>

Free == [count |-> 0, on_queue |-> FALSE, title |-> 0, ice |-> FALSE]
Bytes(t) == t + 2
IcyLen(a) == Bytes(mem[a].title)
IceLen(a) == IF mem[a].ice THEN Bytes(mem[a].title) ELSE 0
Lesser(a, b) == IF a < b THEN a ELSE b

\* mpeg_apply_client gives the source a block with an empty title; the listener
\* has been sent its headers and waits to join the queue.
Init ==
    /\ current = CHOOSE a \in Addr : TRUE
    /\ mem = [x \in Addr |-> IF x = current THEN [Free EXCEPT !.count = 1] ELSE Free]
    /\ title = 0 /\ tags = 0 /\ queue = <<>> /\ first = 1
    /\ kind \in {"icy", "ice"}
    /\ at = 0 /\ block = NoAddr /\ private = FALSE
    /\ pos = 0 /\ queue_pos = 0 /\ since = 0 /\ inMeta = FALSE /\ offset = 0
    /\ associated = NoAddr /\ error = FALSE
    /\ gap = 0 /\ due = 0 /\ shown = 0 /\ wanted = 0
    /\ cut = FALSE /\ unplaced = TRUE /\ reused = FALSE

\* metadata_blk_release: the last reference frees the block.
Released(m, a) == [m EXCEPT ![a] = IF @.count = 1 THEN Free ELSE [@ EXCEPT !.count = @ - 1]]

\* mp3_set_tag, from the admin interface or the stream's own metadata.
SetTag(t) ==
    /\ ~error /\ tags < MaxTags /\ tags' = tags + 1
    /\ title' = t
    /\ UNCHANGED <<mem, current, queue, first, kind, at, block, private, sending, receiver, reused>>

\* mp3_set_title ignores a title while the one before has not been queued.
Applies == mem[current].on_queue \/ Len(queue) = 0

\* An address the allocator can return: the one the listener remembers, if it is
\* free, or any of the others, between which there is no difference.
Address(m) ==
    LET free == {x \in Addr : m[x].count = 0}
    IN  {a \in free : a = associated \/ a = CHOOSE x \in free \ {associated} : TRUE}

\* complete_read, past 20000 bytes: the tags become a new metadata block, at any
\* address that is free, and the request is dropped whether they did or not.
SetTitle ==
    /\ ~error /\ title # 0 /\ title' = 0
    /\ \/ /\ Applies
          /\ \E a \in Address(Released(mem, current)) :
                /\ mem' = [Released(mem, current) EXCEPT
                              ![a] = [count |-> 1, on_queue |-> FALSE, title |-> title, ice |-> TRUE]]
                /\ current' = a
                /\ reused' = (reused \/ a = associated)
       \/ ~Applies /\ UNCHANGED <<mem, current, reused>>
    /\ UNCHANGED <<tags, queue, first, kind, at, block, private, sending, receiver>>

\* The block of metadata that a block of the queue is associated with.
Queued(m, a) == [m EXCEPT ![a].on_queue = TRUE, ![a].count = @ + 1]

\* mp3_get_no_meta and mp3_get_filter_meta put a block on the queue; the oldest
\* is detached, and a listener still on it is dropped as too far behind.
Last == first + Len(queue) - 1
At(n) == queue[n - first + 1]
Publish ==
    /\ ~error /\ Last < MaxBlocks
    /\ LET full == Len(queue) = QueueLen
       IN /\ queue' = Append(IF full THEN Tail(queue) ELSE queue, current)
          /\ mem' = IF full THEN Released(Queued(mem, current), Head(queue)) ELSE Queued(mem, current)
          /\ first' = IF full THEN first + 1 ELSE first
          /\ error' = (full /\ at = first /\ ~private)
    /\ UNCHANGED <<current, title, tags, kind, at, block, private, pos, queue_pos, since,
                   inMeta, offset, associated, receiver, reused>>

Listening == ~error /\ at # 0

\* The place of the listener in the stream, or that it is not followed: it has no
\* block or a copy of its own, lost a block, or was sent part of a header.
Placed(lost, place) == unplaced' = lost /\ queue_pos' = IF lost THEN 0 ELSE place

\* locate_start_on_queue: any block of the queue that is a sync point.
Join(n) ==
    /\ ~error /\ at = 0 /\ n \in first..Last
    /\ at' = n /\ block' = At(n) /\ private' = FALSE
    /\ pos' = 0 /\ Placed(cut, (n - 1) * BlockLen)
    /\ UNCHANGED <<source, kind, since, inMeta, offset, associated, error, gap, due, shown, wanted,
                   cut, reused>>

Advance ==
    /\ Listening /\ pos = BlockLen /\ ~private /\ at < Last
    /\ at' = at + 1 /\ block' = At(at + 1) /\ pos' = 0
    /\ UNCHANGED <<source, kind, private, queue_pos, since, inMeta, offset, associated, error,
                   receiver, reused>>

\* What is left to send before the audio: nothing new is a nul byte.
Same == block = associated /\ ~inMeta
MetaLeft == IF Same THEN 1 ELSE IcyLen(block) - offset

\* send_icy_metadata: the block shrank under the offset already sent.
Mismatch ==
    /\ Listening /\ kind = "icy" /\ since = Interval /\ pos < BlockLen
    /\ inMeta /\ offset >= IcyLen(block)
    /\ error' = TRUE
    /\ UNCHANGED <<source, kind, at, block, private, pos, queue_pos, since, inMeta, offset,
                   associated, receiver, reused>>

\* Of n bytes written, what queue_pos counts: not the skip bytes of metadata
\* or header that came before the stream data.
Streamed(n, skip) == n - skip

\* send_icy_metadata: the receiver's view of n bytes, the first of which tells
\* it how many are metadata.
SendMetadata(n) ==
    LET declared == IF due = 0 THEN MetaLeft ELSE due
        audio == Lesser(BlockLen - pos, Interval)
    IN
    /\ Listening /\ kind = "icy" /\ since = Interval /\ pos < BlockLen
    /\ ~(inMeta /\ offset >= IcyLen(block))
    /\ n \in 1..(MetaLeft + audio)
    /\ IF n >= MetaLeft
       THEN /\ Placed(unplaced, queue_pos + Streamed(n, MetaLeft)) /\ pos' = pos + (n - MetaLeft)
            /\ since' = n - MetaLeft /\ inMeta' = FALSE /\ offset' = 0
            /\ associated' = block
            /\ due' = (IF cut THEN 0 ELSE declared - MetaLeft) /\ gap' = IF cut THEN 0 ELSE n - MetaLeft
            /\ shown' = IF cut \/ reused THEN 0 ELSE IF Same THEN shown ELSE mem[block].title
            /\ wanted' = IF cut \/ reused THEN 0 ELSE mem[block].title
       ELSE /\ inMeta' = TRUE /\ offset' = offset + n
            /\ due' = IF cut THEN 0 ELSE declared - n
            /\ UNCHANGED <<queue_pos, unplaced, pos, since, associated, gap, shown, wanted>>
    /\ UNCHANGED <<source, kind, at, block, private, error, cut, reused>>

\* Mutant of Room: the block is sent to its end over the metadata interval.
RoomWhole == BlockLen - pos

\* How much audio format_mp3_write_buf_to_client sends before metadata is due.
Room == Lesser(BlockLen - pos, Interval - since)

SendAudio(n) ==
    /\ Listening /\ kind = "icy" /\ since # Interval /\ n \in 1..Room
    /\ since' = since + n /\ gap' = IF cut THEN 0 ELSE gap + n
    /\ pos' = pos + n /\ Placed(unplaced, queue_pos + n)
    /\ UNCHANGED <<source, kind, at, block, private, inMeta, offset, associated, error,
                   due, shown, wanted, cut, reused>>

\* send_iceblock_to_client: metadata when it is new, a length, the block.
Skip == (IF block # associated THEN IceLen(block) ELSE 0) + 1
SendIceblock(n) ==
    LET total == Skip + BlockLen IN
    /\ Listening /\ kind = "ice" /\ pos < BlockLen
    /\ offset < total /\ n \in 1..(total - offset)
    /\ Placed(unplaced \/ offset + n < Skip,
              queue_pos + Streamed(n, IF offset < Skip THEN Skip - offset ELSE 0))
    /\ due' = IF cut THEN 0 ELSE (IF due = 0 THEN total ELSE due) - n
    /\ IF offset + n >= total
       THEN /\ pos' = BlockLen /\ offset' = 0 /\ associated' = block
            /\ shown' = IF cut \/ reused THEN 0 ELSE IF block # associated /\ mem[block].ice THEN mem[block].title ELSE shown
            /\ wanted' = IF cut \/ reused THEN 0 ELSE IF mem[block].ice THEN mem[block].title ELSE wanted
       ELSE offset' = offset + n /\ UNCHANGED <<pos, associated, shown, wanted>>
    /\ UNCHANGED <<source, kind, at, block, private, since, inMeta, error, gap, cut, reused>>

\* The listener leaves its block of the queue.  What the receiver made of the
\* bytes no longer matters once it lost a block half way.
Loses(lost) ==
    /\ cut' = (cut \/ lost) /\ Placed(TRUE, 0)
    /\ IF cut' THEN gap' = 0 /\ due' = 0 /\ shown' = 0 /\ wanted' = 0
       ELSE UNCHANGED <<gap, due, shown, wanted>>

\* A lagging listener, or one about to be moved, takes a copy of a block it has
\* not finished, with a copy of its metadata, and goes on with that.
TakeCopy ==
    /\ Listening /\ ~private
    /\ IF pos < BlockLen
       THEN \E a \in Address(mem) :
               /\ mem' = [mem EXCEPT ![a] = [mem[block] EXCEPT !.count = 1, !.on_queue = FALSE]]
               /\ block' = a /\ private' = TRUE
               /\ Loses(kind = "ice" /\ offset > 0 /\ (block = associated) # (a = associated))
               /\ reused' = (reused \/ a = associated)
               /\ UNCHANGED <<at, pos>>
       ELSE at' = 0 /\ pos' = 0 /\ Loses(FALSE) /\ UNCHANGED <<mem, block, private, reused>>
    /\ UNCHANGED <<current, title, tags, queue, first, kind, since, inMeta, offset, associated,
                   error>>

\* format_file_read lets go of a copy that has been sent; its metadata block is
\* not released.
DropCopy ==
    /\ Listening /\ private /\ pos = BlockLen
    /\ at' = 0 /\ block' = NoAddr /\ private' = FALSE /\ pos' = 0
    /\ UNCHANGED <<source, kind, queue_pos, since, inMeta, offset, associated, error, receiver, reused>>

\* A listener of a source that ends without a fallback is paused: the block it
\* was on is forgotten, its place in the metadata is not.
Pause ==
    /\ Listening /\ ~private
    /\ at' = 0 /\ block' = NoAddr /\ pos' = 0
    /\ Loses(offset > 0)
    /\ UNCHANGED <<source, kind, private, since, inMeta, offset, associated, error, reused>>

Next ==
    \/ \E t \in Title : SetTag(t)
    \/ SetTitle
    \/ Publish
    \/ \E n \in 1..MaxBlocks : Join(n)
    \/ Advance
    \/ Mismatch
    \/ \E n \in 1..(Interval + BlockLen + 5) : SendMetadata(n) \/ SendAudio(n) \/ SendIceblock(n)
    \/ TakeCopy
    \/ DropCopy
    \/ Pause

Spec == Init /\ [][Next]_vars

-----------------------------------------------------------------------------
\* The type of every variable.
TypeOK ==
    /\ \A a \in Addr : mem[a].count \in 0..(QueueLen + 1)
    /\ current \in Addr /\ title \in Title \cup {0} /\ tags \in 0..MaxTags
    /\ queue \in Seq(Addr) /\ first \in 1..(MaxBlocks + 1)
    /\ kind \in {"icy", "ice"} /\ at \in 0..MaxBlocks /\ {block, associated} \subseteq Addr \cup {NoAddr}
    /\ {private, inMeta, error, cut, unplaced, reused} \subseteq BOOLEAN
    /\ pos \in 0..BlockLen /\ since \in 0..Interval /\ gap \in 0..Interval
    /\ {queue_pos, offset, due} \subseteq Int /\ {shown, wanted} \subseteq Title \cup {0}

\* metadata_block counts: the block a listener reads metadata from is allocated
\* while it is on the queue, in its own copy, or the source's current one.
MetaAlive ==
    /\ mem[current].count > 0
    /\ \A n \in 1..Len(queue) : mem[queue[n]].count > 0
    /\ Listening => mem[block].count > 0

\* send_icy_metadata and send_iceblock_to_client: however the writes are cut, the
\* receiver takes as metadata exactly the bytes that are metadata, and as audio
\* the rest; unless its block was taken away half way (a pause, or a copy of an
\* iceblock block whose metadata then counts as new).
Framed ==
    (Listening /\ ~cut) =>
       IF kind = "icy"
       THEN gap = since /\ gap <= Interval /\ due = (IF inMeta THEN IcyLen(block) - offset ELSE 0)
       ELSE due = (IF offset > 0 THEN Skip + BlockLen - offset ELSE 0)

\* associated: after each insertion the receiver shows the title of the block it
\* was at; a block with the address that the listener remembers counts as sent,
\* so it may miss a title when the allocator reused that address.
TitleCurrent == reused \/ cut \/ shown = wanted

\* queue_pos, from which the lag of a listener is computed, is its place in the
\* stream; a write that stops inside the header of an iceblock makes it fall
\* behind, since the whole header is taken off at every attempt.
PlaceKept ==
    (Listening /\ ~unplaced) =>
       IF kind = "icy" THEN queue_pos = (at - 1) * BlockLen + pos
       ELSE pos = BlockLen => queue_pos = at * BlockLen

(* However the writes to a listener are cut, it is sent audio and metadata where it expects *)
(* them, from metadata that is not freed, with the title of its place in the stream.        *)
SentFramed == TypeOK /\ MetaAlive /\ Framed /\ TitleCurrent /\ PlaceKept
=============================================================================
