------------------------------ MODULE IcyFilter ------------------------------
(***************************************************************************)
(* The reading side of an MP3 or AAC stream (format_mp3.c): bytes are read *)
(* into a block until it is full, inline metadata is taken out of it, the  *)
(* frames in it are checked (mpeg.c) and an incomplete frame at its end is *)
(* kept, either to be read again with the place in the metadata interval   *)
(* rewound, or as the surplus that is put before the next block.           *)
(*                                                                         *)
(* A byte is a number: audio bytes are 1, 2, 3..., frames are FrameLen of  *)
(* them; the length byte of a metadata block with k more bytes is -(k+1)   *)
(* and those bytes are 0.                                                  *)
(***************************************************************************)
EXTENDS Integers, Sequences, SequencesExt

CONSTANTS
    Interval,   \* the icy-metaint of a stream with metadata
    FrameLen,   \* the length of a frame
    Payload,    \* the lengths of metadata after their length byte
    QBlock,     \* qblock_sz
    Slack, More,\* a kept piece with less room than Slack has a block with More
    TooMuch,    \* more bytes than these without a frame are dropped (20000)
    MaxAudio    \* the bound of the audio bytes that are sent

VARIABLES
    inline,     \* inline_metadata_interval, 0 for a stream without metadata
    read, size, \* read_data up to read_count, and its length (0 when NULL)
    place,      \* offset: audio bytes since the last metadata
    built, meta,\* build_metadata up to its offset, and build_metadata_len
    surplus,    \* mpeg_sync->surplus
    queued,     \* the bytes that were put on the queue
    running,    \* SOURCE_RUNNING
    (* the stream that is sent, and history *)
    audio,      \* the audio bytes sent
    gap, rest,  \* audio bytes since its last metadata, bytes left of that metadata
    shifted     \* the place in the interval was not kept up with the stream, or bytes were dropped

sender == <<audio, gap, rest>>
vars == <<inline, read, size, place, built, meta, surplus, queued, running, sender, shifted>>

\* mpeg_apply_client.
Init ==
    /\ inline \in {0, Interval}
    /\ read = <<>> /\ size = QBlock /\ place = 0 /\ built = <<>> /\ meta = 0 /\ surplus = <<>>
    /\ queued = <<>> /\ running = TRUE
    /\ audio = 0 /\ gap = 0 /\ rest = 0 /\ shifted = FALSE

IsAudio(b) == b > 0

\* The next bytes of a stream: what a sender may write after the last one.
SendsMeta == rest > 0 \/ (inline > 0 /\ gap = inline)
NextBytes ==
    CASE rest > 0 -> {0}
      [] rest = 0 /\ SendsMeta -> {-(k + 1) : k \in Payload}
      [] OTHER -> IF audio < MaxAudio THEN {audio + 1} ELSE {}

\* complete_read: a byte of it; the block is used when it is full.
Read(b) ==
    /\ running /\ ~shifted
    /\ LET buffer == IF size = 0 THEN <<>> ELSE read
           room == IF size = 0 THEN QBlock ELSE size
       IN /\ Len(buffer) < room
          /\ read' = Append(buffer, b) /\ size' = room
    /\ audio' = (IF IsAudio(b) THEN audio + 1 ELSE audio)
    /\ gap' = CASE IsAudio(b) -> gap + 1
                [] b < 0 -> 0
                [] OTHER -> gap
    /\ rest' = CASE b < 0 -> -b - 1
                 [] b = 0 -> rest - 1
                 [] OTHER -> rest
    /\ UNCHANGED <<inline, place, built, meta, surplus, queued, running, shifted>>

\* mp3_get_filter_meta, a byte at a time: f has the audio kept so far.
Filter(f, b) ==
    IF inline = 0 \/ f.place < inline
    THEN [f EXCEPT !.kept = Append(@, b), !.place = @ + 1]
    ELSE LET len == IF f.meta = 0 THEN -b ELSE f.meta
             got == IF f.meta = 0 THEN <<b>> ELSE Append(f.built, b)
         IN IF Len(got) < len
            THEN [f EXCEPT !.built = got, !.meta = len]
            ELSE [f EXCEPT !.built = <<>>, !.meta = 0, !.place = 0, !.parsed = @ \o got]

Filtered == FoldLeft(Filter, [kept |-> <<>>, place |-> place, built |-> built, meta |-> meta,
                              parsed |-> <<>>], read)

Full == running /\ ~shifted /\ size > 0 /\ Len(read) = size
Took(f) == place' = f.place /\ built' = f.built /\ meta' = f.meta

\* parse_icy_metadata does not understand the metadata, or no frame is found.
Stops ==
    /\ Full
    /\ \/ Filtered.parsed # <<>> /\ surplus' = surplus
       \/ Filtered.kept # <<>> /\ surplus' = <<>>
    /\ running' = FALSE /\ read' = <<>> /\ size' = 0 /\ Took(Filtered)
    /\ UNCHANGED <<inline, queued, sender, shifted>>

\* Only metadata was read: nothing for the queue.
OnlyMetadata ==
    /\ Full /\ Filtered.kept = <<>>
    /\ read' = <<>> /\ size' = 0 /\ Took(Filtered)
    /\ UNCHANGED <<inline, surplus, queued, running, sender, shifted>>

\* mpeg_complete_frames_cb puts the surplus before the block.
Whole == surplus \o Filtered.kept

\* What is left after the complete frames; while frames are still being
\* recognised some complete ones may be left too.
Unprocessed == {u \in 0..Len(Whole) : u % FrameLen = Len(Whole) % FrameLen}

First(s, n) == SubSeq(s, 1, n)
End(s, n) == SubSeq(s, Len(s) - n + 1, Len(s))
\* What goes on the queue.
Published(u) == queued' = queued \o First(Whole, Len(Whole) - u)

\* validate_mpeg: frames, and after them too much that is none; the frames go on
\* the queue and the rest is dropped.
DropRest ==
    /\ Full
    /\ \E u \in Unprocessed : TooMuch < u /\ u < Len(Whole) /\ Published(u)
    /\ Took(Filtered) /\ read' = <<>> /\ size' = 0 /\ surplus' = <<>>
    /\ shifted' = TRUE
    /\ UNCHANGED <<inline, running, sender>>

\* The bytes that are kept.
Pieces == {u \in Unprocessed : 0 < u /\ u <= TooMuch}

\* Metadata follows: the piece cannot be completed by reading on.
Reached(f) == inline <= f.place

\* validate_mpeg: nothing is left over.
TakeWhole ==
    /\ Full /\ Filtered.kept # <<>> /\ 0 \in Unprocessed
    /\ Took(Filtered) /\ Published(0)
    /\ read' = <<>> /\ size' = 0 /\ surplus' = <<>>
    /\ UNCHANGED <<inline, running, sender, shifted>>

\* The piece is kept for the frame parser.
KeepSurplus ==
    /\ Full /\ Filtered.kept # <<>> /\ inline > 0 /\ Reached(Filtered)
    /\ Took(Filtered)
    /\ \E u \in Pieces : Published(u) /\ surplus' = End(Whole, u)
    /\ read' = <<>> /\ size' = 0
    /\ UNCHANGED <<inline, running, sender, shifted>>

\* The place in the interval goes back by what will be read again; it may fall
\* below zero when the piece began before the last metadata.
Rewound(f, u) == IF inline > 0 THEN f.place - u ELSE f.place

\* The piece begins the next block.
ReadAgain ==
    /\ Full /\ Filtered.kept # <<>> /\ ~(inline > 0 /\ Reached(Filtered))
    /\ \E u \in Pieces :
          /\ Published(u) /\ read' = End(Whole, u)
          /\ place' = Rewound(Filtered, u)
          /\ size' = IF QBlock < u + Slack THEN u + More ELSE QBlock
    /\ built' = Filtered.built /\ meta' = Filtered.meta /\ surplus' = <<>>
    /\ UNCHANGED <<inline, running, sender, shifted>>

\* A tag does not fit into the block, which grows (mpeg_block_expanded): its
\* first u bytes are read again, those that were frames before the tag are not
\* queued, and the place in the interval stays.
Expand ==
    /\ Full /\ Filtered.kept # <<>>
    /\ \E u \in Pieces :
          /\ read' = First(Whole, u) /\ size' = Len(Whole) + More
          /\ shifted' = (inline > 0 \/ u < Len(Whole))
    /\ Took(Filtered) /\ surplus' = <<>>
    /\ UNCHANGED <<inline, queued, running, sender>>

\* swap_client: a hijacker sends a stream of its own from the start; only the
\* surplus of the one before is dropped, not what was read or the place.
Swap ==
    /\ running /\ ~shifted
    /\ surplus' = <<>> /\ gap' = 0 /\ rest' = 0
    /\ audio' = audio - Len(surplus)
    /\ shifted' = (place # 0 \/ meta > 0 \/ read # <<>> \/ surplus # <<>>)
    /\ UNCHANGED <<inline, read, size, place, built, meta, queued, running>>

Next ==
    \/ \E b \in NextBytes : Read(b)
    \/ Stops
    \/ OnlyMetadata
    \/ TakeWhole
    \/ DropRest
    \/ KeepSurplus
    \/ ReadAgain
    \/ Expand
    \/ Swap

Spec == Init /\ [][Next]_vars

-----------------------------------------------------------------------------
\* The type of every variable.
TypeOK ==
    /\ inline \in {0, Interval} /\ {running, shifted} \subseteq BOOLEAN
    /\ {size, meta, audio, gap, rest} \subseteq Nat /\ place \in Int
    /\ \A s \in {read, built, surplus, queued} : s \in Seq(Int)

\* mp3_get_filter_meta, validate_mpeg: nothing of the audio is lost, repeated or
\* reordered between the socket and the queue and no metadata gets into it,
\* wherever blocks, frames and metadata meet; unless a tag made a block grow or
\* a hijacker took over in mid interval, when the place is not put right, or too
\* much of a block was no frame.
StreamKept ==
    (running /\ ~shifted) =>
       queued \o surplus \o SelectSeq(read, IsAudio) = [i \in 1..audio |-> i]

\* SOURCE_BLOCK_SYNC: every block of the queue starts and ends with a frame.
WholeFrames == ~shifted => Len(queued) % FrameLen = 0

(* Wherever blocks, frames and metadata of an incoming stream meet, the queue has all of its *)
(* audio, none of its metadata, and whole frames.                                            *)
ReadFramed == TypeOK /\ StreamKept /\ WholeFrames
=============================================================================
