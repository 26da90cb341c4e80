----------------------------- MODULE OggStream ------------------------------
(***************************************************************************)
(* Ogg streams (format_ogg.c, format_vorbis.c, format_theora.c) and a      *)
(* listener of one.  Header pages are not queued: they form a chain,       *)
(* first pages (BOS) in front, and every block of the queue                *)
(* refers to the chain that it needs.  A Vorbis stream that is alone is    *)
(* taken apart and built again, with new headers when the title is set.    *)
(* The listener sends a chain before the first block that refers to it; it *)
(* remembers the chain by its address, without a reference.                *)
(*                                                                         *)
(* The input is Ogg: the first pages of all streams of a group, then their *)
(* other header pages, then data, and then perhaps a new group.            *)
(***************************************************************************)
EXTENDS Integers, Sequences, SequencesExt

CONSTANTS
    Addr, NoAddr,   \* addresses of chains, NULL
    Kind,           \* kinds of streams: "vorbis", "theora"
    MaxCodecs,      \* codecs beyond which the source is dropped (10)
    QueueLen,       \* blocks the queue keeps
    PageHeaders,    \* header packets that a page of Theora may hold, its first page aside
    MaxStreams,     \* bound on the streams, those built here included
    MaxPages,       \* bound on the data pages
    MaxTags,        \* bound on the titles set
    MaxMoves,       \* bound on the moves of the listener
    MaxInputs       \* bound on all four together

VARIABLES
    filter,         \* filter_theora
    passthrough,    \* ogg_info->passthrough
    codecs,         \* ogg_info->codecs, the latest first
    chain,          \* header_pages: address, pages, number of first pages (bos_end)
    bosDone,        \* bos_completed
    sync,           \* codec_sync is set
    start,          \* place on the queue of possible_start, 0 for none or gone
    vb,             \* the Vorbis stream that is built again
    current,        \* the codec with a page: "none", at "work", or "later", when
                    \* ogg_get_buffer has returned a block and is called again
    queue,          \* the blocks
    lst,            \* the listener
    unfit,          \* it was sent a page without its headers
    cut,            \* it moved in the middle of a chain
    reused,         \* the address it remembers was given to another chain
    dropped,        \* streams with a header page that was not kept
    streams, pages, tags, moves     \* how many there were

counts == <<streams, pages, tags, moves>>
source == <<codecs, chain, bosDone, sync, start, vb, current>>
settings == <<filter, passthrough>>
history == <<unfit, cut, reused, dropped>>
vars == <<settings, source, queue, lst, history, counts>>

NoChain == [addr |-> NoAddr, pages |-> <<>>, bos |-> 0]
NoVorbis == [pp |-> "none", gb |-> "none", prev |-> FALSE, in |-> "none", out |-> FALSE,
             notify |-> FALSE, sid |-> 0]

(* the block it is at (0 for none), client_data->headers, the chain it sends *)
(* and what is left of it, headers_sent, CLIENT_HAS_MOVED, whether it has    *)
(* sent the block; and the header pages that it was sent last                *)
NewListener == [at |-> 0, headers |-> NoAddr, from |-> NoAddr, rest |-> <<>>,
                sent |-> TRUE, moved |-> FALSE, done |-> FALSE, got |-> <<>>]

Init ==
    /\ filter \in BOOLEAN /\ passthrough \in BOOLEAN /\ ~(filter /\ passthrough)
    /\ codecs = <<>> /\ chain = NoChain /\ bosDone = FALSE /\ sync = FALSE /\ start = 0
    /\ vb = NoVorbis /\ current = "none"
    /\ queue = <<>>
    /\ lst = NewListener
    /\ unfit = FALSE /\ cut = FALSE /\ reused = FALSE /\ dropped = {}
    /\ streams = 0 /\ pages = 0 /\ tags = 0 /\ moves = 0

---------------------------------------------------------------------------
(* packets that are headers *)
Need == 3

Filtered(k) == k = "theora" /\ filter

(* chains that something refers to *)
Live == ({chain.addr} \cup {queue[i].assoc : i \in DOMAIN queue}) \ {NoAddr}

(* where a chain can be put: the address the listener remembers, if it is free, *)
(* or any of the others, between which there is no difference                   *)
Free == LET free == (Addr \ Live) \ {lst.headers, lst.from}
        IN  ({lst.headers} \cap (Addr \ Live))
            \cup (IF free = {} THEN {} ELSE {CHOOSE a \in free : TRUE})

(* the pages of a stream with header packets n .. m *)
Page(sid, n, m) == [sid |-> sid, packets |-> n .. m]

(* format_ogg_attach_header: a first page goes behind the other first pages, a   *)
(* page of another kind to the end                                               *)
WithBos(c, p, a) ==
    [addr |-> IF c.pages = <<>> THEN a ELSE c.addr,
     pages |-> InsertAt(c.pages, c.bos + 1, p), bos |-> c.bos + 1]

WithPage(c, p, a) ==
    [c EXCEPT !.addr = IF c.pages = <<>> THEN a ELSE c.addr, !.pages = Append(@, p)]

(* the listener's address is given to a new chain *)
Reused(c) == reused \/ (c.addr # chain.addr /\ c.addr # NoAddr /\ c.addr = lst.headers)

(* a call of ogg_get_buffer adds one block at most, and the queue is pruned after it *)
Room == Len(queue) < QueueLen

(* the behaviour has streams, pages, titles and moves to come *)
More == streams + pages + tags + moves < MaxInputs

(* the next page of the source can be looked at *)
Ready == current = "none" /\ Room

(* the source is in a call of ogg_get_buffer, with source->lock *)
Busy == current = "work"

(* the codec is given its turn again, in the same call or in a later one *)
Turn == Busy \/ (current = "later" /\ Room)

(* free_ogg_codecs, when a group follows another *)
Cleaned == IF bosDone THEN [codecs |-> <<>>, chain |-> NoChain, sync |-> FALSE]
           ELSE [codecs |-> codecs, chain |-> chain, sync |-> sync]

(* initial_vorbis_page: the codec keeps its first page, bos_page, to itself for now *)
VorbisCodec(sid) == [kind |-> "vorbis", sid |-> sid, headers |-> 1]

(* initial_theora_page *)
TheoraCodec(sid) == [kind |-> "theora", sid |-> sid, headers |-> 1]

KeptBack(k) == k = "vorbis" \/ Filtered(k)

(* process_initial_page *)
BosPage(k, a) ==
    /\ Ready
    /\ streams < MaxStreams /\ More
    /\ Len(Cleaned.codecs) <= MaxCodecs
    /\ streams' = streams + 1
    /\ codecs' = <<IF k = "vorbis" THEN VorbisCodec(streams') ELSE TheoraCodec(streams')>>
                 \o Cleaned.codecs
    /\ chain' = IF KeptBack(k) THEN Cleaned.chain
                ELSE WithBos(Cleaned.chain, Page(streams + 1, 1, 1), a)
    /\ a \in IF KeptBack(k) \/ Cleaned.chain # NoChain THEN {NoAddr} ELSE Free
    /\ reused' = Reused(chain')
    /\ sync' = (Cleaned.sync \/ (k = "theora" /\ ~filter))
    /\ bosDone' = IF bosDone THEN FALSE ELSE bosDone
    /\ start' = IF bosDone THEN 0 ELSE start
    /\ vb' = IF k = "vorbis" \/ bosDone THEN NoVorbis ELSE vb
    /\ UNCHANGED <<settings, current, queue, lst, unfit, cut, dropped, pages, tags, moves>>

Alone == Len(codecs) = 1

(* a header page of another kind: process_theora_page *)
HeaderPage(i, n, a) ==
    LET c == codecs[i]
    IN  /\ Ready
        /\ c.kind # "vorbis"
        /\ c.headers + n <= Need
        /\ codecs' = [codecs EXCEPT ![i].headers = @ + n]
        /\ a \in IF Filtered(c.kind) \/ chain # NoChain THEN {NoAddr} ELSE Free
        /\ chain' = IF Filtered(c.kind) THEN chain
                    ELSE WithPage(chain, Page(c.sid, c.headers + 1, c.headers + n), a)
        /\ reused' = Reused(chain')
        /\ bosDone' = TRUE
        /\ UNCHANGED <<settings, sync, start, vb, current, queue, lst, unfit, cut,
                       dropped, counts>>

(* process_vorbis_page with headers still to come: the page is kept for the *)
(* streams that are passed on, if there is another beside it                *)
VorbisHeader(i, a) ==
    LET c == codecs[i]
    IN  /\ Ready
        /\ c.kind = "vorbis" /\ c.headers < 2
        /\ codecs' = [codecs EXCEPT ![i].headers = 2]
        /\ a \in IF Alone \/ chain # NoChain THEN {NoAddr} ELSE Free
        /\ chain' = IF Alone THEN chain ELSE WithPage(chain, Page(c.sid, 2, 2), a)
        /\ dropped' = IF Alone /\ passthrough THEN dropped \cup {c.sid} ELSE dropped
        /\ reused' = Reused(chain')
        /\ bosDone' = TRUE
        /\ UNCHANGED <<settings, sync, start, vb, current, queue, lst, unfit, cut, counts>>

(* and with the last of them: the stream is built again, or passed on *)
VorbisHeadersDone(i, a) ==
    LET c == codecs[i]
    IN  /\ Ready
        /\ c.kind = "vorbis" /\ c.headers < 3
        /\ codecs' = [codecs EXCEPT ![i].headers = 3]
        /\ bosDone' = TRUE
        /\ IF Alone /\ ~passthrough
           THEN /\ a = NoAddr
                /\ vb' = [vb EXCEPT !.pp = "headers"]
                /\ current' = "work"
                /\ UNCHANGED <<chain, reused>>
           ELSE /\ a \in IF chain # NoChain THEN {NoAddr} ELSE Free
                /\ chain' = WithPage(WithBos(chain, Page(c.sid, 1, 1), a),
                                     Page(c.sid, c.headers + 1, 3), a)
                /\ reused' = Reused(chain')
                /\ UNCHANGED <<vb, current>>
        /\ UNCHANGED <<settings, sync, start, queue, lst, unfit, cut, dropped, counts>>

HeadersIn == codecs # <<>> /\ \A i \in DOMAIN codecs : codecs[i].headers >= Need

(* complete_buffer: the block refers to the chain *)
Block(sid) ==
    [sid |-> sid, assoc |-> chain.addr, pages |-> chain.pages, sync |-> ~sync]

(* a page of a Vorbis stream that is passed on: process_vorbis_passthru_page *)
DataPage(i) ==
    LET c == codecs[i]
    IN  /\ Ready /\ HeadersIn
        /\ pages < MaxPages /\ More /\ pages' = pages + 1
        /\ c.kind = "vorbis" /\ vb.pp = "none" /\ (~Alone \/ passthrough)
        /\ queue' = Append(queue, Block(c.sid))
        /\ bosDone' = TRUE
        /\ UNCHANGED <<settings, codecs, chain, sync, start, vb, current, lst,
                       history, streams, tags, moves>>

(* process_theora_page: a page with a new time may be where listeners start, *)
(* and is once a key frame follows                                           *)
TheoraPage(i, fresh, key) ==
    LET c == codecs[i]
        from == IF fresh THEN Len(queue) + 1 ELSE start
    IN  /\ Ready /\ HeadersIn
        /\ pages < MaxPages /\ More /\ pages' = pages + 1
        /\ c.kind = "theora" /\ ~filter
        /\ queue' = [j \in 1 .. Len(queue) + 1 |->
               LET b == IF j > Len(queue) THEN Block(c.sid) ELSE queue[j]
               IN  IF key /\ j = from THEN [b EXCEPT !.sync = TRUE] ELSE b]
        /\ start' = IF key THEN 0 ELSE from
        /\ bosDone' = TRUE
        /\ UNCHANGED <<settings, codecs, chain, sync, vb, current, lst, history,
                       streams, tags, moves>>

(* a page of the Vorbis stream that is built again, its last one or not *)
VorbisPage(eos) ==
    /\ Ready
    /\ vb.pp = "audio"
    /\ pages < MaxPages /\ More /\ pages' = pages + 1
    /\ vb' = [vb EXCEPT !.in = IF eos THEN "eos" ELSE "packet"]
    /\ current' = "work"
    /\ UNCHANGED <<settings, codecs, chain, bosDone, sync, start, queue, lst,
                   history, streams, tags, moves>>

(* process_vorbis_headers and get_buffer_header *)
VorbisHeaders(a) ==
    /\ Turn
    /\ vb.pp = "headers" /\ vb.gb = "none"
    /\ streams < MaxStreams /\ More /\ streams' = streams + 1
    /\ a \in IF chain # NoChain THEN {NoAddr} ELSE Free
    /\ chain' = WithPage(WithBos(chain, Page(streams + 1, 1, 1), a), Page(streams + 1, 2, 3), a)
    /\ reused' = Reused(chain')
    /\ vb' = [vb EXCEPT !.pp = "audio", !.gb = "audio", !.sid = streams + 1]
    /\ UNCHANGED <<settings, codecs, bosDone, sync, start, current, queue, lst,
                   unfit, cut, dropped, pages, tags, moves>>

(* get_buffer_audio and get_buffer_finished with a page for the queue *)
VorbisBlock ==
    /\ Turn
    /\ vb.gb \in {"audio", "finished"} /\ vb.out
    /\ current' = "later"
    /\ queue' = Append(queue, Block(vb.sid))
    /\ vb' = [vb EXCEPT !.out = FALSE]
    /\ UNCHANGED <<settings, codecs, chain, bosDone, sync, start, lst, history, counts>>

(* process_vorbis_audio: the packet before goes on, this one waits; at the end, *)
(* or when a title was set, both go and the stream is flushed (initiate_flush)  *)
VorbisAudio ==
    /\ Turn
    /\ vb.pp = "audio" /\ vb.gb = "audio"
    /\ vb' = CASE vb.in = "packet" -> [vb EXCEPT !.in = "none", !.prev = TRUE, !.out = @ \/ vb.prev]
               [] vb.in = "eos" -> [vb EXCEPT !.in = "none", !.prev = FALSE, !.out = TRUE,
                                              !.gb = "finished"]
               [] vb.in = "none" /\ vb.notify -> [vb EXCEPT !.notify = FALSE, !.gb = "finished",
                                                            !.out = @ \/ vb.prev]
               [] OTHER -> vb
    /\ current' = IF vb.in # "none" \/ vb.notify THEN "work" ELSE "none"
    /\ UNCHANGED <<settings, codecs, chain, bosDone, sync, start, queue, lst,
                   history, counts>>

(* mutant: the old header pages stay in the chain *)
ChainKept == chain

(* format_ogg_free_headers *)
FreeHeaders == NoChain

(* get_buffer_finished: nothing is left, and new headers are wanted if a packet is *)
VorbisFinished ==
    /\ Turn
    /\ vb.gb = "finished" /\ ~vb.out
    /\ chain' = FreeHeaders
    /\ vb' = [vb EXCEPT !.gb = "none", !.pp = IF vb.prev THEN "headers" ELSE "none"]
    /\ current' = IF vb.prev THEN "work" ELSE "none"
    /\ UNCHANGED <<settings, codecs, bosDone, sync, start, queue, lst, history, counts>>

(* vorbis_set_tag, by the admin interface, with source->lock.  It stays the handler *)
(* when a group without Vorbis follows; the structure it would then write to is of  *)
(* another kind, which is left out here.                                            *)
SetTag ==
    /\ ~Busy
    /\ Alone /\ codecs[1].kind = "vorbis"
    /\ tags < MaxTags /\ More /\ tags' = tags + 1
    /\ vb' = [vb EXCEPT !.notify = TRUE]
    /\ UNCHANGED <<settings, codecs, chain, bosDone, sync, start, current, queue,
                   lst, history, streams, pages, moves>>

(* where a block is once the first of the queue has left *)
Before(i) == IF i = 0 THEN 0 ELSE i - 1

(* the oldest block leaves the queue; a listener there is let go of elsewhere *)
Prune ==
    /\ ~Busy
    /\ Len(queue) = QueueLen
    /\ lst.at # 1
    /\ queue' = Tail(queue)
    /\ lst' = [lst EXCEPT !.at = Before(@)]
    /\ start' = Before(start)
    /\ UNCHANGED <<settings, codecs, chain, bosDone, sync, vb, current, history, counts>>

---------------------------------------------------------------------------
(* the listener starts at a block that is marked for it *)
Join(i) ==
    /\ ~Busy
    /\ lst.at = 0
    /\ queue[i].sync
    /\ lst' = [lst EXCEPT !.at = i, !.done = FALSE]
    /\ UNCHANGED <<settings, source, queue, history, counts>>

Here == queue[lst.at]

Sending == ~Busy /\ lst.at # 0 /\ ~lst.done

WantsHeaders == lst.headers # Here.assoc

(* the start of send_ogg_headers: all of the chain, or what is left of it *)
Begun(l) ==
    IF l.sent \/ l.moved
    THEN [l EXCEPT !.moved = FALSE, !.from = Here.assoc, !.rest = Here.pages, !.sent = FALSE,
                   !.got = <<>>]
    ELSE l

(* one of the header pages, with more to go: the socket takes no more for now *)
SendHeaders ==
    /\ Sending
    /\ WantsHeaders
    /\ LET l == Begun(lst)
       IN  /\ Len(l.rest) > 1
           /\ lst' = [l EXCEPT !.got = Append(@, Head(l.rest)), !.rest = Tail(@)]
    /\ UNCHANGED <<settings, source, queue, history, counts>>

(* and the rest of them *)
Told(l) ==
    IF WantsHeaders
    THEN [l EXCEPT !.got = @ \o l.rest, !.rest = <<>>, !.sent = TRUE, !.headers = Here.assoc,
                   !.from = NoAddr]
    ELSE l

(* the pages give the stream of the block all its header packets *)
Fits(seq, b) == \A n \in 1 .. Need :
    \E j \in DOMAIN seq : seq[j].sid = b.sid /\ n \in seq[j].packets

(* what HeadersFit leaves out *)
Excused == Here.sid \in dropped \/ (~WantsHeaders /\ (reused \/ cut))

(* write_buf_to_client: any headers that are left, and the page *)
SendBlock ==
    /\ Sending
    /\ LET l == Told(IF WantsHeaders THEN Begun(lst) ELSE lst)
       IN  /\ lst' = [l EXCEPT !.done = TRUE]
           /\ unfit' = (unfit \/ ~(Fits(l.got, Here) \/ Excused))
    /\ reused' = (reused /\ ~WantsHeaders)
    /\ cut' = (cut /\ ~WantsHeaders)
    /\ UNCHANGED <<settings, source, queue, dropped, counts>>

Advance ==
    /\ ~Busy
    /\ lst.at # 0 /\ lst.done
    /\ lst.at < Len(queue)
    /\ lst' = [lst EXCEPT !.at = @ + 1, !.done = FALSE]
    /\ UNCHANGED <<settings, source, queue, history, counts>>

(* it leaves for another source, or waits for this one to come back *)
Move ==
    /\ ~Busy
    /\ lst.at # 0
    /\ moves < MaxMoves /\ More /\ moves' = moves + 1
    /\ lst' = [lst EXCEPT !.at = 0, !.done = FALSE, !.moved = TRUE]
    /\ cut' = (cut \/ ~lst.sent)
    /\ UNCHANGED <<settings, source, queue, unfit, reused, dropped, streams, pages, tags>>

(* the source ends, for a page that is no good among other things, and comes *)
(* back: format_ogg_free_plugin and a new one                                *)
Restart ==
    /\ ~Busy
    /\ lst.at = 0 /\ lst.moved
    /\ queue # <<>>
    /\ codecs' = <<>> /\ chain' = NoChain /\ bosDone' = FALSE /\ sync' = FALSE /\ start' = 0
    /\ vb' = NoVorbis /\ current' = "none"
    /\ queue' = <<>>
    /\ UNCHANGED <<settings, lst, history, counts>>

Next ==
    \/ \E k \in Kind, a \in Addr \cup {NoAddr} : BosPage(k, a)
    \/ \E i \in DOMAIN codecs, n \in PageHeaders, a \in Addr \cup {NoAddr} : HeaderPage(i, n, a)
    \/ \E i \in DOMAIN codecs, a \in Addr \cup {NoAddr} : VorbisHeader(i, a)
    \/ \E i \in DOMAIN codecs, a \in Addr \cup {NoAddr} : VorbisHeadersDone(i, a)
    \/ \E i \in DOMAIN codecs : DataPage(i)
    \/ \E i \in DOMAIN codecs, fresh \in BOOLEAN, key \in BOOLEAN : TheoraPage(i, fresh, key)
    \/ \E eos \in BOOLEAN : VorbisPage(eos)
    \/ \E a \in Addr \cup {NoAddr} : VorbisHeaders(a)
    \/ VorbisBlock
    \/ VorbisAudio
    \/ VorbisFinished
    \/ SetTag
    \/ Prune
    \/ \E i \in DOMAIN queue : Join(i)
    \/ SendHeaders
    \/ SendBlock
    \/ Advance
    \/ Move
    \/ Restart

Spec == Init /\ [][Next]_vars

---------------------------------------------------------------------------
TypeOK ==
    /\ chain.addr \in Addr \cup {NoAddr}
    /\ chain.bos \in 0 .. Len(chain.pages)
    /\ lst.at \in 0 .. Len(queue)
    /\ \A i \in DOMAIN queue : queue[i].assoc \in Addr

(* A listener is sent the headers of a stream, all of them, before it is sent a  *)
(* page of it, wherever it starts, through new groups, titles that are set and   *)
(* moves.  Excused are a chain at the address of the one it remembers, a move in *)
(* the middle of a chain and back to the chain before, and the first of two      *)
(* header pages of a Vorbis stream that is alone and passed on, which is lost.   *)
HeadersFit == ~unfit

(* A chain has the first page of every stream in front of all other pages, as an *)
(* Ogg stream must, though a Vorbis codec gives its own when it has the others.  *)
BosFirst ==
    \A p \in {chain.pages} \cup {queue[i].pages : i \in DOMAIN queue} :
        \A i, j \in DOMAIN p : i < j /\ 1 \in p[j].packets => 1 \in p[i].packets

(* The chain that a listener is sent pages of next is one that its block refers  *)
(* to, though it has no reference of its own: it may have been stopped in the    *)
(* middle of a chain, and moved to another block, since it was sent the last.    *)
ChainAlive == Sending /\ WantsHeaders => Begun(lst).from = Here.assoc

(* A listener of an Ogg stream has all headers of a stream before a page of it, first pages in *)
(* front, from a chain that is not freed under it, wherever it starts, is stopped or is moved. *)
HeadersFirst == TypeOK /\ HeadersFit /\ BosFirst /\ ChainAlive
=============================================================================
