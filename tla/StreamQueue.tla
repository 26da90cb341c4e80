---------------------------- MODULE StreamQueue ----------------------------
(***************************************************************************)
(* The stream queue of a source (source.c).  The source client appends     *)
(* blocks (refbuf_t) and prunes old ones under the write lock of the       *)
(* source; listeners walk along the queue under its read lock.  A listener *)
(* holds no reference on the block it points to: whether that block is     *)
(* still there it concludes from byte positions alone (source_queue_       *)
(* advance).  One step is one hold of source->lock.                        *)
(*                                                                         *)
(* A block is named by its number in the order of arrival and keeps the    *)
(* stream position of its first byte, so that properties can tell where a  *)
(* listener really is; the code has no such field.  The content a listener *)
(* is sent from memory of its own (response headers, an intro, the copy of *)
(* a block) is not followed byte by byte.                                  *)
(***************************************************************************)
EXTENDS Integers, Sequences

CONSTANTS
  Listener,     \* listeners of the mount
  Lens,         \* lengths of blocks
  Bursts,       \* initial bursts a listener can ask for, less what it was sent
  Sizes,        \* settings of the mount: burst-size, min-queue-size, queue-size
  Rate,         \* source->incoming_rate
  Slack,        \* 8000, "lets not be too tight to the limit"
  TrimLoop,     \* blocks pruned in one call at most
  ShrinkEvery,  \* 32, buffers between two looks for the oldest listener
  MaxBlocks     \* bound: blocks that arrive

Setting == [burst : Nat, min : Nat, limit : Nat]

ASSUME LensAssumption == Lens \subseteq Nat \ {0}
ASSUME BurstAssumption == Bursts \subseteq Nat
ASSUME SizesAssumption == Sizes \subseteq Setting
ASSUME TuningAssumption ==
  /\ Rate \in Nat /\ Slack \in Nat
  /\ TrimLoop \in Nat \ {0} /\ ShrinkEvery \in Nat \ {0}
  /\ MaxBlocks \in Nat

VARIABLES
  src,       \* the fields of source_t that make up the queue
  sizes,     \* min_queue_size and queue_size_limit
  running,   \* SOURCE_RUNNING
  lst        \* the fields of client_t of a listener

vars == <<src, sizes, running, lst>>

\* flags: SOURCE_BLOCK_SYNC, listeners can start with the block.
Block == [at : Nat, len : Nat \ {0}, flags : SUBSET {"SYNC"}]

\* blocks: all blocks so far, of which first..Len(blocks) are on the queue;
\* first: stream_data (0 for NULL); point, offset: min_queue_point and
\* min_queue_offset; size: queue_size; end: queue_pos of the source client;
\* shrinkTime: shrink_time (1 when it is set); shrinkPos: shrink_pos.  The two
\* counts are unsigned: below zero they would wrap.
Queue == [blocks : Seq(Block), first : Nat, point : Nat, offset : Nat,
          size : Nat, end : Nat, shrinkTime : 0..1, shrinkPos : Int]

\* mode: check_buffer; ref: the queue block that client->refbuf points to (0
\* for NULL and for a block of its own); at: queue_pos; flags:
\* CLIENT_HAS_INTRO_CONTENT.
Client == [mode : {"out", "intro", "queue", "dropped", "gone"}, ref : Nat,
           pos : Nat, at : Int, flags : SUBSET {"INTRO"}]

TypeOK ==
  /\ src \in Queue
  /\ sizes \in [min : Nat, limit : Nat]
  /\ running \in BOOLEAN
  /\ lst \in [Listener -> Client]

\* A client that is not on the mount.
Nobody == [mode |-> "out", ref |-> 0, pos |-> 0, at |-> 0, flags |-> {}]

\* source_init.
Init ==
  /\ src = [blocks |-> <<>>, first |-> 0, point |-> 0, offset |-> 0,
            size |-> 0, end |-> 0, shrinkTime |-> 0, shrinkPos |-> 0]
  /\ sizes = [min |-> 600000, limit |-> 200000000]
  /\ running = TRUE
  /\ lst = [l \in Listener |-> Nobody]

Last(q) == Len(q.blocks)

\* Bytes of the queue from block j, which comes at or after block i, up to
\* the end, given the bytes from block i.
BytesFrom(q, i, bytes, j) == bytes - (q.blocks[j].at - q.blocks[i].at)

-----------------------------------------------------------------------------
(* The source client.                                                      *)

\* What the format plugin makes of the incoming data.
NewBlock == [len : Lens, flags : SUBSET {"SYNC"}]

\* source_add_queue_buffer; every now and then it starts to look for the
\* position of the slowest listener.
source_add_queue_buffer(q, b) ==
  LET offset == q.offset + b.len
      end == q.end + b.len
      looks == /\ q.shrinkTime = 0
               /\ (Last(q) + 1) % ShrinkEvery = ShrinkEvery - 1
  IN  [blocks |-> Append(q.blocks, [at |-> q.end, len |-> b.len,
                                    flags |-> b.flags]),
       first |-> IF q.first = 0 THEN 1 ELSE q.first,
       point |-> IF q.point = 0 THEN 1 ELSE q.point,
       offset |-> offset,
       size |-> q.size + b.len,
       end |-> end,
       shrinkTime |-> IF looks THEN 1 ELSE q.shrinkTime,
       shrinkPos |-> IF looks THEN end - offset ELSE q.shrinkPos]

\* Block m is where new listeners may start: the last sync block with more
\* than min_queue_size bytes from it on, or the one it was before.
StartPoint(q, i) == /\ "SYNC" \in q.blocks[i].flags
                    /\ i < Last(q)
                    /\ BytesFrom(q, q.point, q.offset, i) > sizes.min

IsPoint(q, m) ==
  /\ m = q.point \/ StartPoint(q, m)
  /\ \A i \in m + 1..Last(q) : ~StartPoint(q, i)

MovePoint(q, m) ==
  [q EXCEPT !.point = m, !.offset = BytesFrom(q, q.point, q.offset, m)]

\* Mutant of Target: the range is not checked.
TargetUnchecked(q) ==
  Slack + (IF q.shrinkTime # 0 THEN q.end - q.shrinkPos ELSE 0)

\* The size that is aimed at: that of the slowest listener, when one was
\* looked for, unless it is out of range.
Target(q) ==
  LET t == IF q.shrinkTime # 0 THEN q.end - q.shrinkPos ELSE 0
  IN  Slack + (IF t < sizes.min \/ t > sizes.limit
                 THEN IF \E l \in Listener : lst[l].mode \in {"intro", "queue"}
                        THEN sizes.limit ELSE sizes.min
                 ELSE t)

\* Blocks are pruned up to k: the queue is small enough then, or has one
\* block left, or enough were pruned for now.
TooBig(q, i) == BytesFrom(q, q.first, q.size, i) > Target(q)

PrunedTo(q, k) ==
  /\ \A i \in q.first..k - 1 : TooBig(q, i)
  /\ ~TooBig(q, k) \/ k = Last(q) \/ k = q.first + TrimLoop

\* Mutant of Prune: min_queue_offset is left as it was.
PruneKeepsOffset(q, k) ==
  [q EXCEPT !.first = k,
            !.size = BytesFrom(q, q.first, q.size, k),
            !.point = IF @ < k THEN k ELSE @,
            !.shrinkTime = 0, !.shrinkPos = 0]

Prune(q, k) ==
  [blocks |-> q.blocks,
   first |-> k,
   point |-> IF q.point < k THEN k ELSE q.point,
   offset |-> IF q.point < k THEN BytesFrom(q, q.point, q.offset, k)
                             ELSE q.offset,
   size |-> BytesFrom(q, q.first, q.size, k),
   end |-> q.end,
   shrinkTime |-> 0,
   shrinkPos |-> 0]

\* The end of source_read, with p the queue after the start point was moved:
\* nothing is pruned before the listeners had 600 ms to show where they are.
Finish(p) ==
  \/ p.shrinkTime # 0 /\ src' = p
  \/ /\ p.shrinkTime # 0 => src.shrinkTime # 0
     /\ \E k \in p.first..Last(p) : PrunedTo(p, k) /\ src' = Prune(p, k)

\* source_read gets a block from the format plugin.
ReadBlock(b) ==
  /\ running
  /\ Last(src) < MaxBlocks
  /\ LET q == source_add_queue_buffer(src, b)
     IN  \E m \in q.point..Last(q) : IsPoint(q, m) /\ Finish(MovePoint(q, m))
  /\ UNCHANGED <<sizes, running, lst>>

\* There was something to read but no complete block.
ReadPart ==
  /\ running
  /\ src.first # 0
  /\ Finish(src)
  /\ UNCHANGED <<sizes, running, lst>>

\* The end of the stream: a last block is queued, or none.
ReadLast ==
  /\ running
  /\ \/ UNCHANGED src
     \/ \E b \in NewBlock : /\ Last(src) < MaxBlocks
                           /\ src' = source_add_queue_buffer(src, b)
  /\ running' = FALSE
  /\ UNCHANGED <<sizes, lst>>

\* update_source_stats, every few seconds in source_read.
update_source_stats(z) ==
  LET burst == IF z.burst > 50000000 THEN 100000 ELSE z.burst
      limit == IF z.limit > 1000000000 THEN 1000000 ELSE z.limit
      min == IF z.min > 50000000 \/ z.min < burst THEN burst ELSE z.min
  IN  [min |-> min,
       limit |-> IF min + 4 * Rate > limit THEN min + 4 * Rate ELSE limit]

UpdateSizes(z) ==
  /\ running
  /\ sizes' = update_source_stats(z)
  /\ UNCHANGED <<src, running, lst>>

-----------------------------------------------------------------------------
(* A listener is processed: send_listener and check_buffer.                *)

\* source_setup_listener.
AddListener(l) ==
  /\ running
  /\ lst[l].mode = "out"
  /\ lst' = [lst EXCEPT ![l] = [Nobody EXCEPT !.mode = "intro"]]
  /\ UNCHANGED <<src, sizes, running>>

Lag(s) == src.end - s.at

Least(a, b) == IF a < b THEN a ELSE b

\* Listener l ends up as s; while the source looks for the slowest listener,
\* send_listener makes itself known.
Settle(l, s) ==
  /\ lst' = [lst EXCEPT ![l] = s]
  /\ src' = IF src.shrinkTime # 0 /\ s.at < src.shrinkPos
              THEN [src EXCEPT !.shrinkPos =
                      src.end - Least(Lag(s), sizes.limit)]
              ELSE src

\* source_listener_release.
Release(l, mode) ==
  /\ lst' = [lst EXCEPT ![l] = [Nobody EXCEPT !.mode = mode]]
  /\ UNCHANGED src

\* Mutant of Fail: connection.error is not set.
FailKeeps(l) == UNCHANGED <<lst, src>>

\* The release of a listener that send_listener could not serve, in the same
\* hold of the lock.
Fail(l) == Release(l, "dropped")

\* locate_start_on_queue.  Block k is where the burst v begins, counted down
\* from min_queue_size (an unsigned count that, once it wraps, ends at the
\* last block).  The listener joins at the next sync block j.
BurstStart(v, k) ==
  LET Left(i) == BytesFrom(src, src.point, sizes.min, i)
      Stops(i) == i = Last(src) \/ (Left(i) >= 0 /\ Left(i) <= v)
  IN  IF v = 0 THEN k = Last(src)
               ELSE Stops(k) /\ \A i \in src.point..k - 1 : ~Stops(i)

SyncFrom(k, j) ==
  /\ "SYNC" \in src.blocks[j].flags
  /\ \A i \in k..j - 1 : "SYNC" \notin src.blocks[i].flags

\* The lag as the code works it out on the way to block j.
JoinLag(v, j) ==
  IF v = 0 THEN src.blocks[Last(src)].len
           ELSE BytesFrom(src, src.point, src.offset, j)

\* Mutant of Joined: CLIENT_HAS_INTRO_CONTENT is left set.
JoinedMarked(s, v, j) ==
  [mode |-> "queue", ref |-> j, pos |-> 0,
   at |-> src.end - JoinLag(v, j), flags |-> s.flags]

Joined(s, v, j) ==
  [mode |-> "queue", ref |-> j, pos |-> 0,
   at |-> src.end - JoinLag(v, j), flags |-> s.flags \ {"INTRO"}]

\* Mutant of TooFar: a block that was read to its end is taken to be there.
TooFarBlock(s) == Lag(s) > src.size

\* "has fallen too far behind".
TooFar(s) == Lag(s) > src.size \/ (Lag(s) = src.size /\ s.pos > 0)

\* The listener, at s on the queue, is really lagging and was sent a decent
\* amount of data: it is to start again, after the rest of its block, of which
\* it gets a copy.  (What it was sent and its "norequeue" are left open.)
Requeued(s) ==
  [s EXCEPT !.mode = "intro", !.ref = 0,
            !.flags = IF s.pos < src.blocks[s.ref].len
                        THEN @ \cup {"INTRO"} ELSE @,
            !.pos = IF s.pos < src.blocks[s.ref].len THEN @ ELSE 0]

\* Mutant of Sent: the offset in the block before is kept.
SentKeepsPos(s, k, p) ==
  [s EXCEPT !.ref = k, !.pos = IF k = s.ref THEN p ELSE s.pos,
            !.at = @ + (src.blocks[k].at + p)
                     - (src.blocks[s.ref].at + s.pos)]

\* The socket took all bytes up to offset p of block k; a block sent to its
\* end is left when there is another.
Sent(s, k, p) ==
  [s EXCEPT !.ref = k, !.pos = p,
            !.at = @ + (src.blocks[k].at + p)
                     - (src.blocks[s.ref].at + s.pos)]

CanSend(s, k, p) ==
  /\ k > s.ref \/ p >= s.pos
  /\ k = Last(src) \/ p < src.blocks[k].len

\* source_queue_advance from s, where the listener has a place on the queue.
Advance(l, s) ==
  \/ Lag(s) = 0 /\ Settle(l, s)
  \/ Lag(s) # 0 /\ TooFar(s) /\ Fail(l)
  \/ /\ Lag(s) # 0 /\ ~TooFar(s)
     /\ \/ Lag(s) + Rate > sizes.limit /\ Settle(l, Requeued(s))
        \/ \E k \in s.ref..Last(src) : \E p \in 0..src.blocks[k].len :
             CanSend(s, k, p) /\ (Settle(l, Sent(s, k, p)) \/ Fail(l))

\* http_source_introfile and what comes before it: content of its own is sent
\* to the listener, or cannot be sent.
SendIntro(l) ==
  /\ running
  /\ lst[l].mode = "intro"
  /\ Settle(l, lst[l]) \/ Fail(l)
  /\ UNCHANGED <<sizes, running>>

Unplaced(s) == s.mode = "intro" \/ (s.mode = "queue" /\ s.ref = 0)

\* No more content of its own: the listener joins the queue and goes on from
\* there in the same call.
Join(l) ==
  /\ running
  /\ Unplaced(lst[l])
  /\ src.first # 0
  /\ \E v \in Bursts : \E k, j \in src.point..Last(src) :
       /\ BurstStart(v, k) /\ j >= k /\ SyncFrom(k, j)
       /\ Advance(l, Joined(lst[l], v, j))
  /\ UNCHANGED <<sizes, running>>

\* There is no sync block to start from, it tries again later.
JoinFails(l) ==
  /\ running
  /\ Unplaced(lst[l])
  /\ src.first # 0
  /\ \E v \in Bursts, k \in src.point..Last(src) :
       BurstStart(v, k) /\ \A j \in k..Last(src) : "SYNC" \notin src.blocks[j].flags
  /\ Settle(l, [lst[l] EXCEPT !.mode = "queue", !.pos = 0])
  /\ UNCHANGED <<sizes, running>>

Send(l) ==
  /\ running
  /\ lst[l].mode = "queue"
  /\ lst[l].ref # 0
  /\ Advance(l, lst[l])
  /\ UNCHANGED <<sizes, running>>

\* The listener leaves without a look at the queue: its time is up, or the
\* source is in SOURCE_LISTENERS_SYNC (source_listener_release and
\* source_listener_detach, which look at the flags of client->refbuf).
Leave(l) ==
  /\ lst[l].mode \in {"intro", "queue"}
  /\ Release(l, "gone")
  /\ UNCHANGED <<sizes, running>>

-----------------------------------------------------------------------------
Visit(l) == SendIntro(l) \/ Join(l) \/ JoinFails(l) \/ Send(l)

Next ==
  \/ \E b \in NewBlock : ReadBlock(b)
  \/ ReadPart \/ ReadLast
  \/ \E z \in Sizes : UpdateSizes(z)
  \/ \E l \in Listener : AddListener(l) \/ Visit(l) \/ Leave(l)

Spec == Init /\ [][Next]_vars

\* A worker processes its listeners again and again; once the source has
\* ended they leave it.
FairSpec ==
  /\ Spec
  /\ \A l \in Listener : WF_vars(Visit(l)) /\ WF_vars(~running /\ Leave(l))

-----------------------------------------------------------------------------
(* Properties.                                                             *)

\* queue_size and min_queue_offset are the bytes from stream_data and from
\* min_queue_point to the end of the queue, and both blocks are on the queue,
\* however appending, moving the start point and pruning alternate.
QueueAccounted ==
  src.first # 0 =>
    /\ src.first \in 1..Last(src)
    /\ src.point \in src.first..Last(src)
    /\ src.size = src.end - src.blocks[src.first].at
    /\ src.offset = src.end - src.blocks[src.point].at

\* The position a listener accounts for is that of the byte it is sent next:
\* nothing is skipped or repeated from its start on the queue to its end.
PositionsAgree ==
  \A l \in Listener :
    lst[l].ref # 0 =>
      /\ lst[l].ref \in 1..Last(src)
      /\ lst[l].pos <= src.blocks[lst[l].ref].len
      /\ lst[l].at = src.blocks[lst[l].ref].at + lst[l].pos

\* Where the lag test of source_queue_advance lets a listener through, the
\* block it points to has not been pruned ("The lag check on the queue could
\* trigger a crash", NEWS).
SendsFromQueue ==
  \A l \in Listener :
    lst[l].ref # 0 /\ ~TooFar(lst[l]) => lst[l].ref >= src.first

\* The traps of source_queue_advance, abort() for a listener that is marked
\* to have content of its own, are not sprung.
NoTrap ==
  \A l \in Listener :
    lst[l].ref # 0 => lst[l].mode = "queue" /\ "INTRO" \notin lst[l].flags

\* Pruning leaves min_queue_size bytes but for what one block exceeds the
\* slack by, whatever the slowest listener was.
MinimumKept ==
  [][sizes' = sizes /\ src.size >= sizes.min =>
       \/ src'.size >= sizes.min
       \/ \E n \in Lens : src'.size + n > sizes.min + Slack]_vars

\* A listener that the queue was pruned away from is let go of.
BehindLetGo ==
  \A l \in Listener :
    lst[l].ref # 0 /\ lst[l].ref < src.first
      ~> lst[l].ref = 0 \/ lst[l].ref >= src.first
=============================================================================
