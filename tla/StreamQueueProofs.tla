------------------------- MODULE StreamQueueProofs -------------------------
(***************************************************************************)
(* Proofs about the stream queue, for any number of listeners, lengths of  *)
(* blocks and settings.  The inductive invariant says of the queue that    *)
(* blocks follow each other in stream order and end where the source       *)
(* client is (InOrder), and of a listener that its byte position is that   *)
(* of its place (Placed).  The lag test is right because of both: a block  *)
(* that was pruned ends at or before the first byte of the queue.          *)
(***************************************************************************)
EXTENDS StreamQueue, TLAPS

\* Blocks in stream order, the last of them ending at the end of the stream.
InOrder(q) ==
  /\ \A i, j \in 1..Last(q) :
       i < j => q.blocks[i].at + q.blocks[i].len <= q.blocks[j].at
  /\ \A i \in 1..Last(q) : q.blocks[i].at + q.blocks[i].len <= q.end
  /\ Last(q) # 0 => q.blocks[Last(q)].at + q.blocks[Last(q)].len = q.end

\* The counters of the queue are those of its blocks.
Accounted(q) ==
  IF Last(q) = 0
    THEN q.first = 0 /\ q.point = 0 /\ q.size = 0 /\ q.offset = 0 /\ q.end = 0
    ELSE /\ q.first \in 1..Last(q)
         /\ q.point \in q.first..Last(q)
         /\ q.size = q.end - q.blocks[q.first].at
         /\ q.offset = q.end - q.blocks[q.point].at

QueueOK(q) == q \in Queue /\ InOrder(q) /\ Accounted(q)

\* Listener s has the place on queue q that its position says.
Placed(q, s) ==
  s.ref # 0 => /\ s.ref \in 1..Last(q)
               /\ s.pos <= q.blocks[s.ref].len
               /\ s.at = q.blocks[s.ref].at + s.pos
               /\ s.mode = "queue"
               /\ "INTRO" \notin s.flags

IInv ==
  /\ TypeOK
  /\ QueueOK(src)
  /\ \A l \in Listener : Placed(src, lst[l])

USE DEF Last

-----------------------------------------------------------------------------
(* The queue.                                                              *)

\* A buffer more leaves the queue in order and the blocks before as they were
\* (source_add_queue_buffer).
LEMMA AddOK ==
  ASSUME NEW q, QueueOK(q), NEW b \in NewBlock
  PROVE  LET r == source_add_queue_buffer(q, b)
         IN  /\ QueueOK(r)
             /\ r.first # 0
             /\ Last(r) = Last(q) + 1
             /\ \A i \in 1..Last(q) : r.blocks[i] = q.blocks[i]
<1> DEFINE blk == [at |-> q.end, len |-> b.len, flags |-> b.flags]
           n == Len(q.blocks)
           bs == Append(q.blocks, blk)
           first == IF q.first = 0 THEN 1 ELSE q.first
           point == IF q.point = 0 THEN 1 ELSE q.point
           r == source_add_queue_buffer(q, b)
<1>1. /\ q \in Queue /\ InOrder(q) /\ Accounted(q)
      /\ q.blocks \in Seq(Block)
      /\ q.first \in Nat /\ q.point \in Nat /\ q.offset \in Nat
      /\ q.size \in Nat /\ q.end \in Nat
  BY DEF QueueOK, Queue
<1>2. b.len \in Nat \ {0} /\ b.flags \in SUBSET {"SYNC"}
  BY LensAssumption DEF NewBlock
<1>3. blk \in Block /\ blk.at = q.end /\ blk.len = b.len
  BY <1>1, <1>2 DEF Block
<1> HIDE DEF blk
<1>4. /\ bs \in Seq(Block)
      /\ Len(bs) = n + 1
      /\ bs[n + 1] = blk
      /\ \A i \in 1..n : bs[i] = q.blocks[i]
      /\ n \in Nat
      /\ \A i \in 1..n : q.blocks[i] \in Block
  BY <1>1, <1>3
<1>5. \A i \in 1..n : q.blocks[i].at \in Nat /\ q.blocks[i].len \in Nat
  BY <1>4 DEF Block
<1>6. first \in Nat /\ point \in Nat
  BY <1>1
<1> HIDE DEF bs, n, first, point
<1>7. /\ q.offset + b.len \in Nat /\ q.size + b.len \in Nat
      /\ q.end + b.len \in Nat
  BY <1>1, <1>2
<1>8. /\ r.blocks = bs /\ r.first = first /\ r.point = point
      /\ r.offset = q.offset + b.len /\ r.size = q.size + b.len
      /\ r.end = q.end + b.len
  BY DEF source_add_queue_buffer, bs, blk, first, point
<1>9. \E t \in 0..1, p \in Int :
        r = [blocks |-> bs, first |-> first, point |-> point,
             offset |-> q.offset + b.len, size |-> q.size + b.len,
             end |-> q.end + b.len, shrinkTime |-> t, shrinkPos |-> p]
  <2> DEFINE looks == /\ q.shrinkTime = 0
                      /\ (Last(q) + 1) % ShrinkEvery = ShrinkEvery - 1
             t == IF looks THEN 1 ELSE q.shrinkTime
             p == IF looks THEN (q.end + b.len) - (q.offset + b.len)
                           ELSE q.shrinkPos
  <2>1. q.shrinkTime \in 0..1 /\ q.shrinkPos \in Int
    BY <1>1 DEF Queue
  <2>2. t \in 0..1
    BY <2>1
  <2>3. p \in Int
    BY <2>1, <1>7
  <2>4. r = [blocks |-> bs, first |-> first, point |-> point,
             offset |-> q.offset + b.len, size |-> q.size + b.len,
             end |-> q.end + b.len, shrinkTime |-> t, shrinkPos |-> p]
    BY DEF source_add_queue_buffer, bs, blk, first, point
  <2> HIDE DEF t, p
  <2> QED
    BY <2>2, <2>3, <2>4
<1> HIDE DEF r
<1>10. r \in Queue
  BY <1>4, <1>6, <1>7, <1>9 DEF Queue
<1>11. InOrder(r)
  <2>1. \A i \in 1..n : q.blocks[i].at + q.blocks[i].len <= q.end
    BY <1>1 DEF InOrder, n
  <2>2. \A i, j \in 1..n :
          i < j => q.blocks[i].at + q.blocks[i].len <= q.blocks[j].at
    BY <1>1 DEF InOrder, n
  <2>3. \A i, j \in 1..n + 1 :
          i < j => bs[i].at + bs[i].len <= bs[j].at
    <3> TAKE i, j \in 1..n + 1
    <3> HAVE i < j
    <3>1. i \in 1..n /\ bs[i] = q.blocks[i]
      BY <1>4
    <3>2. CASE j = n + 1
      BY <3>1, <3>2, <2>1, <1>3, <1>4
    <3>3. CASE j \in 1..n
      BY <3>1, <3>3, <2>2, <1>4
    <3> QED
      BY <3>2, <3>3, <1>4
  <2>4. \A i \in 1..n + 1 : bs[i].at + bs[i].len <= q.end + b.len
    <3> TAKE i \in 1..n + 1
    <3>1. CASE i = n + 1
      BY <3>1, <1>1, <1>2, <1>3, <1>4
    <3>2. CASE i \in 1..n
      <4>1. bs[i] = q.blocks[i] /\ q.blocks[i].at + q.blocks[i].len <= q.end
        BY <3>2, <2>1, <1>4
      <4>2. bs[i].at \in Int /\ bs[i].len \in Int
        BY <4>1, <3>2, <1>5
      <4> DEFINE x == bs[i].at + bs[i].len
      <4>3. x \in Int /\ x <= q.end
        BY <4>1, <4>2
      <4>4. q.end \in Int /\ b.len \in Int /\ b.len >= 0
        BY <1>1, <1>2
      <4> HIDE DEF x
      <4>5. x <= q.end + b.len
        BY <4>3, <4>4
      <4> QED
        BY <4>5 DEF x
    <3> QED
      BY <3>1, <3>2, <1>4
  <2>5. bs[n + 1].at + bs[n + 1].len = q.end + b.len
    BY <1>3, <1>4
  <2> QED
    BY <2>3, <2>4, <2>5, <1>4, <1>8 DEF InOrder
<1>12. Accounted(r) /\ r.first # 0
  <2>1. CASE n = 0
    <3>1. /\ q.first = 0 /\ q.point = 0 /\ q.size = 0 /\ q.offset = 0
          /\ q.end = 0
      BY <2>1, <1>1 DEF Accounted, n
    <3>2. first = 1 /\ point = 1
      BY <3>1 DEF first, point
    <3>3. bs[1].at = 0 /\ Len(bs) = 1
      BY <2>1, <3>1, <1>3, <1>4
    <3>4. /\ r.first = 1 /\ r.point = 1 /\ Last(r) = 1 /\ r.blocks[1].at = 0
      BY <3>2, <3>3, <1>8
    <3>5. r.size = b.len /\ r.offset = b.len /\ r.end = b.len
      BY <3>1, <1>2, <1>8
    <3>6. r.size = r.end - 0 /\ r.offset = r.end - 0
      BY <3>5, <1>2
    <3> HIDE DEF Last
    <3> QED
      BY <3>4, <3>6 DEF Accounted
  <2>2. CASE n # 0
    <3>1. /\ q.first \in 1..n
          /\ q.point \in q.first..n
          /\ q.size = q.end - q.blocks[q.first].at
          /\ q.offset = q.end - q.blocks[q.point].at
      BY <2>2, <1>1 DEF Accounted, n
    <3>2. q.point \in 1..n
      BY <3>1, <1>4
    <3>3. first = q.first /\ point = q.point
      BY <3>1, <3>2 DEF first, point
    <3>4. bs[first].at = q.blocks[q.first].at
          /\ bs[point].at = q.blocks[q.point].at
      BY <3>1, <3>2, <3>3, <1>4
    <3>5. /\ r.size = r.end - bs[first].at
          /\ r.offset = r.end - bs[point].at
      <4>1. q.blocks[q.first].at \in Nat /\ q.blocks[q.point].at \in Nat
        BY <3>1, <3>2, <1>5
      <4>2. \A e, z, o, a, c, d \in Int :
              z = e - a /\ o = e - c => z + d = (e + d) - a /\ o + d = (e + d) - c
        OBVIOUS
      <4>3. b.len \in Int /\ q.end \in Int /\ q.size \in Int /\ q.offset \in Int
        BY <1>1, <1>2
      <4>4. /\ q.size + b.len = (q.end + b.len) - q.blocks[q.first].at
            /\ q.offset + b.len = (q.end + b.len) - q.blocks[q.point].at
        BY <4>1, <4>2, <4>3, <3>1
      <4> QED
        BY <4>4, <3>4, <1>8
    <3>6. first \in 1..n + 1 /\ point \in first..n + 1 /\ n + 1 # 0
      BY <3>1, <3>2, <3>3, <1>4
    <3> QED
      BY <3>5, <3>6, <1>4, <1>8 DEF Accounted
  <2> QED
    BY <2>1, <2>2
<1> QED
  BY <1>4, <1>8, <1>10, <1>11, <1>12 DEF QueueOK, n, r

\* What a queue with a block on it is made of.
LEMMA QueueFacts ==
  ASSUME NEW q, QueueOK(q), q.first # 0
  PROVE  /\ Last(q) \in Nat \ {0}
         /\ q.first \in 1..Last(q)
         /\ q.point \in 1..Last(q)
         /\ q.point >= q.first
         /\ q.size = q.end - q.blocks[q.first].at
         /\ q.offset = q.end - q.blocks[q.point].at
         /\ q.end \in Nat /\ q.size \in Nat /\ q.offset \in Nat
         /\ \A i \in 1..Last(q) :
              /\ q.blocks[i].at \in Nat /\ q.blocks[i].len \in Nat \ {0}
              /\ q.blocks[i].at + q.blocks[i].len <= q.end
              /\ q.blocks[i].at <= q.end
         /\ \A i, j \in 1..Last(q) :
              i < j => q.blocks[i].at + q.blocks[i].len <= q.blocks[j].at
         /\ q.blocks[Last(q)].at + q.blocks[Last(q)].len = q.end
<1>1. /\ q \in Queue /\ InOrder(q) /\ Accounted(q)
      /\ q.blocks \in Seq(Block)
      /\ q.end \in Nat /\ q.size \in Nat /\ q.offset \in Nat
  BY DEF QueueOK, Queue
<1>2. Last(q) \in Nat
  BY <1>1
<1>3. Last(q) # 0
  BY <1>1 DEF Accounted
<1>4. \A i \in 1..Last(q) : q.blocks[i] \in Block
  BY <1>1
<1>5. \A i \in 1..Last(q) :
        q.blocks[i].at \in Nat /\ q.blocks[i].len \in Nat \ {0}
  BY <1>4 DEF Block
<1>6. /\ q.first \in 1..Last(q)
      /\ q.point \in q.first..Last(q)
      /\ q.size = q.end - q.blocks[q.first].at
      /\ q.offset = q.end - q.blocks[q.point].at
  BY <1>1, <1>3 DEF Accounted
<1>7. q.point \in 1..Last(q) /\ q.point >= q.first
  BY <1>6, <1>2
<1>8. ASSUME NEW i \in 1..Last(q)
      PROVE  /\ q.blocks[i].at + q.blocks[i].len <= q.end
             /\ q.blocks[i].at <= q.end
  <2>1. q.blocks[i].at + q.blocks[i].len <= q.end
    BY <1>1 DEF InOrder
  <2>2. q.blocks[i].at \in Nat /\ q.blocks[i].len \in Nat
    BY <1>5
  <2> QED
    BY <2>1, <2>2, <1>1
<1> QED
  BY <1>1, <1>2, <1>3, <1>5, <1>6, <1>7, <1>8 DEF InOrder

\* Moving the start point on keeps the queue in order.
LEMMA MoveOK ==
  ASSUME NEW q, QueueOK(q), q.first # 0, NEW m \in q.point..Last(q)
  PROVE  /\ QueueOK(MovePoint(q, m))
         /\ MovePoint(q, m).blocks = q.blocks
         /\ MovePoint(q, m).first = q.first
<1> DEFINE r == MovePoint(q, m)
           off == BytesFrom(q, q.point, q.offset, m)
<1>1. q \in Queue /\ InOrder(q) /\ Accounted(q)
  BY DEF QueueOK
<1>2. /\ Last(q) \in Nat \ {0} /\ q.first \in 1..Last(q)
      /\ q.point \in 1..Last(q) /\ q.point >= q.first
      /\ q.offset = q.end - q.blocks[q.point].at
      /\ q.size = q.end - q.blocks[q.first].at
      /\ q.end \in Nat
      /\ \A i \in 1..Last(q) :
           q.blocks[i].at \in Nat /\ q.blocks[i].at <= q.end
  BY QueueFacts
<1>3. m \in 1..Last(q) /\ m >= q.first /\ m \in Nat
  BY <1>2
<1>4. q.blocks[m].at \in Nat /\ q.blocks[m].at <= q.end
  BY <1>2, <1>3
<1>5. off = q.end - q.blocks[m].at /\ off \in Nat
  <2>1. off = q.offset - (q.blocks[m].at - q.blocks[q.point].at)
    BY DEF BytesFrom
  <2>2. q.blocks[q.point].at \in Nat /\ q.blocks[q.point].at <= q.end
    BY <1>2
  <2>3. q.offset - (q.blocks[m].at - q.blocks[q.point].at) = q.end - q.blocks[m].at
    BY <1>2, <1>4, <2>2
  <2>4. q.end - q.blocks[m].at \in Nat
    BY <1>2, <1>4
  <2> HIDE DEF off
  <2> QED
    BY <2>1, <2>3, <2>4
<1>6. r = [q EXCEPT !.point = m, !.offset = off]
  BY DEF MovePoint
<1> HIDE DEF off, r
<1>7. /\ r \in Queue
      /\ r.blocks = q.blocks /\ r.first = q.first /\ r.point = m
      /\ r.offset = off /\ r.size = q.size /\ r.end = q.end
  BY <1>1, <1>3, <1>5, <1>6 DEF Queue
<1>8. InOrder(r)
  BY <1>1, <1>7 DEF InOrder
<1>9. Accounted(r)
  BY <1>2, <1>3, <1>5, <1>7 DEF Accounted
<1> QED
  BY <1>7, <1>8, <1>9 DEF QueueOK, r

\* Pruning keeps the queue in order, and blocks only leave at its head.
LEMMA PruneOK ==
  ASSUME NEW q, QueueOK(q), q.first # 0, NEW k \in q.first..Last(q)
  PROVE  /\ QueueOK(Prune(q, k))
         /\ Prune(q, k).blocks = q.blocks
         /\ Prune(q, k).first = k
<1> DEFINE r == Prune(q, k)
           size == BytesFrom(q, q.first, q.size, k)
           point == IF q.point < k THEN k ELSE q.point
           off == IF q.point < k THEN BytesFrom(q, q.point, q.offset, k)
                                 ELSE q.offset
<1>1. q \in Queue /\ InOrder(q) /\ Accounted(q)
  BY DEF QueueOK
<1>2. /\ Last(q) \in Nat \ {0} /\ q.first \in 1..Last(q)
      /\ q.point \in 1..Last(q) /\ q.point >= q.first
      /\ q.offset = q.end - q.blocks[q.point].at
      /\ q.size = q.end - q.blocks[q.first].at
      /\ q.end \in Nat
      /\ \A i \in 1..Last(q) :
           q.blocks[i].at \in Nat /\ q.blocks[i].at <= q.end
  BY QueueFacts
<1>3. k \in 1..Last(q) /\ k >= q.first /\ k \in Nat
  BY <1>2
<1>4. /\ q.blocks[k].at \in Nat /\ q.blocks[k].at <= q.end
      /\ q.blocks[q.point].at \in Nat /\ q.blocks[q.point].at <= q.end
      /\ q.blocks[q.first].at \in Nat
  BY <1>2, <1>3
<1>5. size = q.end - q.blocks[k].at /\ size \in Nat
  BY <1>2, <1>4 DEF BytesFrom
<1>6. /\ point \in 1..Last(q) /\ point >= k /\ point \in Nat
      /\ off = q.end - q.blocks[point].at /\ off \in Nat
  <2>1. CASE q.point < k
    <3>1. off = q.offset - (q.blocks[k].at - q.blocks[q.point].at)
      BY <2>1 DEF BytesFrom
    <3>2. point = k
      BY <2>1
    <3>3. q.offset - (q.blocks[k].at - q.blocks[q.point].at) = q.end - q.blocks[k].at
      BY <1>2, <1>4
    <3>4. q.end - q.blocks[k].at \in Nat
      BY <1>2, <1>4
    <3> HIDE DEF point, off
    <3> QED
      BY <3>1, <3>2, <3>3, <3>4, <1>3
  <2>2. CASE ~(q.point < k)
    <3>1. off = q.offset /\ point = q.point
      BY <2>2
    <3>2. q.offset = q.end - q.blocks[q.point].at /\ q.offset \in Nat
      BY <1>2, <1>4
    <3>3. q.point \in 1..Last(q) /\ q.point >= k /\ q.point \in Nat
      BY <2>2, <1>2, <1>3
    <3> HIDE DEF point, off
    <3> QED
      BY <3>1, <3>2, <3>3
  <2> QED
    BY <2>1, <2>2
<1>7. r = [blocks |-> q.blocks, first |-> k, point |-> point,
           offset |-> off, size |-> size, end |-> q.end,
           shrinkTime |-> 0, shrinkPos |-> 0]
  BY DEF Prune
<1> HIDE DEF size, point, off, r
<1>8. /\ r \in Queue
      /\ r.blocks = q.blocks /\ r.first = k /\ r.point = point
      /\ r.offset = off /\ r.size = size /\ r.end = q.end
  BY <1>1, <1>2, <1>3, <1>5, <1>6, <1>7 DEF Queue
<1>9. InOrder(r)
  BY <1>1, <1>8 DEF InOrder
<1>10. Accounted(r)
  BY <1>2, <1>3, <1>5, <1>6, <1>8 DEF Accounted
<1> QED
  BY <1>8, <1>9, <1>10 DEF QueueOK, r

-----------------------------------------------------------------------------
(* The listeners.                                                          *)

\* A listener that settles at a place of its own leaves the others where they
\* are (Settle).
LEMMA SettleOK ==
  ASSUME IInv, NEW l \in Listener, NEW s \in Client, Placed(src, s),
         Settle(l, s)
  PROVE  /\ QueueOK(src')
         /\ lst' \in [Listener -> Client]
         /\ \A m \in Listener : Placed(src', lst'[m])
<1>1. src \in Queue /\ InOrder(src) /\ Accounted(src)
      /\ lst \in [Listener -> Client]
  BY DEF IInv, TypeOK, QueueOK
<1>2. src.end - Least(Lag(s), sizes.limit) \in Int
  <2>1. src.end \in Int /\ s.at \in Int /\ sizes.limit \in Int
    BY <1>1 DEF IInv, TypeOK, Queue, Client
  <2> QED
    BY <2>1 DEF Least, Lag
<1> DEFINE p == src.end - Least(Lag(s), sizes.limit)
<1>3. src' = src \/ src' = [src EXCEPT !.shrinkPos = p]
  BY DEF Settle
<1>4. p \in Int
  BY <1>2
<1> HIDE DEF p
<1>5. /\ src' \in Queue
      /\ src'.blocks = src.blocks /\ src'.first = src.first
      /\ src'.point = src.point /\ src'.offset = src.offset
      /\ src'.size = src.size /\ src'.end = src.end
  BY <1>1, <1>3, <1>4 DEF Queue
<1>6. QueueOK(src')
  <2>1. InOrder(src')
    BY <1>1, <1>5 DEF InOrder
  <2>2. Accounted(src')
    BY <1>1, <1>5 DEF Accounted
  <2> QED
    BY <1>5, <2>1, <2>2 DEF QueueOK
<1>7. /\ lst' \in [Listener -> Client]
      /\ lst'[l] = s
      /\ \A m \in Listener : m # l => lst'[m] = lst[m]
  BY <1>1 DEF Settle
<1>8. \A m \in Listener : Placed(src, lst'[m])
  BY <1>7 DEF IInv
<1>9. \A m \in Listener : Placed(src', lst'[m])
  BY <1>5, <1>8 DEF Placed
<1> QED
  BY <1>6, <1>7, <1>9

\* A listener that is let go of has no place.
LEMMA ReleaseOK ==
  ASSUME IInv, NEW l \in Listener, NEW mode \in {"dropped", "gone"},
         Release(l, mode)
  PROVE  /\ QueueOK(src')
         /\ lst' \in [Listener -> Client]
         /\ \A m \in Listener : Placed(src', lst'[m])
<1> DEFINE s == [Nobody EXCEPT !.mode = mode]
<1>1. s \in Client /\ s.ref = 0
  BY DEF Nobody, Client
<1>2. lst' = [lst EXCEPT ![l] = s] /\ src' = src
  BY DEF Release
<1> HIDE DEF s
<1>3. /\ lst' \in [Listener -> Client]
      /\ \A m \in Listener : lst'[m] = s \/ lst'[m] = lst[m]
  BY <1>1, <1>2 DEF IInv, TypeOK
<1>4. \A m \in Listener : Placed(src, lst'[m])
  <2>1. Placed(src, s)
    BY <1>1 DEF Placed
  <2> QED
    BY <2>1, <1>3 DEF IInv
<1> QED
  BY <1>2, <1>3, <1>4 DEF IInv

\* Past the lag test the place of a listener is on the queue: a pruned block
\* ends at or before the head, so its reader lags by the whole queue or more,
\* and by just that only at the end of the block, where pos is not 0.
LEMMA LagTest ==
  ASSUME NEW s \in Client, QueueOK(src), Placed(src, s), s.ref # 0, ~TooFar(s)
  PROVE  s.ref >= src.first
<1>1. SUFFICES ASSUME s.ref < src.first PROVE FALSE
  <2>1. s.ref \in Nat /\ src.first \in Nat
    BY DEF QueueOK, Queue, Client
  <2> QED
    BY <2>1
<1>2. src.first # 0 /\ s.ref \in 1..Last(src)
  BY <1>1 DEF QueueOK, Queue, Client, Placed
<1>3. /\ src.first \in 1..Last(src)
      /\ src.size = src.end - src.blocks[src.first].at
      /\ src.end \in Nat
      /\ src.blocks[s.ref].at \in Nat /\ src.blocks[s.ref].len \in Nat \ {0}
      /\ src.blocks[src.first].at \in Nat
      /\ src.blocks[s.ref].at + src.blocks[s.ref].len
           <= src.blocks[src.first].at
  BY <1>1, <1>2, QueueFacts
<1>4. /\ s.at = src.blocks[s.ref].at + s.pos
      /\ s.pos <= src.blocks[s.ref].len /\ s.pos \in Nat
  BY DEF Placed, Client
<1>5. ~(src.end - s.at > src.size)
      /\ ~(src.end - s.at = src.size /\ s.pos > 0)
  BY DEF TooFar, Lag
<1>6. \A end, size, head, at, len, pos \in Int :
        /\ size = end - head /\ at + len <= head /\ len # 0
        /\ 0 <= pos /\ pos <= len
        => \/ end - (at + pos) > size
           \/ end - (at + pos) = size /\ pos > 0
  OBVIOUS
<1>7. src.size \in Int
  BY <1>3
<1> HIDE DEF Last
<1> QED
  BY <1>3, <1>4, <1>5, <1>6, <1>7

\* source_queue_advance keeps every listener at the place it accounts for.
LEMMA AdvanceOK ==
  ASSUME IInv, NEW l \in Listener, NEW s \in Client, Placed(src, s),
         s.ref # 0, Advance(l, s)
  PROVE  /\ QueueOK(src')
         /\ lst' \in [Listener -> Client]
         /\ \A m \in Listener : Placed(src', lst'[m])
<1>1. CASE Settle(l, s)
  BY <1>1, SettleOK
<1>2. CASE Fail(l)
  BY <1>2, ReleaseOK DEF Fail
<1>3. CASE Settle(l, Requeued(s))
  <2>1. Requeued(s) \in Client /\ Requeued(s).ref = 0
    BY DEF Requeued, Client
  <2>2. Placed(src, Requeued(s))
    BY <2>1 DEF Placed
  <2> QED
    BY <1>3, <2>1, <2>2, SettleOK
<1>4. ASSUME NEW k \in s.ref..Last(src), NEW p \in 0..src.blocks[k].len,
             Settle(l, Sent(s, k, p))
      PROVE  /\ QueueOK(src')
             /\ lst' \in [Listener -> Client]
             /\ \A m \in Listener : Placed(src', lst'[m])
  <2>1. src.first # 0
    BY DEF IInv, QueueOK, Accounted, Placed
  <2>2. /\ s.ref \in 1..Last(src) /\ s.pos \in Nat
        /\ s.at = src.blocks[s.ref].at + s.pos
        /\ s.mode = "queue" /\ "INTRO" \notin s.flags
    BY DEF Placed, Client
  <2>3. k \in 1..Last(src) /\ k \in Nat /\ k # 0
    BY <2>2
  <2>4. /\ src.blocks[k].at \in Nat /\ src.blocks[k].len \in Nat
        /\ src.blocks[s.ref].at \in Nat
    BY <2>1, <2>2, <2>3, QueueFacts DEF IInv
  <2> DEFINE at == s.at + (src.blocks[k].at + p)
                     - (src.blocks[s.ref].at + s.pos)
  <2>5. at = src.blocks[k].at + p /\ at \in Int /\ p \in Nat
        /\ p <= src.blocks[k].len
    <3>1. p \in Nat /\ p <= src.blocks[k].len
      BY <2>4
    <3> DEFINE x == src.blocks[s.ref].at + s.pos
               y == src.blocks[k].at + p
    <3>2. x \in Int /\ y \in Int
      BY <2>2, <2>4, <3>1
    <3>3. at = x + y - x
      BY <2>2
    <3> HIDE DEF x, y
    <3>4. x + y - x = y
      BY <3>2
    <3>5. at = y
      BY <3>3, <3>4
    <3> QED
      BY <3>1, <3>2, <3>5 DEF y
  <2>6. Sent(s, k, p) = [s EXCEPT !.ref = k, !.pos = p, !.at = at]
    BY DEF Sent
  <2> HIDE DEF at
  <2>7. /\ Sent(s, k, p) \in Client
        /\ Sent(s, k, p).ref = k /\ Sent(s, k, p).pos = p
        /\ Sent(s, k, p).at = at /\ Sent(s, k, p).mode = s.mode
        /\ Sent(s, k, p).flags = s.flags
    BY <2>3, <2>5, <2>6 DEF Client
  <2>8. Placed(src, Sent(s, k, p))
    BY <2>2, <2>3, <2>5, <2>7 DEF Placed
  <2> QED
    BY <1>4, <2>7, <2>8, SettleOK
<1> QED
  BY <1>1, <1>2, <1>3, <1>4 DEF Advance

\* A listener joins at the place that its lag says (locate_start_on_queue).
LEMMA JoinedOK ==
  ASSUME IInv, src.first # 0, NEW s \in Client, NEW v \in Bursts,
         NEW k \in src.point..Last(src), NEW j \in src.point..Last(src),
         BurstStart(v, k), j >= k
  PROVE  /\ Joined(s, v, j) \in Client
         /\ Placed(src, Joined(s, v, j))
         /\ Joined(s, v, j).ref # 0
<1>1. /\ Last(src) \in Nat \ {0}
      /\ src.point \in 1..Last(src)
      /\ src.offset = src.end - src.blocks[src.point].at
      /\ src.end \in Nat
      /\ \A i \in 1..Last(src) :
           src.blocks[i].at \in Nat /\ src.blocks[i].len \in Nat \ {0}
      /\ src.blocks[Last(src)].at + src.blocks[Last(src)].len = src.end
  BY QueueFacts DEF IInv
<1>2. j \in 1..Last(src) /\ j \in Nat /\ j # 0
  BY <1>1
<1>3. /\ src.blocks[j].at \in Nat /\ src.blocks[j].len \in Nat \ {0}
      /\ src.blocks[src.point].at \in Nat
      /\ src.blocks[Last(src)].at \in Nat /\ src.blocks[Last(src)].len \in Nat
  BY <1>1, <1>2
<1>4. v = 0 => j = Last(src)
  <2>1. v = 0 => k = Last(src)
    BY DEF BurstStart
  <2> QED
    BY <2>1, <1>1, <1>2
<1> DEFINE at == src.end - JoinLag(v, j)
<1>5. at = src.blocks[j].at /\ at \in Int
  <2>1. CASE v = 0
    BY <2>1, <1>1, <1>3, <1>4 DEF JoinLag
  <2>2. CASE v # 0
    <3>1. \A e, o, a, c \in Int : o = e - c => e - (o - (a - c)) = a
      OBVIOUS
    <3>2. at = src.end - (src.offset - (src.blocks[j].at
                                         - src.blocks[src.point].at))
      BY <2>2 DEF JoinLag, BytesFrom
    <3>3. src.offset \in Int /\ src.end \in Int
      BY <1>1, <1>3
    <3>4. /\ src.offset = src.end - src.blocks[src.point].at
          /\ src.blocks[j].at \in Int /\ src.blocks[src.point].at \in Int
      BY <1>1, <1>3
    <3>5. src.end - (src.offset - (src.blocks[j].at
                                     - src.blocks[src.point].at))
            = src.blocks[j].at
      BY <3>1, <3>3, <3>4
    <3> HIDE DEF at
    <3> QED
      BY <3>2, <3>4, <3>5
  <2> QED
    BY <2>1, <2>2
<1>6. Joined(s, v, j) = [mode |-> "queue", ref |-> j, pos |-> 0, at |-> at,
                         flags |-> s.flags \ {"INTRO"}]
  BY DEF Joined
<1> HIDE DEF at
<1>7. s.flags \ {"INTRO"} \in SUBSET {"INTRO"}
  BY DEF Client
<1>8. /\ Joined(s, v, j) \in Client
      /\ Joined(s, v, j).ref = j /\ Joined(s, v, j).pos = 0
      /\ Joined(s, v, j).at = at /\ Joined(s, v, j).mode = "queue"
      /\ Joined(s, v, j).flags = s.flags \ {"INTRO"}
  BY <1>2, <1>5, <1>6, <1>7 DEF Client
<1>9. Placed(src, Joined(s, v, j))
  BY <1>2, <1>3, <1>5, <1>8 DEF Placed
<1> QED
  BY <1>2, <1>8, <1>9

\* The source goes on: blocks that are known stay as they are, so the
\* listeners keep their places.
LEMMA ReadKeeps ==
  ASSUME IInv, NEW q, QueueOK(q), Last(q) >= Last(src),
         \A i \in 1..Last(src) : q.blocks[i] = src.blocks[i]
  PROVE  \A l \in Listener : Placed(q, lst[l])
<1>1. Last(q) \in Nat /\ Last(src) \in Nat
  BY DEF IInv, QueueOK, Queue
<1>2. \A i \in 1..Last(src) : i \in 1..Last(q)
  BY <1>1
<1> QED
  BY <1>2 DEF IInv, Placed

\* The end of source_read keeps the queue in order.
LEMMA FinishOK ==
  ASSUME NEW p, QueueOK(p), p.first # 0, Finish(p)
  PROVE  QueueOK(src') /\ src'.blocks = p.blocks
<1>1. CASE src' = p
  BY <1>1
<1>2. ASSUME NEW k \in p.first..Last(p), src' = Prune(p, k)
      PROVE  QueueOK(src') /\ src'.blocks = p.blocks
  BY <1>2, PruneOK
<1> QED
  BY <1>1, <1>2 DEF Finish

-----------------------------------------------------------------------------
\* Every step keeps the inductive invariant.
LEMMA Inductive == IInv /\ [Next]_vars => IInv'
<1> SUFFICES ASSUME IInv, [Next]_vars PROVE IInv'
  OBVIOUS
<1>1. /\ TypeOK /\ QueueOK(src) /\ lst \in [Listener -> Client]
      /\ \A l \in Listener : Placed(src, lst[l])
      /\ sizes \in [min : Nat, limit : Nat] /\ running \in BOOLEAN
  BY DEF IInv, TypeOK
<1>2. ASSUME NEW b \in NewBlock, ReadBlock(b)
      PROVE  IInv'
  <2> DEFINE q == source_add_queue_buffer(src, b)
  <2>1. /\ QueueOK(q) /\ q.first # 0 /\ Last(q) = Last(src) + 1
        /\ \A i \in 1..Last(src) : q.blocks[i] = src.blocks[i]
    BY <1>1, AddOK
  <2>2. PICK m \in q.point..Last(q) : Finish(MovePoint(q, m))
    BY <1>2 DEF ReadBlock
  <2> HIDE DEF q
  <2>3. /\ QueueOK(MovePoint(q, m)) /\ MovePoint(q, m).first # 0
        /\ MovePoint(q, m).blocks = q.blocks
    BY <2>1, MoveOK
  <2>4. QueueOK(src') /\ src'.blocks = q.blocks
    BY <2>2, <2>3, FinishOK
  <2>5. Last(src) \in Nat
    BY <1>1 DEF QueueOK, Queue
  <2>6. \A l \in Listener : Placed(src', lst[l])
    BY <2>1, <2>4, <2>5, ReadKeeps
  <2> QED
    BY <1>1, <1>2, <2>4, <2>6 DEF IInv, TypeOK, QueueOK, ReadBlock
<1>3. CASE ReadPart
  <2>1. QueueOK(src') /\ src'.blocks = src.blocks
    BY <1>1, <1>3, FinishOK DEF ReadPart
  <2>2. \A l \in Listener : Placed(src', lst[l])
    BY <1>1, <2>1 DEF Placed
  <2> QED
    BY <1>1, <1>3, <2>1, <2>2 DEF IInv, TypeOK, QueueOK, ReadPart
<1>4. CASE ReadLast
  <2>1. CASE UNCHANGED src
    BY <1>1, <1>4, <2>1 DEF IInv, TypeOK, QueueOK, ReadLast
  <2>2. ASSUME NEW b \in NewBlock, src' = source_add_queue_buffer(src, b)
        PROVE  IInv'
    <3> DEFINE q == source_add_queue_buffer(src, b)
    <3>1. /\ QueueOK(q) /\ Last(q) = Last(src) + 1
          /\ \A i \in 1..Last(src) : q.blocks[i] = src.blocks[i]
      BY <1>1, AddOK
    <3>2. Last(src) \in Nat
      BY <1>1 DEF QueueOK, Queue
    <3>3. src' = q
      BY <2>2
    <3> HIDE DEF q
    <3>4. \A l \in Listener : Placed(q, lst[l])
      BY <3>1, <3>2, ReadKeeps
    <3> QED
      BY <1>1, <1>4, <3>1, <3>3, <3>4 DEF IInv, TypeOK, QueueOK, ReadLast
  <2> QED
    BY <1>4, <2>1, <2>2 DEF ReadLast
<1>5. ASSUME NEW z \in Sizes, UpdateSizes(z)
      PROVE  IInv'
  <2>1. z.burst \in Nat /\ z.min \in Nat /\ z.limit \in Nat
    BY SizesAssumption DEF Setting
  <2>2. update_source_stats(z) \in [min : Nat, limit : Nat]
    BY <2>1, TuningAssumption DEF update_source_stats
  <2> QED
    BY <1>1, <1>5, <2>2 DEF IInv, TypeOK, QueueOK, UpdateSizes
<1>6. ASSUME NEW l \in Listener, AddListener(l)
      PROVE  IInv'
  <2> DEFINE s == [Nobody EXCEPT !.mode = "intro"]
  <2>1. s \in Client /\ s.ref = 0
    BY DEF Nobody, Client
  <2>2. lst' = [lst EXCEPT ![l] = s] /\ UNCHANGED <<src, sizes, running>>
    BY <1>6 DEF AddListener
  <2> HIDE DEF s
  <2>3. lst' \in [Listener -> Client]
    BY <1>1, <2>1, <2>2
  <2>4. \A m \in Listener : lst'[m] = s \/ lst'[m] = lst[m]
    BY <1>1, <2>2
  <2>5. Placed(src, s)
    BY <2>1 DEF Placed
  <2>6. \A m \in Listener : Placed(src, lst'[m])
    BY <1>1, <2>4, <2>5
  <2> QED
    BY <1>1, <2>2, <2>3, <2>6 DEF IInv, TypeOK, QueueOK
<1>7. ASSUME NEW l \in Listener, Visit(l) \/ Leave(l)
      PROVE  IInv'
  <2> DEFINE Kept == /\ QueueOK(src')
                     /\ lst' \in [Listener -> Client]
                     /\ \A m \in Listener : Placed(src', lst'[m])
  <2>1. lst[l] \in Client /\ Placed(src, lst[l])
    BY <1>1
  <2>2. CASE SendIntro(l)
    <3>1. ASSUME Settle(l, lst[l]) PROVE Kept
      BY <2>1, <3>1, SettleOK
    <3>2. ASSUME Fail(l) PROVE Kept
      BY <3>2, ReleaseOK DEF Fail
    <3>3. Kept
      BY <2>2, <3>1, <3>2 DEF SendIntro
    <3> QED
      BY <1>1, <2>2, <3>3 DEF IInv, TypeOK, QueueOK, SendIntro
  <2>3. CASE Join(l)
    <3>1. PICK v \in Bursts, k \in src.point..Last(src),
               j \in src.point..Last(src) :
            BurstStart(v, k) /\ j >= k /\ Advance(l, Joined(lst[l], v, j))
      BY <2>3 DEF Join
    <3>2. src.first # 0
      BY <2>3 DEF Join
    <3>3. /\ Joined(lst[l], v, j) \in Client
          /\ Placed(src, Joined(lst[l], v, j))
          /\ Joined(lst[l], v, j).ref # 0
      BY <2>1, <3>1, <3>2, JoinedOK
    <3>4. Kept
      BY <3>1, <3>3, AdvanceOK
    <3> QED
      BY <1>1, <2>3, <3>4 DEF IInv, TypeOK, QueueOK, Join
  <2>4. CASE JoinFails(l)
    <3> DEFINE s == [lst[l] EXCEPT !.mode = "queue", !.pos = 0]
    <3>1. s \in Client /\ s.ref = lst[l].ref
      BY <2>1 DEF Client
    <3>2. s.ref = 0
      BY <2>1, <2>4, <3>1 DEF JoinFails, Unplaced, Placed
    <3>3. Settle(l, s)
      BY <2>4 DEF JoinFails
    <3> HIDE DEF s
    <3>4. Placed(src, s)
      BY <3>2 DEF Placed
    <3>5. Kept
      BY <3>1, <3>3, <3>4, SettleOK
    <3> QED
      BY <1>1, <2>4, <3>5 DEF IInv, TypeOK, QueueOK, JoinFails
  <2>5. CASE Send(l)
    <3>1. Kept
      BY <2>1, <2>5, AdvanceOK DEF Send
    <3> QED
      BY <1>1, <2>5, <3>1 DEF IInv, TypeOK, QueueOK, Send
  <2>6. CASE Leave(l)
    <3>1. Kept
      BY <2>6, ReleaseOK DEF Leave
    <3> QED
      BY <1>1, <2>6, <3>1 DEF IInv, TypeOK, QueueOK, Leave
  <2> QED
    BY <1>7, <2>2, <2>3, <2>4, <2>5, <2>6 DEF Visit
<1>8. CASE UNCHANGED vars
  BY <1>1, <1>8 DEF IInv, TypeOK, QueueOK, InOrder, Accounted, Placed, vars
<1> QED
  BY <1>2, <1>3, <1>4, <1>5, <1>6, <1>7, <1>8 DEF Next

\* The empty queue of source_init.
LEMMA Start == Init => IInv
<1> SUFFICES ASSUME Init PROVE IInv
  OBVIOUS
<1>1. /\ src.blocks = <<>> /\ src.first = 0 /\ src.point = 0
      /\ src.offset = 0 /\ src.size = 0 /\ src.end = 0
  BY DEF Init
<1>2. src \in Queue /\ Last(src) = 0
  BY DEF Init, Queue
<1>3. Nobody \in Client /\ Nobody.ref = 0
  BY DEF Nobody, Client
<1>4. /\ lst \in [Listener -> Client]
      /\ \A l \in Listener : lst[l] = Nobody
  BY <1>3 DEF Init
<1>5. QueueOK(src)
  BY <1>1, <1>2 DEF QueueOK, InOrder, Accounted
<1>6. \A l \in Listener : Placed(src, lst[l])
  BY <1>3, <1>4 DEF Placed
<1>7. sizes \in [min : Nat, limit : Nat] /\ running \in BOOLEAN
  BY DEF Init
<1> QED
  BY <1>2, <1>4, <1>5, <1>6, <1>7 DEF IInv, TypeOK

\* What the properties say follows from the inductive invariant.
LEMMA Consequences ==
  IInv => TypeOK /\ QueueAccounted /\ PositionsAgree /\ NoTrap /\ SendsFromQueue
<1> SUFFICES ASSUME IInv
             PROVE  TypeOK /\ QueueAccounted /\ PositionsAgree /\ NoTrap
                    /\ SendsFromQueue
  OBVIOUS
<1>1. QueueAccounted
  BY QueueFacts DEF IInv, QueueAccounted
<1>2. PositionsAgree
  BY DEF IInv, PositionsAgree, Placed
<1>3. NoTrap
  BY DEF IInv, NoTrap, Placed
<1>4. SendsFromQueue
  BY LagTest DEF IInv, TypeOK, SendsFromQueue
<1> QED
  BY <1>1, <1>2, <1>3, <1>4 DEF IInv

\* The inductive invariant holds throughout.
LEMMA Invariant == Spec => []IInv
<1> QED
  BY Start, Inductive, PTL DEF Spec

\* The fields have their types; queue_size and min_queue_offset never fall
\* below zero.
THEOREM TypeCorrect == Spec => []TypeOK
<1> QED
  BY Invariant, Consequences, PTL

\* The counters of the queue are those of its blocks.
THEOREM AccountingCorrect == Spec => []QueueAccounted
<1> QED
  BY Invariant, Consequences, PTL

\* A listener is sent every byte from where it joined, once.
THEOREM PositionsCorrect == Spec => []PositionsAgree
<1> QED
  BY Invariant, Consequences, PTL

\* The lag test never lets a listener through to a pruned block.
THEOREM LagTestCorrect == Spec => []SendsFromQueue
<1> QED
  BY Invariant, Consequences, PTL

\* The abort() traps of source_queue_advance are unreachable.
THEOREM TrapsCorrect == Spec => []NoTrap
<1> QED
  BY Invariant, Consequences, PTL
-----------------------------------------------------------------------------
(* What pruning leaves.  One block less is one block's length less only     *)
(* because blocks follow each other without a gap, and the target is at     *)
(* least the minimum only because the limit never is below it.              *)

\* Blocks without a gap between them, of lengths the format plugin makes.
Chained(bs) ==
  /\ \A i \in 1..Len(bs) : bs[i].len \in Lens
  /\ \A i, j \in 1..Len(bs) : j = i + 1 => bs[j].at = bs[i].at + bs[i].len

SizesOrdered == sizes.min <= sizes.limit

MInv == IInv /\ Chained(src.blocks) /\ SizesOrdered

\* A buffer more follows the last one without a gap.
LEMMA AddChained ==
  ASSUME NEW q, QueueOK(q), Chained(q.blocks), NEW b \in NewBlock
  PROVE  Chained(source_add_queue_buffer(q, b).blocks)
<1> DEFINE blk == [at |-> q.end, len |-> b.len, flags |-> b.flags]
           n == Len(q.blocks)
           bs == Append(q.blocks, blk)
<1>1. /\ q.blocks \in Seq(Block) /\ InOrder(q) /\ Accounted(q)
      /\ q.end \in Nat
  BY DEF QueueOK, Queue
<1>2. b.len \in Lens /\ b.len \in Nat \ {0} /\ b.flags \in SUBSET {"SYNC"}
  BY LensAssumption DEF NewBlock
<1>3. blk \in Block /\ blk.at = q.end /\ blk.len = b.len
  BY <1>1, <1>2 DEF Block
<1> HIDE DEF blk
<1>4. /\ Len(bs) = n + 1
      /\ bs[n + 1] = blk
      /\ \A i \in 1..n : bs[i] = q.blocks[i]
      /\ n \in Nat
  BY <1>1, <1>3
<1>5. n # 0 => q.blocks[n].at + q.blocks[n].len = q.end
  BY <1>1 DEF InOrder, n
<1>6. source_add_queue_buffer(q, b).blocks = bs
  BY DEF source_add_queue_buffer, bs, blk
<1> HIDE DEF bs
<1>7. \A i \in 1..n + 1 : bs[i].len \in Lens
  <2> TAKE i \in 1..n + 1
  <2>1. CASE i = n + 1
    BY <2>1, <1>2, <1>3, <1>4
  <2>2. CASE i \in 1..n
    BY <2>2, <1>4 DEF Chained
  <2> QED
    BY <2>1, <2>2, <1>4
<1>8. ASSUME NEW i \in 1..n + 1, NEW j \in 1..n + 1, j = i + 1
      PROVE  bs[j].at = bs[i].at + bs[i].len
  <2>1. i \in 1..n /\ bs[i] = q.blocks[i]
    BY <1>4, <1>8
  <2>2. CASE j = n + 1
    <3>1. i = n
      BY <2>2, <1>4, <1>8
    <3> QED
      BY <3>1, <2>1, <2>2, <1>3, <1>4, <1>5
  <2>3. CASE j \in 1..n
    BY <2>1, <2>3, <1>4, <1>8 DEF Chained
  <2> QED
    BY <2>2, <2>3, <1>4
<1> QED
  BY <1>4, <1>6, <1>7, <1>8 DEF Chained

\* What a listener does leaves the blocks and queue_size alone.
LEMMA ListenerLeaves ==
  ASSUME IInv, NEW l \in Listener, Visit(l) \/ Leave(l) \/ AddListener(l)
  PROVE  src'.blocks = src.blocks /\ src'.size = src.size /\ sizes' = sizes
<1> DEFINE Kept == src'.blocks = src.blocks /\ src'.size = src.size
<1>1. ASSUME NEW s, Settle(l, s) PROVE Kept
  <2>1. src \in Queue
    BY DEF IInv, QueueOK
  <2> DEFINE p == src.end - Least(Lag(s), sizes.limit)
  <2>2. src' = src \/ src' = [src EXCEPT !.shrinkPos = p]
    BY <1>1 DEF Settle
  <2> HIDE DEF p
  <2> QED
    BY <2>1, <2>2 DEF Queue
<1>2. ASSUME NEW mode, Release(l, mode) PROVE Kept
  BY <1>2 DEF Release
<1>3. ASSUME NEW s, Advance(l, s) PROVE Kept
  BY <1>1, <1>2, <1>3 DEF Advance, Fail
<1> HIDE DEF Kept
<1>4. CASE SendIntro(l)
  BY <1>1, <1>2, <1>4 DEF SendIntro, Fail, Kept
<1>5. CASE Join(l)
  BY <1>3, <1>5 DEF Join, Kept
<1>6. CASE JoinFails(l)
  BY <1>1, <1>6 DEF JoinFails, Kept
<1>7. CASE Send(l)
  BY <1>3, <1>7 DEF Send, Kept
<1>8. CASE Leave(l)
  BY <1>2, <1>8 DEF Leave, Kept
<1>9. CASE AddListener(l)
  BY <1>9 DEF AddListener
<1> QED
  BY <1>4, <1>5, <1>6, <1>7, <1>8, <1>9 DEF Visit
\* What a step of the source client leaves: the blocks it had and at most one
\* more.
LEMMA SourceSteps ==
  ASSUME IInv, Chained(src.blocks),
         ReadPart \/ ReadLast \/ \E b \in NewBlock : ReadBlock(b)
  PROVE  Chained(src'.blocks)
<1>1. QueueOK(src)
  BY DEF IInv
<1>2. ASSUME NEW b \in NewBlock, ReadBlock(b)
      PROVE  Chained(src'.blocks)
  <2> DEFINE q == source_add_queue_buffer(src, b)
  <2>1. QueueOK(q) /\ q.first # 0 /\ Chained(q.blocks)
    BY <1>1, AddOK, AddChained
  <2>2. PICK m \in q.point..Last(q) : Finish(MovePoint(q, m))
    BY <1>2 DEF ReadBlock
  <2> HIDE DEF q
  <2>3. /\ QueueOK(MovePoint(q, m)) /\ MovePoint(q, m).first # 0
        /\ MovePoint(q, m).blocks = q.blocks
    BY <2>1, MoveOK
  <2> QED
    BY <2>1, <2>2, <2>3, FinishOK
<1>3. CASE ReadPart
  BY <1>1, <1>3, FinishOK DEF ReadPart
<1>4. CASE ReadLast
  BY <1>1, <1>4, AddChained DEF ReadLast
<1> QED
  BY <1>2, <1>3, <1>4

\* The limit that update_source_stats sets is not below the minimum.
LEMMA LimitSet ==
  ASSUME NEW z \in Sizes
  PROVE  update_source_stats(z).min <= update_source_stats(z).limit
<1>1. z.burst \in Nat /\ z.min \in Nat /\ z.limit \in Nat
  BY SizesAssumption DEF Setting
<1> QED
  BY <1>1, TuningAssumption DEF update_source_stats

\* Every step keeps the blocks chained and the sizes in order.
LEMMA MinimumNext == MInv /\ [Next]_vars => MInv'
<1> SUFFICES ASSUME MInv, [Next]_vars PROVE MInv'
  OBVIOUS
<1>1. IInv /\ Chained(src.blocks) /\ SizesOrdered /\ IInv'
  BY Inductive DEF MInv
<1>2. ASSUME NEW b \in NewBlock, ReadBlock(b) PROVE MInv'
  BY <1>1, <1>2, SourceSteps DEF MInv, ReadBlock, SizesOrdered, Chained
<1>3. CASE ReadPart \/ ReadLast
  BY <1>1, <1>3, SourceSteps
  DEF MInv, ReadPart, ReadLast, SizesOrdered, Chained
<1>4. ASSUME NEW z \in Sizes, UpdateSizes(z) PROVE MInv'
  BY <1>1, <1>4, LimitSet DEF MInv, UpdateSizes, SizesOrdered, Chained
<1>5. ASSUME NEW l \in Listener, Visit(l) \/ Leave(l) \/ AddListener(l)
      PROVE  MInv'
  BY <1>1, <1>5, ListenerLeaves DEF MInv, SizesOrdered, Chained
<1>6. CASE UNCHANGED vars
  BY <1>1, <1>6 DEF MInv, SizesOrdered, Chained, vars
<1> QED
  BY <1>2, <1>3, <1>4, <1>5, <1>6 DEF Next

\* What is aimed at is the slack above the minimum or more.
LEMMA TargetFloor ==
  ASSUME IInv, SizesOrdered, NEW q \in Queue
  PROVE  Target(q) \in Int /\ Target(q) >= Slack + sizes.min
<1>1. /\ sizes.min \in Nat /\ sizes.limit \in Nat /\ sizes.min <= sizes.limit
      /\ Slack \in Nat
  BY TuningAssumption DEF IInv, TypeOK, SizesOrdered
<1> DEFINE t == IF q.shrinkTime # 0 THEN q.end - q.shrinkPos ELSE 0
<1>2. t \in Int
  <2>1. q.end \in Int /\ q.shrinkPos \in Int
    BY DEF Queue
  <2> QED
    BY <2>1
<1> HIDE DEF t
<1>3. Target(q) = Slack + (IF t < sizes.min \/ t > sizes.limit
                THEN IF \E l \in Listener : lst[l].mode \in {"intro", "queue"}
                       THEN sizes.limit ELSE sizes.min
                ELSE t)
  BY DEF Target, t
<1>4. CASE t < sizes.min \/ t > sizes.limit
  BY <1>1, <1>3, <1>4
<1>5. CASE ~(t < sizes.min \/ t > sizes.limit)
  BY <1>1, <1>2, <1>3, <1>5
<1> QED
  BY <1>4, <1>5

\* Of a queue that is pruned, the blocks from the last one that was taken on
\* were more than the minimum and the slack.
LEMMA PruneLeaves ==
  ASSUME IInv, SizesOrdered, NEW p, QueueOK(p), p.first # 0,
         Chained(p.blocks), NEW k \in p.first..Last(p), PrunedTo(p, k)
  PROVE  \/ Prune(p, k).size = p.size
         \/ \E n \in Lens : Prune(p, k).size + n > sizes.min + Slack
<1>1. /\ Last(p) \in Nat \ {0} /\ p.first \in 1..Last(p)
      /\ p.size \in Nat
      /\ \A i \in 1..Last(p) : p.blocks[i].at \in Nat
                               /\ p.blocks[i].len \in Nat \ {0}
  BY QueueFacts
<1>2. k \in 1..Last(p) /\ k \in Nat
  BY <1>1
<1>3. Prune(p, k).size = p.size - (p.blocks[k].at - p.blocks[p.first].at)
  BY DEF Prune, BytesFrom
<1>4. CASE k = p.first
  <2>1. p.blocks[k].at \in Nat
    BY <1>1, <1>2
  <2> QED
    BY <2>1, <1>1, <1>3, <1>4
<1>5. CASE k # p.first
  <2> DEFINE i == k - 1
  <2>1. i \in p.first..k - 1 /\ i \in 1..Last(p) /\ k = i + 1
    BY <1>1, <1>2, <1>5
  <2> HIDE DEF i
  <2>2. p.size - (p.blocks[i].at - p.blocks[p.first].at) > Target(p)
    BY <2>1 DEF PrunedTo, TooBig, BytesFrom
  <2>3. p.blocks[k].at = p.blocks[i].at + p.blocks[i].len
        /\ p.blocks[i].len \in Lens
    BY <2>1, <1>2 DEF Chained
  <2>4. /\ p.blocks[i].at \in Int /\ p.blocks[i].len \in Int
        /\ p.blocks[k].at \in Int /\ p.blocks[p.first].at \in Int
        /\ p.size \in Int /\ sizes.min \in Int /\ Slack \in Int
    <3>1. /\ p.blocks[i].at \in Int /\ p.blocks[i].len \in Int
          /\ p.blocks[k].at \in Int /\ p.blocks[p.first].at \in Int /\ p.size \in Int
      BY <2>1, <1>1, <1>2
    <3>2. sizes.min \in Int
      BY DEF IInv, TypeOK
    <3>3. Slack \in Int
      BY TuningAssumption
    <3> QED
      BY <3>1, <3>2, <3>3
  <2>5. Target(p) \in Int /\ Target(p) >= Slack + sizes.min
    BY TargetFloor DEF QueueOK
  <2>6. \A size, head, at, len, next, target, slack, min \in Int :
          /\ size - (at - head) > target /\ next = at + len
          /\ target >= slack + min
          => (size - (next - head)) + len > min + slack
    OBVIOUS
  <2>7. (p.size - (p.blocks[k].at - p.blocks[p.first].at)) + p.blocks[i].len
          > sizes.min + Slack
    BY <2>2, <2>3, <2>4, <2>5, <2>6
  <2> QED
    BY <2>3, <2>7, <1>3
<1> QED
  BY <1>4, <1>5

\* The same of the end of source_read, from a queue no smaller than before.
LEMMA FinishLeaves ==
  ASSUME IInv, SizesOrdered, NEW p, QueueOK(p), p.first # 0,
         Chained(p.blocks), Finish(p), p.size >= src.size,
         src.size >= sizes.min
  PROVE  \/ src'.size >= sizes.min
         \/ \E n \in Lens : src'.size + n > sizes.min + Slack
<1>1. p.size \in Int /\ src.size \in Int /\ sizes.min \in Int
  BY DEF QueueOK, Queue, IInv, TypeOK
<1>2. p.size >= sizes.min
  BY <1>1
<1>3. CASE src' = p
  BY <1>2, <1>3
<1>4. ASSUME NEW k \in p.first..Last(p), PrunedTo(p, k), src' = Prune(p, k)
      PROVE  \/ src'.size >= sizes.min
             \/ \E n \in Lens : src'.size + n > sizes.min + Slack
  BY <1>2, <1>4, PruneLeaves
<1> QED
  BY <1>3, <1>4 DEF Finish

\* No step but those of the source client changes queue_size, and those leave
\* the minimum.
LEMMA MinimumStep ==
  MInv /\ [Next]_vars =>
    (sizes' = sizes /\ src.size >= sizes.min =>
       \/ src'.size >= sizes.min
       \/ \E n \in Lens : src'.size + n > sizes.min + Slack)
<1> SUFFICES ASSUME MInv, [Next]_vars, src.size >= sizes.min
             PROVE  \/ src'.size >= sizes.min
                    \/ \E n \in Lens : src'.size + n > sizes.min + Slack
  OBVIOUS
<1> DEFINE Kept == \/ src'.size >= sizes.min
                   \/ \E n \in Lens : src'.size + n > sizes.min + Slack
<1>1. /\ IInv /\ Chained(src.blocks) /\ SizesOrdered /\ QueueOK(src)
      /\ src.size \in Nat /\ sizes.min \in Nat
  BY DEF MInv, IInv, TypeOK, QueueOK, Queue
<1>2. ASSUME NEW b \in NewBlock
      PROVE  source_add_queue_buffer(src, b).size >= src.size
  <2>1. b.len \in Nat
    BY LensAssumption DEF NewBlock
  <2>2. source_add_queue_buffer(src, b).size = src.size + b.len
    BY DEF source_add_queue_buffer
  <2> QED
    BY <2>1, <2>2, <1>1
<1>3. ASSUME NEW b \in NewBlock, ReadBlock(b) PROVE Kept
  <2> DEFINE q == source_add_queue_buffer(src, b)
  <2>1. QueueOK(q) /\ q.first # 0 /\ Chained(q.blocks) /\ q.size >= src.size
    BY <1>1, <1>2, AddOK, AddChained
  <2>2. PICK m \in q.point..Last(q) : Finish(MovePoint(q, m))
    BY <1>3 DEF ReadBlock
  <2> HIDE DEF q
  <2> DEFINE p == MovePoint(q, m)
  <2>3. QueueOK(p) /\ p.first # 0 /\ p.blocks = q.blocks
    BY <2>1, MoveOK
  <2>4. p.size = q.size
    BY <2>1 DEF MovePoint, QueueOK, Queue
  <2>5. Finish(p)
    BY <2>2
  <2> HIDE DEF p
  <2> QED
    BY <2>1, <2>3, <2>4, <2>5, <1>1, FinishLeaves
<1>4. CASE ReadPart
  <2>1. src.size >= src.size
    BY <1>1
  <2> QED
    BY <2>1, <1>1, <1>4, FinishLeaves DEF ReadPart
<1>5. CASE ReadLast
  <2>1. CASE UNCHANGED src
    BY <2>1
  <2>2. ASSUME NEW b \in NewBlock, src' = source_add_queue_buffer(src, b)
        PROVE  Kept
    <3>1. source_add_queue_buffer(src, b).size \in Int
      BY <1>1, AddOK DEF QueueOK, Queue
    <3> QED
      BY <3>1, <2>2, <1>1, <1>2
  <2> QED
    BY <1>5, <2>1, <2>2 DEF ReadLast
<1>6. ASSUME NEW z \in Sizes, UpdateSizes(z) PROVE Kept
  BY <1>6 DEF UpdateSizes
<1>7. ASSUME NEW l \in Listener, Visit(l) \/ Leave(l) \/ AddListener(l)
      PROVE  Kept
  BY <1>1, <1>7, ListenerLeaves
<1>8. CASE UNCHANGED vars
  BY <1>8 DEF vars
<1> QED
  BY <1>3, <1>4, <1>5, <1>6, <1>7, <1>8 DEF Next

\* The queue starts with sizes in order and no block.
LEMMA MinimumStart == Init => MInv
<1> SUFFICES ASSUME Init PROVE MInv
  OBVIOUS
<1>1. IInv
  BY Start
<1>2. Len(src.blocks) = 0
  BY DEF Init
<1> QED
  BY <1>1, <1>2 DEF Init, MInv, Chained, SizesOrdered

\* Pruning leaves min_queue_size bytes but for what one block exceeds the
\* slack by, whatever the slowest listener was.
THEOREM PruningLeavesMinimum == Spec => MinimumKept
<1> QED
  BY MinimumStart, MinimumNext, MinimumStep, PTL DEF Spec, MinimumKept
=============================================================================
