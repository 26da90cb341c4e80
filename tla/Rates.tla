------------------------------- MODULE Rates -------------------------------
(***************************************************************************)
(* Sampled rates (util.c: rate_calc), as kept for the bandwidth of the     *)
(* server, a mount point or a file: a ring of blocks, each with the time   *)
(* it stands for and what was sent then, and the total over the ring.      *)
(* Every worker adds to the same ring with its own idea of the time, and   *)
(* the lock is dropped around the allocation of a block.                   *)
(***************************************************************************)
EXTENDS Integers, Sequences, SequencesExt, FiniteSets, FiniteSetsExt

CONSTANTS
    Adder,      \* threads that add samples
    Samples,    \* calc->samples: length of the window
    Amount,     \* values a sample can have
    Reduce,     \* range given to rate_reduce
    Lag,        \* how far a worker's time can be behind the clock
    FirstTime,  \* time at the start
    Final,      \* bound on the clock
    MaxAdds     \* bound on the samples added

VARIABLES
    ring,       \* the blocks from current->next to current: where, time, value
    total,      \* calc->total
    cycle_till, \* calc->cycle_till
    add,        \* the call of rate_add_sum of each thread
    tm,         \* the clock
    sum,        \* what the caller's counter (sum) has reached
    added,      \* for each time, the sum of the samples added
    adds,       \* number of samples added
    back,       \* a sample older than the current block was put after it
    reduced     \* rate_reduce has been called

vars == <<ring, total, cycle_till, add, tm, sum, added, adds, back, reduced>>

(* next is calc->current->next as seen before the lock was dropped; 0 is   *)
(* the null pointer                                                        *)
NoAdd == [st |-> "out", sid |-> 0, val |-> 0, cut |-> 0, next |-> 0]

Init ==
    /\ ring = << >>
    /\ total = 0
    /\ cycle_till = 0
    /\ add = [a \in Adder |-> NoAdd]
    /\ tm = FirstTime
    /\ sum = 0
    /\ added = [t \in FirstTime - Lag .. Final |-> 0]
    /\ adds = 0
    /\ back = FALSE
    /\ reduced = FALSE

(* calc->current and the block after it, which is the oldest *)
NoBlock == [addr |-> 0, time |-> -1, val |-> -1]
Current == IF ring = << >> THEN NoBlock ELSE Last(ring)
Oldest == IF ring = << >> THEN NoBlock ELSE Head(ring)

(* sum of the values of blocks *)
ValueOf(r) == FoldLeft(LAMBDA acc, b : acc + b.val, 0, r)

(* calloc: an address no block of the ring has *)
FreshBlock == CHOOSE n \in 1 .. Len(ring) + 1 : \A i \in DOMAIN ring : ring[i].addr # n

(* mutant of Purged: no block leaves the ring *)
PurgedNot(r, cut) == r

(* rate_purge_entries: the oldest blocks go as long as they are not after  *)
(* the cutoff                                                              *)
Purged(r, cut) ==
    LET keep == {i \in DOMAIN r : r[i].time > cut}
    IN  IF keep = {} THEN << >> ELSE SubSeq(r, Min(keep), Len(r))

(* how much of the total the purged blocks stood for *)
TotalAfter(t, r, cut) ==
    IF Purged(r, cut) = << >> THEN 0 ELSE t - (ValueOf(r) - ValueOf(Purged(r, cut)))

Purge(r, t, cut) ==
    /\ ring' = Purged(r, cut)
    /\ total' = TotalAfter(t, r, cut)

(* after rate_reduce the ring is cut one block a time until none is left   *)
(* from before the reduction                                               *)
Cutoff(sid) ==
    IF ring # << >> /\ Oldest.time < cycle_till
    THEN Oldest.time + 1
    ELSE sid - Samples

CycleTill ==
    IF ring # << >> /\ Oldest.time < cycle_till THEN cycle_till ELSE 0

(* the sample goes to the block of its time *)
SameBlock(sid, val) ==
    /\ Current.time = sid
    /\ ring' = [ring EXCEPT ![Len(ring)].val = @ + val]
    /\ total' = total + val

(* the oldest block has left the window and becomes the current one *)
Reused(sid, val, cut) ==
    LET r == Append(Tail(ring), [Head(ring) EXCEPT !.time = sid, !.val = val])
    IN  Purge(r, total - Oldest.val + val, cut)

(* one turn of the loop of rate_add_sum, with the lock held *)
Turn(a, sid, val, cut) ==
    \/ /\ SameBlock(sid, val)
       /\ add' = [add EXCEPT ![a] = NoAdd]
       /\ UNCHANGED back
    \/ /\ ring # << >>
       /\ Current.time # sid
       /\ cut > Oldest.time
       /\ Reused(sid, val, cut)
       /\ back' = (back \/ sid < Current.time)
       /\ add' = [add EXCEPT ![a] = NoAdd]
    \/ /\ Current.time # sid
       /\ ring # << >> => cut <= Oldest.time
       /\ add' = [add EXCEPT ![a] = [st |-> "alloc", sid |-> sid, val |-> val,
                                     cut |-> cut, next |-> Oldest.addr]]
       /\ UNCHANGED <<ring, total, back>>

----------------------------------------------------------------------------
(* rate_add_sum, to the point where the lock is dropped *)
RateAddSum(a) ==
    /\ add[a].st = "out"
    /\ adds < MaxAdds
    /\ adds' = adds + 1
    /\ \E sid \in tm - Lag .. tm, val \in Amount :
          /\ added' = [added EXCEPT ![sid] = @ + val]
          /\ cycle_till' = CycleTill
          /\ \/ /\ val = 0 /\ Current.val = 0
                /\ Purge([ring EXCEPT ![Len(ring)].time = sid], total, Cutoff(sid))
                /\ back' = (back \/ sid < Current.time)
                /\ UNCHANGED <<add, sum>>
             \/ /\ ~(val = 0 /\ Current.val = 0)
                /\ sum' = sum + val
                /\ Turn(a, sid, val, Cutoff(sid))
    /\ UNCHANGED <<tm, reduced>>

(* the ring still starts where it did when the lock was dropped *)
StillThere(a) == Oldest.addr = add[a].next

(* the block is put after the current one *)
Insert(a) ==
    /\ add[a].st = "alloc"
    /\ StillThere(a)
    /\ Purge(Append(ring, [addr |-> FreshBlock, time |-> add[a].sid, val |-> add[a].val]),
             total + add[a].val, add[a].cut)
    /\ back' = (back \/ (ring # << >> /\ add[a].sid < Current.time))
    /\ add' = [add EXCEPT ![a] = NoAdd]
    /\ UNCHANGED <<cycle_till, tm, sum, added, adds, reduced>>

(* it does not: the block is freed, outside the lock, and the loop goes on *)
Retry(a) ==
    /\ add[a].st = "alloc"
    /\ ~StillThere(a)
    /\ add' = [add EXCEPT ![a].st = "again"]
    /\ UNCHANGED <<ring, total, cycle_till, tm, sum, added, adds, back, reduced>>

Again(a) ==
    /\ add[a].st = "again"
    /\ Turn(a, add[a].sid, add[a].val, add[a].cut)
    /\ UNCHANGED <<cycle_till, tm, sum, added, adds, reduced>>

(* rate_reduce, as fewer listeners are left *)
RateReduce ==
    /\ Len(ring) > 1
    /\ ~reduced
    /\ cycle_till' = Last(ring).time
    /\ Purge(ring, total, Last(ring).time - Reduce)
    /\ reduced' = TRUE
    /\ UNCHANGED <<add, tm, sum, added, adds, back>>

Passing ==
    /\ tm < Final
    /\ tm' = tm + 1
    /\ UNCHANGED <<ring, total, cycle_till, add, sum, added, adds, back, reduced>>

Next ==
    \/ \E a \in Adder : RateAddSum(a) \/ Insert(a) \/ Retry(a) \/ Again(a)
    \/ RateReduce
    \/ Passing

Spec == Init /\ [][Next]_vars

----------------------------------------------------------------------------
Block == [addr : Nat \ {0}, time : Nat, val : Nat]
TypeOK ==
    /\ \A i \in DOMAIN ring : ring[i] \in Block
    /\ \A i, j \in DOMAIN ring : ring[i].addr = ring[j].addr => i = j
    /\ total \in Nat /\ sum \in Nat /\ cycle_till \in Nat
    /\ add \in [Adder -> [st : {"out", "alloc", "again"}, sid : Nat, val : Nat,
                          cut : Int, next : Nat]]

(* The total that averages are computed from is the sum over the ring,     *)
(* whatever the threads did while a block was being allocated.             *)
TotalMatches == total = ValueOf(ring)

(* The samples of the window are all counted and none twice: for every     *)
(* time in the window that ends at the newest block, the ring holds what   *)
(* was added for that time, but for calls still waiting for a block.       *)
(* Excused: a sample that was older than the current block, after which    *)
(* blocks are out of order, and a reduced ring.                            *)
WindowExact ==
    \/ back \/ reduced \/ ring = << >>
    \/ \A t \in Last(ring).time - Samples + 1 .. Last(ring).time :
          LET pending == {a \in Adder : add[a].st # "out" /\ add[a].sid = t}
          IN  ValueOf(SelectSeq(ring, LAMBDA b : b.time = t))
                 + FoldSet(LAMBDA a, acc : acc + add[a].val, 0, pending)
              = IF t \in DOMAIN added THEN added[t] ELSE 0

(* Nothing older than the window is left in the ring to weigh on the       *)
(* average, also when a thread purges with the cutoff it worked out before *)
(* the lock was dropped.                                                   *)
WindowOnly ==
    back \/ reduced \/ \A i \in DOMAIN ring : ring[i].time > Last(ring).time - Samples

(* The total of a rate is the sum of its blocks, and those are the samples of the window, each *)
(* counted once, though the lock is given up in the middle of an addition.                     *)
RatesExact == TypeOK /\ TotalMatches /\ WindowExact /\ WindowOnly
============================================================================
