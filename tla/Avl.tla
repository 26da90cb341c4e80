-------------------------------- MODULE Avl --------------------------------
(***************************************************************************)
(* The balanced tree (avl/avl.c) that holds the sources, relays, clients,  *)
(* statistics, file handles and banned addresses.                          *)
(*                                                                         *)
(* The heap is a function of node numbers.  Node 0 is the root node of the *)
(* code, whose right child is the top of the tree; 1 and -1 name the right *)
(* and the left side, so that a definition stands for both mirror images   *)
(* of a branch of the code.  Nodes are numbered again in key order after   *)
(* every operation: their addresses carry no meaning.                      *)
(***************************************************************************)
EXTENDS Integers, Sequences, SequencesExt, FiniteSets

CONSTANTS
    Key,            \* keys, integers
    MaxNodes        \* bound: keys in the tree

VARIABLES
    heap,           \* the nodes
    length,         \* tree->length
    bag,            \* reference: how often each key was inserted and not deleted
    deleted,        \* result of the last avl_delete
    bumped          \* an avl_delete found no key on the right of a node

vars == <<heap, length, bag, deleted, bumped>>

Nil == -1
Side == {-1, 1}

(* avl_node_new, avl_tree_new *)
NewNode(k, up) == [key |-> k, kid |-> [d \in Side |-> Nil], up |-> up, bal |-> 0, rank |-> 1]
EmptyHeap == [n \in {0} |-> NewNode(0, Nil)]

Top(h) == h[0].kid[1]
SideOf(h, p, n) == IF h[p].kid[1] = n THEN 1 ELSE -1

(* the child r of s on side a is lifted over s, with the ranks *)
Lift(h, s, r, a) ==
    LET c == h[r].kid[-a]
        g == [h EXCEPT ![s].kid[a] = c, ![r].kid[-a] = s, ![s].up = r,
                       ![s].rank = IF a = -1 THEN h[s].rank - h[r].rank ELSE @,
                       ![r].rank = IF a = 1 THEN h[r].rank + h[s].rank ELSE @]
    IN IF c = Nil THEN g ELSE [g EXCEPT ![c].up = s]

(* n takes the place that old had below top *)
Hang(h, top, old, n) ==
    [h EXCEPT ![top].kid[SideOf(h, top, old)] = n, ![n].up = top]

(* mutant of LiftTwice: the balances of the two lower nodes are swapped *)
LiftTwiceSwapped(h, s, r, a) ==
    LET p == h[r].kid[-a]
        b == h[p].bal
    IN [Lift(Lift(h, r, p, -a), s, p, a) EXCEPT
            ![s].bal = IF b = -a THEN a ELSE 0,
            ![r].bal = IF b = a THEN -a ELSE 0,
            ![p].bal = 0]

(* both rotations of a double one, p between r and s, with the balances *)
LiftTwice(h, s, r, a) ==
    LET p == h[r].kid[-a]
        b == h[p].bal
    IN [Lift(Lift(h, r, p, -a), s, p, a) EXCEPT
            ![s].bal = IF b = a THEN -a ELSE 0,
            ![r].bal = IF b = -a THEN a ELSE 0,
            ![p].bal = 0]
-----------------------------------------------------------------------------
(* avl_insert *)
Goes(h, k, n) == IF k <= h[n].key THEN -1 ELSE 1

RECURSIVE Descend(_, _, _, _, _, _)
(* down from p to the new node q; s is the last node that is not balanced, *)
(* t its parent *)
Descend(h, k, q, p, t, s) ==
    LET d == Goes(h, k, p)
        c == h[p].kid[d]
        g == IF d = -1 THEN [h EXCEPT ![p].rank = @ + 1] ELSE h
    IN IF c = Nil
       THEN [h |-> [n \in DOMAIN h \cup {q} |->
                      IF n = q THEN NewNode(k, p)
                      ELSE IF n = p THEN [g[p] EXCEPT !.kid[d] = q] ELSE g[n]],
             t |-> t, s |-> s]
       ELSE IF h[c].bal # 0 THEN Descend(g, k, q, c, p, c) ELSE Descend(g, k, q, c, t, s)

RECURSIVE Lean(_, _, _, _)
(* the nodes between s and q lean to the new one *)
Lean(h, k, p, q) ==
    IF p = q THEN h
    ELSE Lean([h EXCEPT ![p].bal = Goes(h, k, p)], k, h[p].kid[Goes(h, k, p)], q)

Insert(h, k, q) ==
    IF Top(h) = Nil
    THEN [n \in {0, q} |-> IF n = 0 THEN [h[0] EXCEPT !.kid[1] = q] ELSE NewNode(k, 0)]
    ELSE LET w == Descend(h, k, q, Top(h), 0, Top(h))
             s == w.s
             a == Goes(w.h, k, s)
             r == w.h[s].kid[a]
             g == Lean(w.h, k, r, q)
         IN CASE g[s].bal = 0 -> [g EXCEPT ![s].bal = a]
              [] g[s].bal = -a -> [g EXCEPT ![s].bal = 0]
              [] g[s].bal = a /\ g[r].bal = a ->
                   Hang([Lift(g, s, r, a) EXCEPT ![s].bal = 0, ![r].bal = 0], w.t, s, r)
              [] OTHER -> Hang(LiftTwice(g, s, r, a), w.t, s, g[r].kid[-a])
-----------------------------------------------------------------------------
(* avl_get_by_key, and the search of avl_delete: the nodes passed *)
RECURSIVE PathFrom(_, _, _)
PathFrom(h, k, n) ==
    IF h[n].key = k THEN <<n>>
    ELSE LET c == h[n].kid[IF k < h[n].key THEN -1 ELSE 1]
         IN IF c = Nil THEN <<n>> ELSE <<n>> \o PathFrom(h, k, c)
Path(h, k) == IF Top(h) = Nil THEN <<>> ELSE PathFrom(h, k, Top(h))

Found(h, k) == Path(h, k) # <<>> /\ h[Last(Path(h, k))].key = k

RECURSIVE Far(_, _, _)
Far(h, n, d) == IF h[n].kid[d] = Nil THEN n ELSE Far(h, h[n].kid[d], d)

(* the climb after a removal: the subtree of p on side d got shorter *)
RECURSIVE Climb(_, _, _)
Climb(h, p, d) ==
    IF p = 0 THEN h
    ELSE LET top == h[p].up
             up == SideOf(h, top, p)
             q == h[p].kid[-d]
         IN CASE h[p].bal = 0 -> [h EXCEPT ![p].bal = -d]
              [] h[p].bal = d -> Climb([h EXCEPT ![p].bal = 0], top, up)
              [] h[p].bal = -d /\ h[q].bal = 0 ->
                   Hang([Lift(h, p, q, -d) EXCEPT ![q].bal = d, ![p].bal = -d], top, p, q)
              [] h[p].bal = -d /\ h[q].bal = -d ->
                   Climb(Hang([Lift(h, p, q, -d) EXCEPT ![q].bal = 0, ![p].bal = 0], top, p, q),
                         top, up)
              [] OTHER -> Climb(Hang(LiftTwice(h, p, q, -d), top, p, h[q].kid[d]), top, up)

(* the ranks on the way to a key that goes from a left subtree *)
Lowered(h, path) ==
    [n \in DOMAIN h |->
        IF \E i \in 1 .. Len(path) - 1 : path[i] = n /\ h[n].kid[-1] = path[i + 1]
        THEN [h[n] EXCEPT !.rank = @ - 1] ELSE h[n]]

(* a key that is not there: the ranks are put back, but for the last node, *)
(* which gets one more when the search left it to the right *)
Missing(h, k) ==
    IF Path(h, k) = <<>> THEN h
    ELSE LET x == Last(Path(h, k))
         IN IF k > h[x].key THEN [h EXCEPT ![x].rank = @ + 1] ELSE h

(* the key of the predecessor takes the place of the deleted one *)
Swapped(h, n, y) == [h EXCEPT ![n].key = h[y].key, ![n].rank = @ - 1]

Delete(h, k) ==
    LET path == Path(h, k)
        found == Last(path)
        low == Lowered(h, path)
        two == h[found].kid[-1] # Nil /\ h[found].kid[1] # Nil
        x == IF two THEN Far(h, h[found].kid[-1], 1) ELSE found
        g == IF two THEN Swapped(low, found, x) ELSE low
        child == IF g[x].kid[-1] # Nil THEN g[x].kid[-1] ELSE g[x].kid[1]
        p == g[x].up
        d == SideOf(g, p, x)
        cut == [g EXCEPT ![p].kid[d] = child]
        linked == IF child = Nil THEN cut ELSE [cut EXCEPT ![child].up = p]
    IN Climb([n \in DOMAIN h \ {x} |-> linked[n]], p, d)
-----------------------------------------------------------------------------
(* avl_get_first, avl_get_next: the parent pointers carry the walk *)
RECURSIVE UpFrom(_, _, _)
UpFrom(h, n, d) ==
    LET p == h[n].up
    IN IF p = 0 THEN Nil ELSE IF h[p].kid[d] = n THEN p ELSE UpFrom(h, p, d)
NextNode(h, n) ==
    IF h[n].kid[1] # Nil THEN Far(h, h[n].kid[1], -1) ELSE UpFrom(h, n, -1)
PrevNode(h, n) ==
    IF h[n].kid[-1] # Nil THEN Far(h, h[n].kid[-1], 1) ELSE UpFrom(h, n, 1)

RECURSIVE Walk(_, _)
Walk(h, n) == IF n = Nil THEN <<>> ELSE <<n>> \o Walk(h, NextNode(h, n))
Nodes(h) == IF Top(h) = Nil THEN <<>> ELSE Walk(h, Far(h, Top(h), -1))

(* avl_get_by_index *)
RECURSIVE IndexFrom(_, _, _)
IndexFrom(h, n, m) ==
    IF n = Nil THEN Nil
    ELSE IF m < h[n].rank THEN IndexFrom(h, h[n].kid[-1], m)
    ELSE IF m > h[n].rank THEN IndexFrom(h, h[n].kid[1], m - h[n].rank)
    ELSE n

(* avl_get_item_by_key_most, d = 1, and avl_get_item_by_key_least, d = -1:  *)
(* the last key on the path that is not beyond k *)
ItemByKey(h, k, d) ==
    LET on == SelectSeq(Path(h, k), LAMBDA n : h[n].key = k \/ d * h[n].key < d * k)
    IN IF on = <<>> THEN Nil ELSE h[Last(on)].key

(* nodes renumbered in the order of the walk *)
Canonical(h) ==
    LET ns == Nodes(h)
        new(n) == IF n \in {0, Nil} THEN n ELSE CHOOSE i \in DOMAIN ns : ns[i] = n
        old(i) == IF i = 0 THEN 0 ELSE ns[i]
    IN [i \in 0 .. Len(ns) |->
          [h[old(i)] EXCEPT !.up = new(@), !.kid = [d \in Side |-> new(h[old(i)].kid[d])]]]
-----------------------------------------------------------------------------
Init ==
    /\ heap = EmptyHeap /\ length = 0
    /\ bag = [k \in Key |-> 0] /\ deleted = TRUE /\ bumped = FALSE

InsertKey(k) ==
    /\ length < MaxNodes
    /\ heap' = Canonical(Insert(heap, k, length + 1))
    /\ length' = length + 1
    /\ bag' = [bag EXCEPT ![k] = @ + 1]
    /\ UNCHANGED <<deleted, bumped>>

DeleteKey(k) ==
    /\ Found(heap, k)
    /\ heap' = Canonical(Delete(heap, k))
    /\ length' = length - 1
    /\ bag' = [bag EXCEPT ![k] = @ - 1]
    /\ deleted' = (bag[k] > 0)
    /\ UNCHANGED bumped

(* one failure is enough to see what it does to the ranks *)
DeleteMissing(k) ==
    /\ ~Found(heap, k) /\ ~bumped
    /\ heap' = Missing(heap, k)
    /\ deleted' = (bag[k] = 0)
    /\ bumped' = (heap' # heap)
    /\ UNCHANGED <<length, bag>>

Next == \E k \in Key : InsertKey(k) \/ DeleteKey(k) \/ DeleteMissing(k)

Spec == Init /\ [][Next]_vars
-----------------------------------------------------------------------------
RECURSIVE Height(_, _)
Height(h, n) ==
    IF n = Nil THEN 0
    ELSE LET l == Height(h, h[n].kid[-1])
             r == Height(h, h[n].kid[1])
         IN 1 + IF l > r THEN l ELSE r

Below(h, n, d) == IF h[n].kid[d] = Nil THEN 0 ELSE Height(h, h[n].kid[d])

TypeOK ==
    /\ DOMAIN heap = 0 .. length /\ length \in 0 .. MaxNodes
    /\ \A n \in DOMAIN heap : heap[n].bal \in -1 .. 1 /\ heap[n].up \in DOMAIN heap \cup {Nil}
    /\ bag \in [Key -> 0 .. MaxNodes] /\ deleted \in BOOLEAN /\ bumped \in BOOLEAN

(* avl_insert and avl_delete keep the two subtrees of every node within    *)
(* one level, and the balance kept in the node is the true difference      *)
(* (avl_verify_balance), after any sequence of both.                       *)
Balanced ==
    \A n \in DOMAIN heap \ {0} :
        /\ Below(heap, n, 1) - Below(heap, n, -1) = heap[n].bal
        /\ heap[n].bal \in -1 .. 1

(* The walk with avl_get_first and avl_get_next, which climbs by the       *)
(* parent pointers, passes exactly the keys inserted and not deleted, in   *)
(* order, equal ones included, and avl_get_prev goes the same way back.    *)
HoldsKeys ==
    LET ns == Nodes(heap)
    IN /\ Len(ns) = length
       /\ \A i \in 1 .. Len(ns) - 1 : /\ heap[ns[i]].key <= heap[ns[i + 1]].key
                                      /\ PrevNode(heap, ns[i + 1]) = ns[i]
       /\ \A k \in Key : Cardinality({i \in DOMAIN ns : heap[ns[i]].key = k}) = bag[k]

(* avl_get_by_key and avl_delete find a key exactly when it is there,      *)
(* also when rotations have put equal keys on both sides of a node, and    *)
(* the search for the nearest key gives the nearest one.                   *)
FindsKeys ==
    /\ deleted
    /\ \A k \in Key :
         /\ Found(heap, k) <=> bag[k] > 0
         /\ \A d \in Side :
              LET below == {j \in Key : bag[j] > 0 /\ d * j <= d * k}
                  best == IF below = {} THEN Nil
                          ELSE CHOOSE j \in below : \A i \in below : d * i <= d * j
              IN ItemByKey(heap, k, d) = best

(* The rank of a node is one more than the nodes on its left               *)
(* (avl_verify_rank), so that avl_get_by_index gives the key at a place of *)
(* the order, as long as no avl_delete missed its key on a right side.     *)
RanksExact ==
    ~bumped => \A i \in 1 .. length : IndexFrom(heap, Top(heap), i) = Nodes(heap)[i]

(* After any sequence of insertions and deletions the tree is balanced, is walked in order, *)
(* finds exactly the keys that are in it and gives the right one at each index.             *)
TreeSound == TypeOK /\ Balanced /\ HoldsKeys /\ FindsKeys /\ RanksExact
=============================================================================
