---------------------------- MODULE ServerProofs ----------------------------
(***************************************************************************)
(* Files, redirectors and connections are in order in every reachable      *)
(* state, whatever the constants: proofs of HandlesOwned, RedirectorsKept  *)
(* and PortsKept, each with its inductive invariant.                       *)
(*                                                                         *)
(* Files.  The reference count of a handle cannot be followed on its own:  *)
(* that it comes down once for each time it went up rests on who points to *)
(* what.  A client that points to a handle is in its tree, unless the      *)
(* handle has none and then this is the only client; a client that is in a *)
(* tree points to the handle or is lost to it.  So the last one to leave   *)
(* finds an empty tree behind, and no one is left on what it frees.        *)
(*                                                                         *)
(* Redirectors.  A walk that has met no dropped entry has its selection    *)
(* ahead, as it was drawn from the count and the count was the length of   *)
(* the list: what is listed or taken out and not counted out yet only      *)
(* comes down while walks are inside, so that a count-down one of them     *)
(* overwrites leaves the count too high, never too low.  Configured hosts have entries without an end until somebody  *)
(* sets one, and the gap between the halves of a reload leaves the list    *)
(* empty unless a slave came in between.                                   *)
(*                                                                         *)
(* Connections.  The count of a listener_t is never below the number of    *)
(* those that use it.  The reload reads and writes it without the lock,    *)
(* which is sound as it has joined the accepting thread: only releases     *)
(* come in between, so the count that was read is at worst too high.       *)
(***************************************************************************)
EXTENDS MCServer, Sequences, FiniteSetTheorems, WellFoundedInduction, TLAPS

(***************************************************************************)
(* Files: the inductive invariant                                          *)
(***************************************************************************)
Nodes == [st : {"live", "free"}, m : Mount \cup {None}, fb : BOOLEAN, del : BOOLEAN,
          refs : Nat, on : SUBSET Client, never : BOOLEAN, moved : BOOLEAN,
          fd : Handle \cup {None}, tree : BOOLEAN]

Rest ==
    /\ auth \subseteq Client /\ err \subseteq Client
    /\ listeners \in Int /\ running \in BOOLEAN /\ torn \in BOOLEAN
    /\ torn => ~running
    /\ ~running => NoFile \notin cache

(* a structure as it may be found in the place of handle h *)
Sound(h, n) ==
    /\ n \in Nodes
    /\ n.st = "free" => n.on = {} /\ n.refs = 0 /\ n.fd = None /\ ~n.moved
    /\ n.st = "live" =>
          n.refs = Cardinality(n.on) + (IF h = NoFile \/ ~n.tree THEN 1 ELSE 0)
    /\ ~n.tree => n.del /\ ~n.fb /\ n.on = {} /\ n.fd = None /\ ~n.moved /\ n.m # None
    /\ n.moved => n.del
    /\ h = NoFile => /\ n.st = "live" /\ n.m = None /\ n.fd = None
                     /\ ~n.moved /\ ~n.del /\ n.tree
    /\ h # NoFile /\ n.st = "live" => n.m # None

Structures ==
    /\ fh \in [AllHandles -> Nodes]
    /\ \A h \in AllHandles : Sound(h, fh[h])

(* each descriptor has one owner *)
Owners ==
    /\ fds \subseteq Handle
    /\ \A h \in Handle : fh[h].fd \in fds \cup {None}
    /\ \A d \in fds : \E h \in Handle : fh[h].fd = d
    /\ \A h, k \in Handle : fh[h].fd # None /\ fh[h].fd = fh[k].fd => h = k

Cached ==
    /\ cache \subseteq AllHandles
    /\ \A h \in cache : fh[h].st = "live" /\ ~fh[h].del
    /\ \A h, k \in cache : fh[h].m = fh[k].m /\ fh[h].fb = fh[k].fb => h = k

(* client c is on handle h, or has still to leave it *)
Points(c, h) == h # None /\ h \in {at[c], old[c]}

(* where a client is, and which handles it names there *)
Stand ==
    /\ at \in [Client -> AllHandles \cup {None}]
    /\ old \in [Client -> Handle \cup {None}]
    /\ pc \in [Client -> Places]
    /\ lost \subseteq Client
    /\ \A c \in Client :
          /\ at[c] = None <=> pc[c] \in {"out", "source", "gone"}
          /\ old[c] # None => pc[c] \in {"source", "buffer", "gone"} /\ at[c] # old[c]
          /\ c \in lost => pc[c] \in {"leaving", "gone"} /\ old[c] = None

(* only an overridden handle is left for another *)
Overridden == \A c \in Client : old[c] # None => fh[old[c]].moved

(* a client that points to a handle keeps it, in its tree or alone *)
Kept ==
    \A h \in AllHandles : \A c \in Client :
        Points(c, h) =>
            /\ fh[h].st = "live"
            /\ IF fh[h].tree THEN c \in fh[h].on
               ELSE \A d \in Client : Points(d, h) => d = c

(* and a client that is in a tree points to the handle *)
Known == \A h \in AllHandles : \A c \in fh[h].on : Points(c, h) \/ c \in lost

IInv ==
    /\ Rest
    /\ Structures
    /\ Owners
    /\ Cached
    /\ Stand
    /\ ~torn => Overridden /\ Kept
    /\ Known

(***************************************************************************)
(* Structures, one at a time                                               *)
(***************************************************************************)

\* Free memory, and a structure that open_fh or an override makes.
LEMMA FreedSound ==
  ASSUME Settings, NEW h \in Handle
  PROVE  Sound(h, Freed) /\ Freed.st = "free" /\ Freed.on = {} /\ Freed.fd = None
         /\ Freed.tree
<1>1. Node(None, FALSE, None) \in Nodes
  BY DEF Node, Nodes
<1>2. /\ Freed \in Nodes /\ Freed.st = "free" /\ Freed.on = {} /\ Freed.fd = None
      /\ Freed.tree /\ ~Freed.moved /\ Freed.refs = 0
  BY <1>1 DEF Freed, Node, Nodes
<1> QED
  BY <1>2 DEF Sound, Settings

LEMMA NodeSound ==
  ASSUME Settings, NEW h \in Handle, NEW m \in Mount, NEW fb \in BOOLEAN,
         NEW d \in Handle \cup {None}
  PROVE  LET n == Node(m, fb, d) IN
           /\ Sound(h, n)
           /\ n.st = "live" /\ n.m = m /\ n.fb = fb /\ n.fd = d /\ n.on = {} /\ n.tree
           /\ ~n.del /\ ~n.moved
<1> DEFINE n == Node(m, fb, d)
<1>1. /\ n \in Nodes /\ n.st = "live" /\ n.m = m /\ n.fb = fb /\ n.fd = d /\ n.on = {}
      /\ n.tree /\ ~n.del /\ ~n.moved /\ n.refs = 0
  BY DEF Node, Nodes
<1> HIDE DEF n
<1> QED
  BY <1>1, FS_EmptySet DEF Sound, Settings, AllHandles, n

\* fh_add_client counts the client that it puts in the tree.
LEMMA JoinedSound ==
  ASSUME Settings, NEW h \in AllHandles, NEW n, Sound(h, n), n.st = "live", n.tree,
         NEW c \in Client, c \notin n.on
  PROVE  LET j == Joined(n, c) IN
           /\ Sound(h, j)
           /\ j.st = "live" /\ j.tree /\ j.on = n.on \cup {c} /\ j.m = n.m /\ j.fb = n.fb
           /\ j.del = n.del /\ j.fd = n.fd /\ j.moved = n.moved
<1> DEFINE j == Joined(n, c)
<1>1. n \in Nodes
  BY DEF Sound
<1>2. IsFiniteSet(n.on)
  BY <1>1, FS_Subset DEF Settings, Nodes
<1>3. j = [n EXCEPT !.on = @ \cup {c}, !.refs = @ + 1]
  BY DEF Joined
<1>4. n.refs + 1 \in Nat /\ n.on \cup {c} \in SUBSET Client
  BY <1>1 DEF Nodes
<1>5. /\ j.st = n.st /\ j.tree = n.tree /\ j.on = n.on \cup {c} /\ j.m = n.m
      /\ j.fb = n.fb /\ j.del = n.del /\ j.fd = n.fd /\ j.moved = n.moved
      /\ j.refs = n.refs + 1
  BY <1>1, <1>3 DEF Nodes
<1>6. j \in Nodes
  BY <1>1, <1>3, <1>4 DEF Nodes
<1>7. Cardinality(j.on) = Cardinality(n.on) + 1 /\ Cardinality(n.on) \in Nat
  BY <1>2, <1>5, FS_AddElement, FS_CardinalityType
<1> HIDE DEF j
<1>8. j.refs = Cardinality(j.on) + (IF h = NoFile \/ ~j.tree THEN 1 ELSE 0)
  BY <1>5, <1>7 DEF Sound
<1> QED
  BY <1>5, <1>6, <1>8 DEF Sound, j

\* remove_from_fh frees a handle with its last client, and no other.
LEMMA LeftSound ==
  ASSUME Settings, NEW h \in AllHandles, NEW n, Sound(h, n), n.st = "live",
         NEW c \in Client, n.tree => c \in n.on
  PROVE  LET l == Left(n, c) IN
           /\ Sound(h, l)
           /\ l.st = "live" => /\ l.on = n.on \ {c} /\ l.m = n.m /\ l.fb = n.fb
                               /\ l.del = n.del /\ l.fd = n.fd /\ l.moved = n.moved
                               /\ l.tree /\ n.tree
           /\ l.st = "free" => /\ h # NoFile /\ n.del /\ n.on \subseteq {c}
                               /\ l.on = {} /\ l.fd = None
<1> DEFINE o == [n EXCEPT !.refs = @ - 1, !.on = @ \ {c}]
<1> DEFINE l == Left(n, c)
<1>1. n \in Nodes /\ IsFiniteSet(n.on) /\ Cardinality(n.on) \in Nat
  BY FS_Subset, FS_CardinalityType DEF Sound, Settings, Nodes
<1>2. /\ o.st = n.st /\ o.tree = n.tree /\ o.on = n.on \ {c} /\ o.m = n.m /\ o.fb = n.fb
      /\ o.del = n.del /\ o.fd = n.fd /\ o.moved = n.moved /\ o.refs = n.refs - 1
  BY <1>1 DEF Nodes
<1>3. n.tree => Cardinality(o.on) = Cardinality(n.on) - 1 /\ Cardinality(o.on) \in Nat
  BY <1>1, <1>2, FS_RemoveElement, FS_CardinalityType
<1>4. ~n.tree => o.refs = 0 /\ n.m # None /\ ~n.fb /\ n.del /\ n.on = {} /\ h # NoFile
  BY <1>1, <1>2, FS_EmptySet DEF Sound
<1>5. n.tree => o.refs = Cardinality(o.on) + (IF h = NoFile THEN 1 ELSE 0)
  BY <1>1, <1>2, <1>3 DEF Sound, Nodes
<1>6. o.refs \in Nat
  BY <1>3, <1>4, <1>5
<1>7. o \in Nodes
  BY <1>1, <1>6 DEF Nodes
<1>8. n.tree => Sound(h, o)
  BY <1>1, <1>2, <1>5, <1>7 DEF Sound
<1>9. IsFiniteSet(o.on)
  BY <1>1, <1>2, FS_RemoveElement
<1>10. l = IF o.refs # 0 \/ o.m = None \/ o.fb THEN o
           ELSE IF o.del THEN Freed ELSE [o EXCEPT !.never = FALSE]
  BY DEF Left
<1> DEFINE p == [o EXCEPT !.never = FALSE]
<1>11. /\ p \in Nodes /\ p.st = o.st /\ p.tree = o.tree /\ p.on = o.on /\ p.m = o.m
       /\ p.fb = o.fb /\ p.del = o.del /\ p.fd = o.fd /\ p.moved = o.moved
       /\ p.refs = o.refs
  BY <1>7 DEF Nodes
<1>12. n.tree => Sound(h, p)
  BY <1>8, <1>11 DEF Sound
<1> HIDE DEF o, l, p
<1>13. CASE o.refs # 0 \/ o.m = None \/ o.fb
  BY <1>2, <1>4, <1>8, <1>10, <1>13 DEF l
<1>14. CASE ~(o.refs # 0 \/ o.m = None \/ o.fb) /\ o.del
  <2>1. l = Freed
    BY <1>10, <1>14
  <2>2. h # NoFile /\ h \in Handle
    BY <1>2, <1>14 DEF Sound, AllHandles
  <2>3. n.on \subseteq {c}
    <3>1. CASE n.tree
      BY <1>2, <1>3, <1>5, <1>9, <1>14, <2>2, <3>1, FS_EmptySet
    <3> QED
      BY <1>4, <3>1
  <2> QED
    BY <2>1, <2>2, <2>3, <1>2, <1>14, FreedSound DEF l
<1>15. CASE ~(o.refs # 0 \/ o.m = None \/ o.fb) /\ ~o.del
  <2>1. l = p /\ n.tree
    BY <1>2, <1>4, <1>10, <1>15 DEF p
  <2> QED
    BY <2>1, <1>2, <1>11, <1>12 DEF l
<1> QED
  BY <1>13, <1>14, <1>15

(***************************************************************************)
(* A structure is put in a place of fh                                     *)
(***************************************************************************)
LEMMA Placed ==
  ASSUME Structures, NEW h \in AllHandles, NEW n, Sound(h, n), fh' = [fh EXCEPT ![h] = n]
  PROVE  /\ Structures'
         /\ fh'[h] = n
         /\ \A k \in AllHandles \ {h} : fh'[k] = fh[k]
<1>1. fh \in [AllHandles -> Nodes] /\ n \in Nodes
  BY DEF Structures, Sound
<1>2. fh' \in [AllHandles -> Nodes] /\ fh'[h] = n /\ \A k \in AllHandles \ {h} : fh'[k] = fh[k]
  BY <1>1
<1>3. \A k \in AllHandles : Sound(k, fh'[k])
  BY <1>2 DEF Structures
<1> QED
  BY <1>2, <1>3 DEF Structures

\* What memory that is given to a new structure was before.
LEMMA SlotFree ==
  ASSUME Settings, Structures, Stand, NEW h \in Slots
  PROVE  /\ h \in Handle /\ h \in AllHandles /\ h # NoFile
         /\ fh[h].st = "free" /\ fh[h].on = {} /\ fh[h].fd = None /\ ~fh[h].moved
         /\ \A c \in Client : ~Points(c, h)
<1>1. h \in FreeSlots
  BY DEF Slots
<1>2. h \in Handle /\ fh[h].st # "live" /\ \A c \in Client : at[c] # h /\ old[c] # h
  BY <1>1 DEF FreeSlots
<1>3. h \in AllHandles /\ h # NoFile
  BY <1>2 DEF Settings, AllHandles
<1>4. fh[h].st = "free"
  BY <1>2, <1>3 DEF Structures, Nodes
<1> QED
  BY <1>2, <1>3, <1>4 DEF Structures, Sound, Points

\* While a structure has no descriptor there are fewer open files than structures: open
\* has one left to return.
LEMMA DescriptorFree ==
  ASSUME Settings, Owners, NEW h \in Handle, fh[h].fd = None
  PROVE  Descriptor \in Handle /\ Descriptor \notin fds
<1>1. \E d \in Handle : d \notin fds
  <2> SUFFICES ASSUME Handle \subseteq fds PROVE FALSE
    OBVIOUS
  <2> DEFINE owner == [d \in Handle |-> CHOOSE k \in Handle : fh[k].fd = d]
  <2>1. \A d \in Handle : owner[d] \in Handle /\ fh[owner[d]].fd = d /\ owner[d] # h
    BY DEF Owners, Settings, AllHandles
  <2>2. owner \in [Handle -> Handle \ {h}]
    BY <2>1
  <2>3. /\ IsFiniteSet(Handle \ {h}) /\ Cardinality(Handle) \in Nat
        /\ Cardinality(Handle \ {h}) = Cardinality(Handle) - 1
    BY FS_RemoveElement, FS_CardinalityType DEF Settings
  <2> HIDE DEF owner
  <2>4. PICK d, e \in Handle : d # e /\ owner[d] = owner[e]
    BY <2>2, <2>3, FS_PigeonHole DEF Settings
  <2> QED
    BY <2>1, <2>4
<1> QED
  BY <1>1 DEF Descriptor

\* A structure in a free place that takes a new descriptor.
LEMMA NewFile ==
  ASSUME Settings, Structures, Owners, Cached, Stand, NEW h \in Slots, NEW n,
         NEW m \in Mount, NEW fb \in BOOLEAN, Found(m, fb) = {},
         Sound(h, n), n.st = "live", ~n.del, n.m = m, n.fb = fb, n.fd = Descriptor,
         fh' = [fh EXCEPT ![h] = n], fds' = fds \cup {Descriptor}, cache' = cache \cup {h}
  PROVE  Structures' /\ Owners' /\ Cached'
<1>1. /\ h \in Handle /\ h \in AllHandles /\ fh[h].fd = None /\ fh[h].st = "free"
  BY SlotFree
<1>2. /\ Structures' /\ fh'[h] = n /\ \A k \in AllHandles \ {h} : fh'[k] = fh[k]
  BY <1>1, Placed
<1>3. Descriptor \in Handle /\ Descriptor \notin fds /\ Descriptor # None
  BY <1>1, DescriptorFree DEF Settings, AllHandles
<1>4. Owners'
  <2>1. fh'[h].fd = Descriptor /\ \A k \in Handle \ {h} : fh'[k].fd = fh[k].fd
    BY <1>2 DEF AllHandles
  <2>2. \A k \in Handle : fh'[k].fd \in fds' \cup {None}
    BY <2>1 DEF Owners
  <2>3. \A d \in fds' : \E k \in Handle : fh'[k].fd = d
    <3> SUFFICES ASSUME NEW d \in fds' PROVE \E k \in Handle : fh'[k].fd = d
      OBVIOUS
    <3>1. CASE d = Descriptor
      BY <1>1, <2>1, <3>1
    <3>2. CASE d \in fds
      <4>1. PICK k \in Handle : fh[k].fd = d
        BY <3>2 DEF Owners
      <4>2. k # h
        BY <1>1, <3>2, <4>1 DEF Owners, Settings, AllHandles
      <4> QED
        BY <2>1, <4>1, <4>2
    <3> QED
      BY <3>1, <3>2
  <2>4. \A j, k \in Handle : fh'[j].fd # None /\ fh'[j].fd = fh'[k].fd => j = k
    <3> SUFFICES ASSUME NEW j \in Handle, NEW k \in Handle, fh'[j].fd # None,
                        fh'[j].fd = fh'[k].fd
                 PROVE  j = k
      OBVIOUS
    <3>1. \A i \in Handle \ {h} : fh'[i].fd # Descriptor
      BY <1>3, <2>1 DEF Owners
    <3> QED
      BY <2>1, <3>1 DEF Owners
  <2> QED
    BY <1>3, <2>2, <2>3, <2>4 DEF Owners
<1>5. h \notin cache
  BY <1>1 DEF Cached
<1>6. \A k \in cache : fh'[k] = fh[k]
  BY <1>2, <1>5 DEF Cached
<1>7. \A k \in cache : ~(fh[k].m = m /\ fh[k].fb = fb)
  BY DEF Found
<1>8. Cached'
  BY <1>1, <1>2, <1>5, <1>6, <1>7 DEF Cached
<1> QED
  BY <1>2, <1>4, <1>8

\* A structure that keeps its name, its flags and its file.
LEMMA SameFile ==
  ASSUME Settings, Structures, Owners, Cached, NEW h \in AllHandles, NEW n, Sound(h, n),
         n.st = fh[h].st, n.m = fh[h].m, n.fb = fh[h].fb, n.del = fh[h].del,
         n.fd = fh[h].fd, fh' = [fh EXCEPT ![h] = n], fds' = fds, cache' = cache
  PROVE  Structures' /\ Owners' /\ Cached'
<1>1. /\ Structures' /\ fh'[h] = n /\ \A k \in AllHandles \ {h} : fh'[k] = fh[k]
  BY Placed
<1>2. \A k \in AllHandles : fh'[k].fd = fh[k].fd /\ fh'[k].st = fh[k].st /\ fh'[k].m = fh[k].m
                           /\ fh'[k].fb = fh[k].fb /\ fh'[k].del = fh[k].del
  BY <1>1
<1>3. Owners'
  BY <1>2 DEF Owners, AllHandles
<1>4. Cached'
  BY <1>2 DEF Cached
<1> QED
  BY <1>1, <1>3, <1>4

(***************************************************************************)
(* A client is put on a handle                                             *)
(***************************************************************************)

\* h is the handle that client c comes to: one that others may be on, or a new one.
Taken(c, h) ==
    /\ fh'[h].st = "live"
    /\ \A k \in AllHandles \ {h} : fh'[k] = fh[k]
    /\ \/ /\ fh[h].st = "live" /\ ~fh[h].moved /\ fh[h].tree
          /\ fh'[h].tree /\ fh'[h].on = fh[h].on \cup {c} /\ ~fh'[h].moved
       \/ /\ fh[h].st = "free" /\ fh[h].on = {} /\ \A d \in Client : ~Points(d, h)
          /\ IF fh'[h].tree THEN fh'[h].on = {c} ELSE fh'[h].on = {}

\* Client c comes to a handle that it was not on, from none or from one that it will leave.
Comes(c, h) ==
    /\ at' = [at EXCEPT ![c] = h]
    /\ pc' = [pc EXCEPT ![c] = "buffer"]
    /\ lost' = lost
    /\ \/ at[c] = None /\ old' = old
       \/ /\ at[c] # None /\ old[c] = None /\ fh[at[c]].moved
          /\ old' = [old EXCEPT ![c] = at[c]]

\* A client that is on no handle in use by others is in no tree that it could be put in.
LEMMA NotYetIn ==
  ASSUME Settings, IInv, ~torn, NEW c \in Client, c \notin lost,
         at[c] = None \/ (old[c] = None /\ fh[at[c]].moved)
  PROVE  \A h \in AllHandles : ~fh[h].moved => c \notin fh[h].on
<1> SUFFICES ASSUME NEW h \in AllHandles, ~fh[h].moved, c \in fh[h].on PROVE FALSE
  OBVIOUS
<1>1. Points(c, h)
  BY DEF IInv, Known
<1>2. old[c] # None => fh[old[c]].moved
  BY DEF IInv, Overridden
<1> QED
  BY <1>1, <1>2 DEF Points

LEMMA Arrives ==
  ASSUME Settings, IInv, ~torn, NEW c \in Client, NEW h \in AllHandles,
         Taken(c, h), Comes(c, h), c \notin lost
  PROVE  Stand' /\ Overridden' /\ Kept' /\ Known'
<1>1. /\ Stand /\ Overridden /\ Kept /\ Known /\ Structures /\ h # None
  BY DEF IInv, Settings
<1>2. at[c] # None => at[c] \in Handle
  <2>1. at[c] # None => at[c] \in AllHandles /\ fh[at[c]].moved
    BY <1>1 DEF Comes, Stand
  <2> QED
    BY <2>1, <1>1 DEF Structures, Sound, AllHandles
<1>3. ~Points(c, h) /\ \A d \in Client : old[d] # h \/ old[d] = None
  <2>1. \A d \in Client : old[d] # None => fh[old[d]].moved /\ Points(d, old[d])
    BY <1>1 DEF Overridden, Points
  <2>2. at[c] # None => fh[at[c]].moved /\ Points(c, at[c])
    BY DEF Comes, Points
  <2> QED
    BY <2>1, <2>2 DEF Taken, Points
<1>4. \A d \in Client, k \in AllHandles :
         Points(d, k)' <=> Points(d, k) \/ (d = c /\ k = h)
  <2> SUFFICES ASSUME NEW d \in Client, NEW k \in AllHandles
               PROVE  Points(d, k)' <=> Points(d, k) \/ (d = c /\ k = h)
    OBVIOUS
  <2>1. CASE d = c
    BY <2>1, <1>1 DEF Comes, Points, Stand
  <2>2. CASE d # c
    BY <2>2, <1>1 DEF Comes, Points, Stand
  <2> QED
    BY <2>1, <2>2
<1>5. Stand'
  <2>1. /\ at' \in [Client -> AllHandles \cup {None}] /\ pc' \in [Client -> Places]
        /\ old' \in [Client -> Handle \cup {None}] /\ lost' \subseteq Client
    BY <1>1, <1>2 DEF Comes, Stand, Places
  <2>2. ASSUME NEW d \in Client
        PROVE  /\ at'[d] = None <=> pc'[d] \in {"out", "source", "gone"}
               /\ old'[d] # None => /\ pc'[d] \in {"source", "buffer", "gone"}
                                     /\ at'[d] # old'[d]
               /\ d \in lost' => pc'[d] \in {"leaving", "gone"} /\ old'[d] = None
    <3>1. CASE d = c
      BY <3>1, <1>1, <1>3 DEF Comes, Stand, Points
    <3>2. CASE d # c
      BY <3>2, <1>1 DEF Comes, Stand
    <3> QED
      BY <3>1, <3>2
  <2> QED
    BY <2>1, <2>2 DEF Stand
<1>6. Overridden'
  <2> SUFFICES ASSUME NEW d \in Client, old'[d] # None PROVE fh'[old'[d]].moved
    BY DEF Overridden
  <2>1. old'[d] \in AllHandles /\ old'[d] # h /\ fh[old'[d]].moved
    <3>1. CASE d = c /\ at[c] # None
      BY <3>1, <1>1, <1>2, <1>3 DEF Comes, Stand, Points, AllHandles
    <3>2. CASE ~(d = c /\ at[c] # None)
      BY <3>2, <1>1, <1>3 DEF Comes, Stand, Overridden, AllHandles
    <3> QED
      BY <3>1, <3>2
  <2> QED
    BY <2>1 DEF Taken
<1>7. Kept'
  <2> SUFFICES ASSUME NEW k \in AllHandles, NEW d \in Client, Points(d, k)'
               PROVE  /\ fh'[k].st = "live"
                      /\ IF fh'[k].tree THEN d \in fh'[k].on
                         ELSE \A e \in Client : Points(e, k)' => e = d
    BY DEF Kept
  <2>1. CASE k = h
    BY <2>1, <1>1, <1>3, <1>4 DEF Taken, Kept
  <2>2. CASE k # h
    BY <2>2, <1>1, <1>4 DEF Taken, Kept
  <2> QED
    BY <2>1, <2>2
<1>8. Known'
  <2> SUFFICES ASSUME NEW k \in AllHandles, NEW d \in fh'[k].on
               PROVE  Points(d, k)' \/ d \in lost'
    BY DEF Known
  <2>1. CASE k = h
    BY <2>1, <1>1, <1>4 DEF Taken, Known, Comes, Structures, Sound, Nodes
  <2>2. CASE k # h
    BY <2>2, <1>1, <1>4 DEF Taken, Known, Comes, Structures, Sound, Nodes
  <2> QED
    BY <2>1, <2>2
<1> QED
  BY <1>5, <1>6, <1>7, <1>8

(***************************************************************************)
(* A client leaves a handle                                                *)
(***************************************************************************)

\* remove_from_fh: nobody else is left on a handle that it frees.
LEMMA Leaves ==
  ASSUME Settings, IInv, ~torn, NEW c \in Client, NEW h \in AllHandles,
         Points(c, h), RemoveFromFh(h, c), lost' = lost,
         \A d \in Client, k \in AllHandles :
             Points(d, k)' <=> Points(d, k) /\ ~(d = c /\ k = h)
  PROVE  /\ Structures' /\ Owners' /\ Cached' /\ Kept' /\ Known'
         /\ \A k \in AllHandles : fh[k].moved /\ (\E d \in Client : Points(d, k)') => fh'[k].moved
<1>1. /\ Structures /\ Owners /\ Cached /\ Kept /\ Known
  BY DEF IInv
<1> DEFINE n == fh[h]
<1> DEFINE l == Left(n, c)
<1>2. Sound(h, n) /\ n.st = "live" /\ (n.tree => c \in n.on)
      /\ (~n.tree => \A d \in Client : Points(d, h) => d = c)
  BY <1>1 DEF Structures, Kept
<1> HIDE DEF n
<1>3. /\ Sound(h, l)
      /\ l.st = "live" => /\ l.on = n.on \ {c} /\ l.m = n.m /\ l.fb = n.fb
                          /\ l.del = n.del /\ l.fd = n.fd /\ l.moved = n.moved
                          /\ l.tree /\ n.tree
      /\ l.st = "free" => /\ h # NoFile /\ n.del /\ n.on \subseteq {c}
                          /\ l.on = {} /\ l.fd = None
  BY <1>2, LeftSound
<1>4. fh' = [fh EXCEPT ![h] = l] /\ cache' = cache
  BY DEF RemoveFromFh, n
<1> HIDE DEF l
<1>5. Structures' /\ fh'[h] = l /\ \A k \in AllHandles \ {h} : fh'[k] = fh[k]
  BY <1>1, <1>3, <1>4, Placed
<1>6. l.st \in {"live", "free"} /\ n = fh[h]
  BY <1>3 DEF Sound, Nodes, n
<1>7. CASE l.st = "live"
  <2>1. fds' = fds
    BY <1>5, <1>7 DEF RemoveFromFh
  <2>2. Owners' /\ Cached'
    BY <2>1, <1>1, <1>2, <1>3, <1>4, <1>6, <1>7, SameFile
  <2>3. Kept'
    <3> SUFFICES ASSUME NEW k \in AllHandles, NEW d \in Client, Points(d, k)'
                 PROVE  /\ fh'[k].st = "live"
                        /\ IF fh'[k].tree THEN d \in fh'[k].on
                           ELSE \A e \in Client : Points(e, k)' => e = d
      BY DEF Kept
    <3>1. CASE k = h
      BY <3>1, <1>1, <1>3, <1>5, <1>6, <1>7 DEF Kept
    <3>2. CASE k # h
      BY <3>2, <1>1, <1>5 DEF Kept
    <3> QED
      BY <3>1, <3>2
  <2>4. Known'
    <3> SUFFICES ASSUME NEW k \in AllHandles, NEW d \in fh'[k].on
                 PROVE  Points(d, k)' \/ d \in lost'
      BY DEF Known
    <3>1. d \in Client
      BY <1>5 DEF Structures, Sound, Nodes
    <3>2. d \in fh[k].on /\ ~(d = c /\ k = h)
      BY <1>3, <1>5, <1>6, <1>7
    <3> QED
      BY <3>1, <3>2, <1>1 DEF Known
  <2> QED
    BY <2>2, <2>3, <2>4, <1>3, <1>5, <1>6, <1>7
<1>8. CASE l.st = "free"
  <2>1. fds' = fds \ {n.fd} /\ h \in Handle
    BY <1>3, <1>5, <1>6, <1>8 DEF RemoveFromFh, AllHandles
  <2>2. Owners'
    BY <2>1, <1>1, <1>3, <1>5, <1>6, <1>8 DEF Owners, AllHandles
  <2>3. h \notin cache
    BY <1>1, <1>3, <1>6, <1>8 DEF Cached
  <2>4. Cached'
    BY <2>3, <1>1, <1>4, <1>5 DEF Cached
  <2>5. \A d \in Client : ~Points(d, h)'
    BY <1>1, <1>2, <1>3, <1>6, <1>8 DEF Kept
  <2>6. Kept'
    BY <2>5, <1>1, <1>5 DEF Kept
  <2>7. Known'
    <3> SUFFICES ASSUME NEW k \in AllHandles, NEW d \in fh'[k].on
                 PROVE  Points(d, k)' \/ d \in lost'
      BY DEF Known
    <3>1. d \in Client /\ k # h /\ d \in fh[k].on
      BY <1>3, <1>5, <1>8 DEF Structures, Sound, Nodes
    <3> QED
      BY <3>1, <1>1 DEF Known
  <2> QED
    BY <2>2, <2>4, <2>5, <2>6, <2>7, <1>5
<1> QED
  BY <1>6, <1>7, <1>8

(***************************************************************************)
(* The actions                                                             *)
(***************************************************************************)

\* fserve_setup_client_fb finds or opens the file.
LEMMA JoinsFile ==
  ASSUME Settings, IInv, ~torn, NEW c \in Client, NEW m \in Mount, NEW fb \in BOOLEAN,
         c \notin lost, at[c] = None \/ (old[c] = None /\ fh[at[c]].moved),
         JoinFile(c, m, fb)
  PROVE  /\ Structures' /\ Owners' /\ Cached'
         /\ \E h \in AllHandles : at' = [at EXCEPT ![c] = h] /\ Taken(c, h)
<1>1. Structures /\ Owners /\ Cached /\ Stand
  BY DEF IInv
<1>2. ASSUME NEW h \in Found(m, fb), fh' = [fh EXCEPT ![h] = Joined(@, c)],
             at' = [at EXCEPT ![c] = h], UNCHANGED <<cache, fds>>
      PROVE  Structures' /\ Owners' /\ Cached' /\ h \in AllHandles /\ Taken(c, h)
  <2> DEFINE j == Joined(fh[h], c)
  <2>1. h \in AllHandles /\ fh[h].st = "live" /\ ~fh[h].del /\ Sound(h, fh[h])
    BY <1>1 DEF Found, Cached, Structures
  <2>2. ~fh[h].moved /\ fh[h].tree
    BY <2>1 DEF Sound
  <2>3. c \notin fh[h].on
    BY <2>1, <2>2, NotYetIn
  <2>4. /\ Sound(h, j)
        /\ j.st = "live" /\ j.tree /\ j.on = fh[h].on \cup {c} /\ j.m = fh[h].m
        /\ j.fb = fh[h].fb /\ j.del = fh[h].del /\ j.fd = fh[h].fd
        /\ j.moved = fh[h].moved
    BY <2>1, <2>2, <2>3, JoinedSound
  <2>5. fh' = [fh EXCEPT ![h] = j] /\ cache' = cache /\ fds' = fds
    BY <1>2
  <2> HIDE DEF j
  <2>6. Structures' /\ Owners' /\ Cached'
    BY <1>1, <2>1, <2>4, <2>5, SameFile
  <2>7. fh'[h] = j /\ \A k \in AllHandles \ {h} : fh'[k] = fh[k]
    BY <1>1, <2>1, <2>4, <2>5, Placed
  <2> QED
    BY <2>1, <2>2, <2>4, <2>6, <2>7 DEF Taken
<1>3. ASSUME NEW h \in Slots, Found(m, fb) = {},
             fh' = [fh EXCEPT ![h] = Joined(Node(m, fb, Descriptor), c)],
             cache' = cache \cup {h}, fds' = fds \cup {Descriptor},
             at' = [at EXCEPT ![c] = h]
      PROVE  Structures' /\ Owners' /\ Cached' /\ h \in AllHandles /\ Taken(c, h)
  <2> DEFINE n == Node(m, fb, Descriptor)
  <2> DEFINE j == Joined(n, c)
  <2>1. /\ h \in Handle /\ h \in AllHandles /\ fh[h].fd = None /\ fh[h].st = "free"
        /\ fh[h].on = {} /\ \A d \in Client : ~Points(d, h)
    BY <1>1, SlotFree
  <2>2. Descriptor \in Handle
    BY <1>1, <2>1, DescriptorFree
  <2>3. /\ Sound(h, n)
        /\ n.st = "live" /\ n.m = m /\ n.fb = fb /\ n.fd = Descriptor /\ n.on = {}
        /\ n.tree /\ ~n.del /\ ~n.moved
    BY <2>1, <2>2, NodeSound
  <2> HIDE DEF n
  <2>4. /\ Sound(h, j)
        /\ j.st = "live" /\ j.tree /\ j.on = n.on \cup {c} /\ j.m = n.m /\ j.fb = n.fb
        /\ j.del = n.del /\ j.fd = n.fd /\ j.moved = n.moved
    BY <2>1, <2>3, JoinedSound
  <2>5. fh' = [fh EXCEPT ![h] = j]
    BY <1>3 DEF n
  <2> HIDE DEF j
  <2>6. Structures' /\ Owners' /\ Cached'
    BY <1>1, <1>3, <2>3, <2>4, <2>5, NewFile
  <2>7. fh'[h] = j /\ \A k \in AllHandles \ {h} : fh'[k] = fh[k]
    BY <1>1, <2>1, <2>4, <2>5, Placed
  <2> QED
    BY <2>1, <2>3, <2>4, <2>6, <2>7 DEF Taken
<1> QED
  BY <1>2, <1>3 DEF JoinFile

\* fserve_setup_client for a prepared response.
LEMMA JoinsResponse ==
  ASSUME Settings, IInv, ~torn, NEW c \in Client, NEW own \in BOOLEAN,
         c \notin lost, at[c] = None \/ (old[c] = None /\ fh[at[c]].moved),
         JoinResponse(c, own)
  PROVE  /\ Structures' /\ Owners' /\ Cached'
         /\ \E h \in AllHandles : at' = [at EXCEPT ![c] = h] /\ Taken(c, h)
<1>1. Structures /\ Owners /\ Cached /\ Stand /\ UNCHANGED <<cache, fds>>
  BY DEF IInv, JoinResponse
<1>2. CASE own
  <2> DEFINE m == CHOOSE m \in Mount : TRUE
  <2> DEFINE n == Node(m, FALSE, None)
  <2> DEFINE j == [n EXCEPT !.del = TRUE, !.refs = 1, !.tree = FALSE]
  <2>1. PICK h \in Slots : fh' = [fh EXCEPT ![h] = j] /\ at' = [at EXCEPT ![c] = h]
    BY <1>2 DEF JoinResponse
  <2>2. /\ h \in Handle /\ h \in AllHandles /\ fh[h].fd = None /\ fh[h].st = "free"
        /\ fh[h].on = {} /\ h # NoFile /\ \A d \in Client : ~Points(d, h)
    BY <1>1, SlotFree
  <2>3. m \in Mount /\ m # None
    BY DEF Settings
  <2> HIDE DEF m
  <2>4. /\ Sound(h, n)
        /\ n.st = "live" /\ n.m = m /\ n.fb = FALSE /\ n.fd = None /\ n.on = {}
        /\ n.tree /\ ~n.del /\ ~n.moved
    <3>1. FALSE \in BOOLEAN /\ None \in Handle \cup {None} /\ h \in Handle /\ m \in Mount
      BY <2>2, <2>3
    <3> HIDE DEF n
    <3>2. \A b \in BOOLEAN, d \in Handle \cup {None} : LET k == Node(m, b, d) IN
             /\ Sound(h, k)
             /\ k.st = "live" /\ k.m = m /\ k.fb = b /\ k.fd = d /\ k.on = {} /\ k.tree
             /\ ~k.del /\ ~k.moved
      BY <3>1, NodeSound
    <3> QED
      BY <3>1, <3>2, Zenon DEF n
  <2> HIDE DEF n
  <2>5. n \in Nodes
    BY <2>4 DEF Sound
  <2>6. /\ j \in Nodes /\ j.st = "live" /\ j.m = m /\ j.fb = FALSE /\ j.fd = None /\ j.on = {}
        /\ ~j.tree /\ j.del /\ ~j.moved /\ j.refs = 1
    BY <2>4, <2>5 DEF Nodes
  <2> HIDE DEF j
  <2>7. Sound(h, j)
    BY <2>2, <2>3, <2>6, FS_EmptySet DEF Sound
  <2>8. Structures' /\ fh'[h] = j /\ \A k \in AllHandles \ {h} : fh'[k] = fh[k]
    BY <1>1, <2>1, <2>2, <2>7, Placed
  <2>9. \A k \in Handle : fh'[k].fd = fh[k].fd
    BY <2>2, <2>6, <2>8 DEF AllHandles
  <2>10. Owners'
    BY <1>1, <2>9 DEF Owners
  <2>11. h \notin cache
    BY <1>1, <2>2 DEF Cached
  <2>12. Cached'
    BY <1>1, <2>8, <2>11 DEF Cached
  <2> QED
    BY <2>1, <2>2, <2>6, <2>8, <2>10, <2>12 DEF Taken
<1>3. CASE ~own
  <2> DEFINE h == NoFile
  <2> DEFINE j == Joined(fh[h], c)
  <2>1. h \in AllHandles /\ Sound(h, fh[h])
    BY <1>1 DEF AllHandles, Structures
  <2>2. fh[h].st = "live" /\ ~fh[h].moved /\ fh[h].tree
    BY <2>1 DEF Sound
  <2>3. c \notin fh[h].on
    BY <2>1, <2>2, NotYetIn
  <2>4. /\ Sound(h, j)
        /\ j.st = "live" /\ j.tree /\ j.on = fh[h].on \cup {c} /\ j.m = fh[h].m
        /\ j.fb = fh[h].fb /\ j.del = fh[h].del /\ j.fd = fh[h].fd
        /\ j.moved = fh[h].moved
    BY <2>1, <2>2, <2>3, JoinedSound
  <2>5. fh' = [fh EXCEPT ![h] = j] /\ at' = [at EXCEPT ![c] = h]
    BY <1>3 DEF JoinResponse
  <2> HIDE DEF j
  <2>6. Structures' /\ Owners' /\ Cached'
    BY <1>1, <2>1, <2>2, <2>4, <2>5, SameFile
  <2>7. fh'[h] = j /\ \A k \in AllHandles \ {h} : fh'[k] = fh[k]
    BY <1>1, <2>1, <2>4, <2>5, Placed
  <2> QED
    BY <2>1, <2>2, <2>4, <2>5, <2>6, <2>7 DEF Taken
<1> QED
  BY <1>2, <1>3

\* Requests, fallbacks, and the moves that put a client on another handle.
LEMMA ClientComes ==
  ASSUME Settings, IInv, NEW c \in Client, NEW m \in Mount,
         \/ RequestFile(c, m) \/ RequestResponse(c) \/ JoinFallback(c, m)
         \/ FallBack(c, m) \/ MoveToFile(c, m)
  PROVE  IInv'
<1>1. /\ Rest /\ Stand /\ ~torn /\ running
      /\ UNCHANGED <<err, listeners, running, torn, lost>>
      /\ auth' \subseteq Client /\ pc' = [pc EXCEPT ![c] = "buffer"]
  BY DEF IInv, Rest, RequestFile, RequestResponse, JoinFallback, FallBack, MoveToFile, Moving
<1>2. c \notin lost
  BY <1>1 DEF Stand, RequestFile, RequestResponse, JoinFallback, FallBack, MoveToFile,
              Moving
<1>3. \/ at[c] = None /\ old' = old
      \/ /\ at[c] # None /\ old[c] = None /\ fh[at[c]].moved
         /\ old' = [old EXCEPT ![c] = at[c]]
  <2>1. CASE MoveToFile(c, m)
    BY <2>1, <1>1 DEF MoveToFile, Moving, Stand
  <2>2. CASE ~MoveToFile(c, m)
    BY <2>2, <1>1 DEF Stand, RequestFile, RequestResponse, JoinFallback, FallBack
  <2> QED
    BY <2>1, <2>2
<1>4. \/ JoinFile(c, m, FALSE) \/ JoinFile(c, m, TRUE)
      \/ JoinResponse(c, TRUE) \/ JoinResponse(c, FALSE)
  BY DEF RequestFile, RequestResponse, JoinFallback, FallBack, MoveToFile
<1>5. /\ Structures' /\ Owners' /\ Cached'
      /\ \E h \in AllHandles : at' = [at EXCEPT ![c] = h] /\ Taken(c, h)
  <2>1. \A fb \in BOOLEAN : JoinFile(c, m, fb) =>
           /\ Structures' /\ Owners' /\ Cached'
           /\ \E h \in AllHandles : at' = [at EXCEPT ![c] = h] /\ Taken(c, h)
    BY <1>1, <1>2, <1>3, JoinsFile
  <2>2. \A own \in BOOLEAN : JoinResponse(c, own) =>
           /\ Structures' /\ Owners' /\ Cached'
           /\ \E h \in AllHandles : at' = [at EXCEPT ![c] = h] /\ Taken(c, h)
    BY <1>1, <1>2, <1>3, JoinsResponse
  <2> QED
    BY <1>4, <2>1, <2>2
<1>6. PICK h \in AllHandles : at' = [at EXCEPT ![c] = h] /\ Taken(c, h)
  BY <1>5
<1>7. Comes(c, h)
  BY <1>1, <1>3, <1>6 DEF Comes
<1>8. Stand' /\ Overridden' /\ Kept' /\ Known'
  BY <1>1, <1>2, <1>6, <1>7, Arrives
<1>9. Rest'
  BY <1>1 DEF Rest
<1> QED
  BY <1>5, <1>8, <1>9 DEF IInv

\* file_release and the end of fserve_move_listener take a client off a handle.
LEMMA ClientLeaves ==
  ASSUME Settings, IInv, NEW c \in Client, ReleaseHandle(c) \/ LeaveOld(c)
  PROVE  IInv'
<1>1. /\ Rest /\ Stand /\ ~torn /\ Overridden /\ Kept
      /\ UNCHANGED <<listeners, running, torn, lost>>
      /\ auth' \subseteq Client /\ err' \subseteq Client
  BY DEF IInv, Rest, ReleaseHandle, LeaveOld
<1>2. \E h \in AllHandles :
         /\ Points(c, h) /\ RemoveFromFh(h, c)
         /\ \A d \in Client, k \in AllHandles :
                Points(d, k)' <=> Points(d, k) /\ ~(d = c /\ k = h)
  <2>1. CASE ReleaseHandle(c)
    <3>1. at[c] \in AllHandles /\ at[c] # None /\ old[c] = None /\ RemoveFromFh(at[c], c)
      BY <2>1, <1>1 DEF ReleaseHandle, Stand
    <3>2. \A d \in Client, k \in AllHandles :
             Points(d, k)' <=> Points(d, k) /\ ~(d = c /\ k = at[c])
      BY <2>1, <3>1, <1>1 DEF ReleaseHandle, Stand, Points
    <3> QED
      BY <3>1, <3>2 DEF Points
  <2>2. CASE LeaveOld(c)
    <3>1. old[c] \in AllHandles /\ old[c] # None /\ at[c] # old[c] /\ RemoveFromFh(old[c], c)
      BY <2>2, <1>1 DEF LeaveOld, Stand, AllHandles
    <3>2. \A d \in Client, k \in AllHandles :
             Points(d, k)' <=> Points(d, k) /\ ~(d = c /\ k = old[c])
      BY <2>2, <3>1, <1>1 DEF LeaveOld, Stand, Points
    <3> QED
      BY <3>1, <3>2 DEF Points
  <2> QED
    BY <2>1, <2>2
<1>3. PICK h \in AllHandles :
         /\ Points(c, h) /\ RemoveFromFh(h, c)
         /\ \A d \in Client, k \in AllHandles :
                Points(d, k)' <=> Points(d, k) /\ ~(d = c /\ k = h)
  BY <1>2
<1>4. /\ Structures' /\ Owners' /\ Cached' /\ Kept' /\ Known'
      /\ \A k \in AllHandles :
            fh[k].moved /\ (\E d \in Client : Points(d, k)') => fh'[k].moved
  BY <1>1, <1>3, Leaves
<1>5. Stand'
  BY <1>1 DEF Stand, ReleaseHandle, LeaveOld, Places
<1>6. Overridden'
  <2> SUFFICES ASSUME NEW d \in Client, old'[d] # None PROVE fh'[old'[d]].moved
    BY DEF Overridden
  <2>1. old'[d] = old[d] /\ old[d] \in AllHandles /\ fh[old[d]].moved
    BY <1>1 DEF Stand, ReleaseHandle, LeaveOld, Overridden, AllHandles
  <2>2. Points(d, old[d])'
    BY <2>1 DEF Points
  <2> QED
    BY <2>1, <2>2, <1>4
<1>7. Rest'
  BY <1>1 DEF Rest, ReleaseHandle, LeaveOld, RemoveFromFh
<1> QED
  BY <1>1, <1>4, <1>5, <1>6, <1>7 DEF IInv

\* Steps of a client that leave the handles as they are.
LEMMA ClientStays ==
  ASSUME Settings, IInv, NEW c \in Client,
         \/ JoinSource(c) \/ LeaveSource(c) \/ ReleaseCount(c) \/ StartFile(c)
         \/ ConnectionError(c) \/ MoveToSource(c) \/ MoveFails(c)
  PROVE  IInv'
<1>1. /\ Rest /\ Stand /\ ~torn /\ Overridden /\ Kept /\ Known /\ Structures
      /\ Owners /\ Cached /\ UNCHANGED <<fh, cache, fds, running, torn>>
      /\ auth' \subseteq Client /\ err' \subseteq Client
  BY DEF IInv, Rest, fvars, JoinSource, LeaveSource, ReleaseCount, StartFile,
         ConnectionError, MoveToSource, MoveFails, Moving
<1>2. listeners' \in Int
  BY <1>1 DEF Rest, JoinSource, LeaveSource, ReleaseCount, StartFile, ConnectionError,
              MoveToSource, MoveFails
<1>3. Rest' /\ Structures' /\ Owners' /\ Cached'
  BY <1>1, <1>2 DEF Rest, Structures, Owners, Cached
<1>4. CASE MoveToSource(c)
  <2>1. at[c] \in Handle /\ old[c] = None /\ at[c] # None /\ fh[at[c]].moved /\ c \notin lost
    <3>1. /\ at[c] \in AllHandles /\ at[c] # None /\ old[c] = None /\ fh[at[c]].moved
          /\ c \notin lost
      BY <1>1, <1>4 DEF MoveToSource, Moving, Stand
    <3> QED
      BY <3>1, <1>1 DEF Structures, Sound, AllHandles
  <2>2. Stand' /\ Overridden'
    BY <2>1, <1>1, <1>4 DEF MoveToSource, Stand, Places, Overridden
  <2>3. \A d \in Client, k \in AllHandles : Points(d, k)' <=> Points(d, k)
    BY <2>1, <1>1, <1>4 DEF MoveToSource, Stand, Points
  <2>4. lost' = lost
    BY <1>4 DEF MoveToSource
  <2>5. Kept'
    BY <2>3, <1>1 DEF Kept
  <2>6. Known'
    BY <2>3, <2>4, <1>1 DEF Known, Structures, Sound, Nodes
  <2> QED
    BY <2>2, <2>5, <2>6, <1>1, <1>3 DEF IInv
<1>5. CASE MoveFails(c)
  <2>1. Stand' /\ Overridden'
    BY <1>1, <1>5 DEF MoveFails, Stand, Places, Overridden
  <2>2. \A d \in Client, k \in AllHandles :
           /\ Points(d, k)' => Points(d, k)
           /\ Points(d, k) => Points(d, k)' \/ d = c
    BY <1>1, <1>5 DEF MoveFails, Stand, Points
  <2>3. lost' = lost \cup {c}
    BY <1>5 DEF MoveFails
  <2>4. Kept'
    BY <2>2, <1>1 DEF Kept
  <2>5. Known'
    BY <2>2, <2>3, <1>1 DEF Known, Structures, Sound, Nodes
  <2> QED
    BY <2>1, <2>4, <2>5, <1>1, <1>3 DEF IInv
<1>6. CASE ~MoveToSource(c) /\ ~MoveFails(c)
  <2>1. UNCHANGED <<at, old, lost>>
    BY <1>6 DEF JoinSource, LeaveSource, ReleaseCount, StartFile, ConnectionError
  <2>2. Stand'
    BY <2>1, <1>1, <1>6 DEF JoinSource, LeaveSource, ReleaseCount, StartFile,
                            ConnectionError, Stand, Places
  <2>3. Overridden' /\ Kept' /\ Known'
    BY <2>1, <1>1 DEF Overridden, Kept, Known, Points
  <2> QED
    BY <2>2, <2>3, <1>1, <1>3 DEF IInv
<1> QED
  BY <1>4, <1>5, <1>6

(***************************************************************************)
(* Steps of other threads: the clients stay where they are                 *)
(***************************************************************************)

\* A handle that clients point to stays, with its tree.
LEMMA HandlesChange ==
  ASSUME Settings, IInv, ~torn, Structures', UNCHANGED <<cvars, torn>>,
         \A h \in AllHandles :
            \/ /\ fh'[h].st = fh[h].st /\ fh'[h].on = fh[h].on /\ fh'[h].tree = fh[h].tree
               /\ fh[h].moved => fh'[h].moved
            \/ fh'[h].on = {} /\ \A c \in Client : ~Points(c, h)
  PROVE  Stand' /\ Overridden' /\ Kept' /\ Known'
<1>1. Stand /\ Overridden /\ Kept /\ Known /\ UNCHANGED <<at, old, pc, lost, torn>>
  BY DEF IInv, cvars
<1>2. \A c, h : Points(c, h)' <=> Points(c, h)
  BY <1>1 DEF Points
<1>3. Stand'
  BY <1>1 DEF Stand
<1>4. Overridden'
  BY <1>1 DEF Overridden, Stand, Points, AllHandles
<1>5. Kept'
  BY <1>1, <1>2 DEF Kept
<1>6. Known'
  BY <1>1, <1>2 DEF Known
<1> QED
  BY <1>3, <1>4, <1>5, <1>6

\* fserve_query_count opens a fallback file, or puts off the end of an open one.
LEMMA Queried ==
  ASSUME Settings, IInv, NEW m \in Mount, QueryCount(m)
  PROVE  IInv'
<1>1. /\ Structures /\ Owners /\ Cached /\ Stand /\ Rest /\ ~torn
      /\ UNCHANGED <<cvars, listeners, running, torn>>
  BY DEF IInv, QueryCount
<1>2. Rest'
  BY <1>1 DEF Rest, QueryCount, cvars
<1>3. ASSUME NEW h \in Slots, Opened(h, m, TRUE)
      PROVE  IInv'
  <2> DEFINE n == Node(m, TRUE, Descriptor)
  <2>1. /\ h \in Handle /\ h \in AllHandles /\ fh[h].fd = None
        /\ \A d \in Client : ~Points(d, h)
    BY <1>1, SlotFree
  <2>2. Descriptor \in Handle
    BY <1>1, <2>1, DescriptorFree
  <2>3. /\ Sound(h, n)
        /\ n.st = "live" /\ n.m = m /\ n.fb = TRUE /\ n.fd = Descriptor /\ n.on = {}
        /\ n.tree /\ ~n.del /\ ~n.moved
    <3>1. TRUE \in BOOLEAN /\ Descriptor \in Handle \cup {None} /\ h \in Handle
      BY <2>1, <2>2
    <3> HIDE DEF n
    <3>2. \A b \in BOOLEAN, d \in Handle \cup {None} : LET k == Node(m, b, d) IN
             /\ Sound(h, k)
             /\ k.st = "live" /\ k.m = m /\ k.fb = b /\ k.fd = d /\ k.on = {} /\ k.tree
             /\ ~k.del /\ ~k.moved
      BY <3>1, NodeSound
    <3> QED
      BY <3>1, <3>2, Zenon DEF n
  <2>4. /\ fh' = [fh EXCEPT ![h] = n] /\ fds' = fds \cup {Descriptor}
        /\ cache' = cache \cup {h} /\ Found(m, TRUE) = {}
    BY <1>3 DEF Opened
  <2> HIDE DEF n
  <2>5. Structures' /\ Owners' /\ Cached'
    BY <1>1, <2>3, <2>4, NewFile
  <2>6. fh'[h] = n /\ \A k \in AllHandles \ {h} : fh'[k] = fh[k]
    BY <1>1, <2>1, <2>3, <2>4, Placed
  <2>7. Stand' /\ Overridden' /\ Kept' /\ Known'
    BY <1>1, <2>1, <2>3, <2>5, <2>6, HandlesChange
  <2> QED
    BY <1>2, <2>5, <2>7 DEF IInv
<1>4. ASSUME NEW h \in Found(m, TRUE), fh' = [fh EXCEPT ![h].never = TRUE],
             UNCHANGED <<cache, fds>>
      PROVE  IInv'
  <2> DEFINE n == [fh[h] EXCEPT !.never = TRUE]
  <2>1. h \in AllHandles /\ Sound(h, fh[h]) /\ fh[h] \in Nodes
    BY <1>1 DEF Found, Cached, Structures
  <2>2. /\ n \in Nodes /\ n.st = fh[h].st /\ n.m = fh[h].m /\ n.fb = fh[h].fb
        /\ n.del = fh[h].del /\ n.fd = fh[h].fd /\ n.on = fh[h].on /\ n.tree = fh[h].tree
        /\ n.moved = fh[h].moved /\ n.refs = fh[h].refs
    BY <2>1 DEF Nodes
  <2>3. fh' = [fh EXCEPT ![h] = n]
    BY <1>4
  <2> HIDE DEF n
  <2>4. Sound(h, n)
    BY <2>1, <2>2 DEF Sound
  <2>5. Structures' /\ Owners' /\ Cached'
    BY <1>1, <1>4, <2>1, <2>2, <2>3, <2>4, SameFile
  <2>6. fh'[h] = n /\ \A k \in AllHandles \ {h} : fh'[k] = fh[k]
    BY <1>1, <2>1, <2>3, <2>4, Placed
  <2>7. Stand' /\ Overridden' /\ Kept' /\ Known'
    BY <1>1, <2>2, <2>5, <2>6, HandlesChange
  <2> QED
    BY <1>2, <2>5, <2>7 DEF IInv
<1> QED
  BY <1>3, <1>4 DEF QueryCount

\* fserve_set_override: the copy takes the file, the clients stay on the old structure.
LEMMA Overrides ==
  ASSUME Settings, IInv, NEW m \in Mount, SetOverride(m)
  PROVE  IInv'
<1>1. /\ Structures /\ Owners /\ Cached /\ Stand /\ Rest /\ ~torn
      /\ UNCHANGED <<fds, cvars, listeners, running, torn>>
  BY DEF IInv, SetOverride
<1>2. PICK h \in Found(m, TRUE), n \in Slots :
         /\ fh' = [fh EXCEPT ![n] = Node(m, TRUE, fh[h].fd),
                             ![h].del = TRUE, ![h].fb = FALSE, ![h].fd = None,
                             ![h].moved = TRUE]
         /\ cache' = (cache \ {h}) \cup {n}
  BY DEF SetOverride
<1>3. /\ h \in cache /\ h \in AllHandles /\ Sound(h, fh[h]) /\ fh[h] \in Nodes
      /\ fh[h].st = "live" /\ ~fh[h].del /\ fh[h].m = m /\ fh[h].fb = TRUE
  BY <1>1, <1>2 DEF Found, Cached, Structures
<1>4. h \in Handle /\ fh[h].tree
  BY <1>3 DEF Sound, AllHandles, Settings
<1>5. /\ n \in Handle /\ n \in AllHandles /\ n # NoFile /\ fh[n].st = "free"
      /\ fh[n].fd = None /\ \A d \in Client : ~Points(d, n)
  BY <1>1, SlotFree
<1>6. n # h /\ n \notin cache
  BY <1>1, <1>3, <1>5 DEF Cached
<1> DEFINE c == Node(m, TRUE, fh[h].fd)
<1> DEFINE o == [fh[h] EXCEPT !.del = TRUE, !.fb = FALSE, !.fd = None, !.moved = TRUE]
<1>7. fh[h].fd \in Handle \cup {None}
  BY <1>3 DEF Nodes
<1>8. /\ Sound(n, c)
      /\ c.st = "live" /\ c.m = m /\ c.fb = TRUE /\ c.fd = fh[h].fd /\ c.on = {}
      /\ c.tree /\ ~c.del /\ ~c.moved
  <2>1. TRUE \in BOOLEAN
    OBVIOUS
  <2> HIDE DEF c
  <2>2. \A b \in BOOLEAN, d \in Handle \cup {None} : LET k == Node(m, b, d) IN
           /\ Sound(n, k)
           /\ k.st = "live" /\ k.m = m /\ k.fb = b /\ k.fd = d /\ k.on = {} /\ k.tree
           /\ ~k.del /\ ~k.moved
    BY <1>5, NodeSound
  <2> QED
    BY <1>7, <2>1, <2>2, Zenon DEF c
<1>9. /\ o \in Nodes /\ o.st = fh[h].st /\ o.m = fh[h].m /\ o.on = fh[h].on
      /\ o.tree = fh[h].tree /\ o.refs = fh[h].refs
      /\ o.del /\ ~o.fb /\ o.fd = None /\ o.moved
  BY <1>3 DEF Nodes
<1>10. Sound(h, o)
  BY <1>3, <1>4, <1>9 DEF Sound, Settings
<1>11. fh' = [[fh EXCEPT ![n] = c] EXCEPT ![h] = o]
  BY <1>1, <1>2, <1>3, <1>5, <1>6 DEF Structures
<1> HIDE DEF c, o
<1>12. /\ fh' \in [AllHandles -> Nodes] /\ fh'[n] = c /\ fh'[h] = o
       /\ \A k \in AllHandles \ {h, n} : fh'[k] = fh[k]
  BY <1>1, <1>3, <1>5, <1>6, <1>8, <1>9, <1>11 DEF Structures, Sound
<1>13. Structures'
  BY <1>1, <1>8, <1>10, <1>12 DEF Structures
<1>14. Owners'
  <2>1. /\ fh'[h].fd = None /\ fh'[n].fd = fh[h].fd /\ fh[n].fd = None
        /\ \A k \in Handle \ {h, n} : fh'[k].fd = fh[k].fd
    BY <1>5, <1>8, <1>9, <1>12 DEF AllHandles
  <2>2. \A k \in Handle : fh'[k].fd \in fds' \cup {None}
    BY <2>1, <1>1, <1>4 DEF Owners
  <2>3. \A d \in fds' : \E k \in Handle : fh'[k].fd = d
    <3> SUFFICES ASSUME NEW d \in fds PROVE \E k \in Handle : fh'[k].fd = d
      BY <1>1
    <3>1. PICK k \in Handle : fh[k].fd = d
      BY <1>1 DEF Owners
    <3>2. d # None
      BY <1>1 DEF Owners, Settings, AllHandles
    <3> QED
      BY <3>1, <3>2, <2>1, <1>5
  <2>4. \A j, k \in Handle : fh'[j].fd # None /\ fh'[j].fd = fh'[k].fd => j = k
    <3> SUFFICES ASSUME NEW j \in Handle, NEW k \in Handle, fh'[j].fd # None,
                        fh'[j].fd = fh'[k].fd
                 PROVE  j = k
      OBVIOUS
    <3>1. \A i \in Handle \ {h} : fh[i].fd # fh[h].fd \/ fh[h].fd = None
      BY <1>1, <1>4 DEF Owners
    <3> QED
      BY <2>1, <3>1, <1>1 DEF Owners
  <2> QED
    BY <2>2, <2>3, <2>4, <1>1 DEF Owners
<1>15. Cached'
  <2>1. \A k \in cache \ {h} : fh'[k] = fh[k] /\ ~(fh[k].m = m /\ fh[k].fb = TRUE)
    BY <1>1, <1>3, <1>6, <1>12 DEF Cached
  <2>2. cache' = (cache \ {h}) \cup {n} /\ fh'[n] = c
    BY <1>2, <1>12
  <2>3. /\ cache' \subseteq AllHandles
        /\ \A k \in cache' : fh'[k].st = "live" /\ ~fh'[k].del
    BY <2>1, <2>2, <1>1, <1>5, <1>8 DEF Cached
  <2>4. \A j, k \in cache' : fh'[j].m = fh'[k].m /\ fh'[j].fb = fh'[k].fb => j = k
    BY <2>1, <2>2, <1>1, <1>8 DEF Cached
  <2> QED
    BY <2>3, <2>4 DEF Cached
<1>16. Stand' /\ Overridden' /\ Kept' /\ Known'
  <2>1. ASSUME NEW k \in AllHandles
        PROVE  \/ /\ fh'[k].st = fh[k].st /\ fh'[k].on = fh[k].on /\ fh'[k].tree = fh[k].tree
                  /\ fh[k].moved => fh'[k].moved
               \/ fh'[k].on = {} /\ \A d \in Client : ~Points(d, k)
    BY <1>5, <1>8, <1>9, <1>12
  <2> QED
    BY <2>1, <1>1, <1>13, HandlesChange
<1>17. Rest'
  BY <1>1, <1>2, <1>5 DEF Rest, cvars, SetOverride
<1> QED
  BY <1>13, <1>14, <1>15, <1>16, <1>17 DEF IInv

\* fserve_scan deletes a handle that nobody is on, with its file.
LEMMA Scanned ==
  ASSUME Settings, IInv, NEW h \in AllHandles, Scan(h)
  PROVE  IInv'
<1>1. /\ Structures /\ Owners /\ Cached /\ Stand /\ Rest /\ Kept /\ ~torn /\ running
      /\ UNCHANGED <<cvars, listeners, running, torn>>
      /\ h \in cache /\ fh[h].refs = 0 /\ fh' = [fh EXCEPT ![h] = Freed]
      /\ cache' = cache \ {h} /\ fds' = fds \ {fh[h].fd}
  BY DEF IInv, Scan
<1>2. /\ Sound(h, fh[h]) /\ fh[h] \in Nodes /\ fh[h].st = "live" /\ fh[h].tree
      /\ IsFiniteSet(fh[h].on) /\ Cardinality(fh[h].on) \in Nat
  BY <1>1, FS_Subset, FS_CardinalityType DEF Structures, Cached, Sound, Nodes, Settings
<1>3. fh[h].on = {} /\ h # NoFile
  BY <1>1, <1>2, FS_EmptySet DEF Sound
<1>4. h \in Handle
  BY <1>3 DEF AllHandles
<1>5. /\ Sound(h, Freed) /\ Freed.on = {} /\ Freed.fd = None
  BY <1>4, FreedSound
<1>6. /\ Structures' /\ fh'[h] = Freed /\ \A k \in AllHandles \ {h} : fh'[k] = fh[k]
  BY <1>1, <1>5, Placed
<1>7. Owners'
  BY <1>1, <1>4, <1>5, <1>6 DEF Owners, AllHandles
<1>8. Cached'
  BY <1>1, <1>6 DEF Cached
<1>9. \A d \in Client : ~Points(d, h)
  BY <1>1, <1>2, <1>3 DEF Kept
<1>10. Stand' /\ Overridden' /\ Kept' /\ Known'
  BY <1>1, <1>5, <1>6, <1>9, HandlesChange
<1>11. Rest'
  BY <1>1 DEF Rest, cvars
<1> QED
  BY <1>6, <1>7, <1>8, <1>10, <1>11 DEF IInv

\* After a change of configuration all handles may expire.
LEMMA Reloads ==
  ASSUME Settings, IInv, Reload
  PROVE  IInv'
<1>1. /\ Structures /\ Owners /\ Cached /\ Stand /\ Rest /\ ~torn
      /\ UNCHANGED <<cache, fds, cvars, listeners, running, torn>>
  BY DEF IInv, Reload
<1>2. ASSUME NEW h \in AllHandles
      PROVE  /\ Sound(h, fh'[h]) /\ fh'[h].st = fh[h].st /\ fh'[h].m = fh[h].m
             /\ fh'[h].fb = fh[h].fb /\ fh'[h].del = fh[h].del /\ fh'[h].fd = fh[h].fd
             /\ fh'[h].on = fh[h].on /\ fh'[h].tree = fh[h].tree
             /\ fh'[h].moved = fh[h].moved
  <2> DEFINE n == [fh[h] EXCEPT !.never = FALSE]
  <2>1. fh'[h] = n \/ fh'[h] = fh[h]
    BY DEF Reload
  <2>2. Sound(h, fh[h]) /\ fh[h] \in Nodes
    BY <1>1 DEF Structures
  <2>3. /\ n \in Nodes /\ n.st = fh[h].st /\ n.m = fh[h].m /\ n.fb = fh[h].fb
        /\ n.del = fh[h].del /\ n.fd = fh[h].fd /\ n.on = fh[h].on /\ n.tree = fh[h].tree
        /\ n.moved = fh[h].moved /\ n.refs = fh[h].refs
    BY <2>2 DEF Nodes
  <2> HIDE DEF n
  <2> QED
    BY <2>1, <2>2, <2>3 DEF Sound
<1>3. fh' \in [AllHandles -> Nodes]
  <2>1. \A h \in AllHandles : fh'[h] \in Nodes
    BY <1>2 DEF Sound
  <2>2. fh' = [h \in AllHandles |-> fh'[h]]
    BY DEF Reload
  <2> QED
    BY <2>1, <2>2
<1>4. Structures'
  BY <1>2, <1>3 DEF Structures
<1>5. Owners'
  BY <1>1, <1>2 DEF Owners, AllHandles
<1>6. Cached'
  BY <1>1, <1>2 DEF Cached
<1>7. Stand' /\ Overridden' /\ Kept' /\ Known'
  BY <1>1, <1>2, <1>4, HandlesChange
<1>8. Rest'
  BY <1>1 DEF Rest, cvars
<1> QED
  BY <1>4, <1>5, <1>6, <1>7, <1>8 DEF IInv

\* fserve_shutdown takes handles out of the tree, and then frees what is left in it.
LEMMA ShutsDown ==
  ASSUME Settings, IInv, Shutdown \/ \E h \in AllHandles : ShutdownUnused(h)
  PROVE  IInv'
<1>1. /\ Structures /\ Owners /\ Cached /\ Stand /\ Rest /\ ~torn /\ Overridden /\ Kept /\ Known
      /\ UNCHANGED <<fh, fds, at, old, pc, auth, err, lost, listeners, torn>>
      /\ cache' \subseteq cache /\ running' = FALSE /\ NoFile \notin cache'
  BY DEF IInv, Rest, Shutdown, ShutdownUnused, cvars
<1>2. Rest' /\ Structures' /\ Owners' /\ Stand'
  BY <1>1 DEF Rest, Structures, Owners, Stand
<1>3. Cached'
  BY <1>1 DEF Cached
<1>4. Overridden' /\ Kept' /\ Known'
  BY <1>1 DEF Overridden, Kept, Known, Points
<1> QED
  BY <1>2, <1>3, <1>4 DEF IInv

LEMMA ShutdownFrees ==
  ASSUME Settings, IInv, ShutdownFree
  PROVE  IInv'
<1>1. /\ Structures /\ Owners /\ Cached /\ Stand /\ Rest /\ Known
      /\ UNCHANGED <<cvars, listeners, running>> /\ torn' = TRUE /\ ~running
      /\ fh' = [h \in AllHandles |-> IF h \in cache THEN Freed ELSE fh[h]]
      /\ fds' = fds \ {fh[h].fd : h \in cache} /\ cache' = {}
  BY DEF IInv, ShutdownFree
<1>2. NoFile \notin cache /\ cache \subseteq Handle
  BY <1>1 DEF Rest, Cached, AllHandles
<1>3. ASSUME NEW h \in AllHandles
      PROVE  /\ Sound(h, fh'[h])
             /\ h \in cache => fh'[h].on = {} /\ fh'[h].fd = None
             /\ h \notin cache => fh'[h] = fh[h]
  <2>1. CASE h \in cache
    BY <2>1, <1>1, <1>2, FreedSound
  <2>2. CASE h \notin cache
    BY <2>2, <1>1 DEF Structures
  <2> QED
    BY <2>1, <2>2
<1>4. Structures'
  <2>1. \A h \in AllHandles : fh'[h] \in Nodes
    BY <1>3 DEF Sound
  <2>2. fh' = [h \in AllHandles |-> fh'[h]]
    BY <1>1
  <2>3. fh' \in [AllHandles -> Nodes]
    BY <2>1, <2>2
  <2> QED
    BY <2>3, <1>3 DEF Structures
<1>5. Owners'
  <2>1. \A h \in Handle : IF h \in cache THEN fh'[h].fd = None ELSE fh'[h].fd = fh[h].fd
    BY <1>3 DEF AllHandles
  <2>2. \A h \in Handle : fh'[h].fd \in fds' \cup {None}
    <3> SUFFICES ASSUME NEW h \in Handle, fh'[h].fd # None PROVE fh'[h].fd \in fds'
      OBVIOUS
    <3>1. h \notin cache /\ fh'[h].fd = fh[h].fd /\ fh[h].fd \in fds
      BY <2>1, <1>1 DEF Owners
    <3>2. \A k \in cache : fh[k].fd # fh[h].fd
      BY <3>1, <1>1, <1>2 DEF Owners
    <3> QED
      BY <3>1, <3>2, <1>1
  <2>3. \A d \in fds' : \E h \in Handle : fh'[h].fd = d
    BY <2>1, <1>1 DEF Owners
  <2>4. \A h, k \in Handle : fh'[h].fd # None /\ fh'[h].fd = fh'[k].fd => h = k
    BY <2>1, <1>1, SMTT(30) DEF Owners
  <2> QED
    BY <2>2, <2>3, <2>4, <1>1 DEF Owners
<1>6. Cached' /\ Rest' /\ Stand'
  BY <1>1 DEF Cached, Rest, Stand, cvars
<1>7. Known'
  BY <1>1, <1>3 DEF Known, Points, cvars
<1> QED
  BY <1>1, <1>4, <1>5, <1>6, <1>7 DEF IInv

(***************************************************************************)
(* The theorem                                                             *)
(***************************************************************************)
LEMMA Inductive ==
  ASSUME Settings
  PROVE  IInv /\ [Next]_vars => IInv'
<1> SUFFICES ASSUME IInv, [Next]_vars PROVE IInv'
  OBVIOUS
<1>0. Mount # {}
  BY DEF Settings
<1>1. ASSUME NEW c \in Client, NEW m \in Mount,
             \/ RequestFile(c, m) \/ RequestResponse(c) \/ JoinFallback(c, m)
             \/ FallBack(c, m) \/ MoveToFile(c, m)
      PROVE  IInv'
  BY <1>1, ClientComes
<1>2. ASSUME NEW c \in Client, ReleaseHandle(c) \/ LeaveOld(c) PROVE IInv'
  BY <1>2, ClientLeaves
<1>3. ASSUME NEW c \in Client,
             \/ JoinSource(c) \/ LeaveSource(c) \/ ReleaseCount(c) \/ StartFile(c)
             \/ ConnectionError(c) \/ MoveToSource(c) \/ MoveFails(c)
      PROVE  IInv'
  BY <1>3, ClientStays
<1>4. ASSUME NEW m \in Mount, QueryCount(m) PROVE IInv'
  BY <1>4, Queried
<1>5. ASSUME NEW m \in Mount, SetOverride(m) PROVE IInv'
  BY <1>5, Overrides
<1>6. ASSUME NEW h \in AllHandles, Scan(h) PROVE IInv'
  BY <1>6, Scanned
<1>7. CASE Reload
  BY <1>7, Reloads
<1>8. CASE Shutdown \/ \E h \in AllHandles : ShutdownUnused(h)
  BY <1>8, ShutsDown
<1>9. CASE ShutdownFree
  BY <1>9, ShutdownFrees
<1>10. CASE UNCHANGED vars
  BY <1>10 DEF vars, IInv, Rest, Structures, Owners, Cached, Stand, Overridden, Kept, Known,
               Points
<1>11. CASE \E c \in Client :
              \/ \E m \in Mount : RequestFile(c, m)
              \/ RequestResponse(c)
              \/ JoinSource(c)
              \/ \E m \in Mount : JoinFallback(c, m) \/ FallBack(c, m)
              \/ LeaveSource(c)
              \/ ReleaseCount(c) \/ ReleaseHandle(c) \/ StartFile(c)
              \/ ConnectionError(c)
              \/ MoveToSource(c)
              \/ \E m \in Mount : MoveToFile(c, m)
              \/ LeaveOld(c)
              \/ MoveFails(c)
  BY <1>0, <1>1, <1>2, <1>3, <1>11
<1> QED
  BY <1>4, <1>5, <1>6, <1>7, <1>8, <1>9, <1>10, <1>11 DEF Next

\* The static handle holds a reference to itself; there is nothing else.
LEMMA Start ==
  ASSUME Settings
  PROVE  Init => IInv
<1> SUFFICES ASSUME Init PROVE IInv
  OBVIOUS
<1> DEFINE b == Node(None, FALSE, None)
<1> DEFINE n == [b EXCEPT !.refs = 1, !.never = TRUE]
<1>1. /\ b \in Nodes /\ b.st = "live" /\ b.m = None /\ b.fd = None /\ ~b.moved /\ ~b.del
      /\ b.tree /\ b.on = {}
  BY DEF Node, Nodes
<1> HIDE DEF b
<1>2. /\ n \in Nodes /\ n.st = "live" /\ n.m = None /\ n.fd = None /\ ~n.moved /\ ~n.del
      /\ n.tree /\ n.on = {} /\ n.refs = 1
  BY <1>1 DEF Nodes
<1>3. fh = [h \in AllHandles |-> IF h = NoFile THEN n ELSE Freed]
  BY DEF Init, b
<1> HIDE DEF n
<1>4. Sound(NoFile, n)
  BY <1>2, FS_EmptySet DEF Sound
<1>5. ASSUME NEW h \in AllHandles
      PROVE  /\ Sound(h, fh[h]) /\ fh[h].on = {}
             /\ fh[h].fd = None
  <2>1. CASE h = NoFile
    BY <2>1, <1>2, <1>3, <1>4
  <2>2. CASE h # NoFile
    BY <2>2, <1>3, FreedSound DEF AllHandles
  <2> QED
    BY <2>1, <2>2
<1>6. Structures
  <2>1. \A h \in AllHandles : fh[h] \in Nodes
    BY <1>5 DEF Sound
  <2> QED
    BY <2>1, <1>3, <1>5 DEF Structures
<1>7. Owners
  BY <1>5 DEF Owners, Init, AllHandles
<1>8. cache = {NoFile} /\ fh[NoFile] = n
  BY <1>3 DEF Init, AllHandles
<1>9. Cached
  BY <1>2, <1>8 DEF Cached, AllHandles
<1>10. Rest /\ Stand
  <2>1. \A c \in Client : at[c] = None /\ old[c] = None /\ pc[c] = "out"
    BY DEF Init
  <2>2. pc \in [Client -> Places] /\ "out" \in {"out", "source", "gone"}
    BY DEF Init, Places
  <2>3. Stand
    BY <2>1, <2>2 DEF Init, Stand
  <2>4. Rest
    <3>1. running \in BOOLEAN /\ torn \in BOOLEAN /\ running /\ ~torn
      BY DEF Init
    <3>2. auth \subseteq Client /\ err \subseteq Client /\ listeners \in Int
      BY DEF Init
    <3> QED
      BY <3>1, <3>2 DEF Rest
  <2> QED
    BY <2>3, <2>4
<1>11. Overridden /\ Kept /\ Known
  BY <1>5 DEF Init, Overridden, Kept, Known, Points
<1> QED
  BY <1>6, <1>7, <1>9, <1>10, <1>11 DEF IInv

\* What the property says follows from the inductive invariant.
LEMMA Consequences ==
  ASSUME Settings
  PROVE  IInv => HandlesOwned
<1> SUFFICES ASSUME IInv PROVE HandlesOwned
  OBVIOUS
<1>1. /\ Structures /\ Owners /\ Cached /\ Stand /\ Rest /\ Known
  BY DEF IInv
<1>2. RefsMatch
  BY <1>1 DEF RefsMatch, Structures, Sound
<1>3. TypeOK
  <2> DEFINE Counts == 0 .. Cardinality(Client) + 1
  <2> DEFINE Bounded == [st : {"live", "free"}, m : Mount \cup {None}, fb : BOOLEAN,
                         del : BOOLEAN, refs : Counts, on : SUBSET Client,
                         never : BOOLEAN, moved : BOOLEAN, fd : Handle \cup {None},
                         tree : BOOLEAN]
  <2>1. ASSUME NEW h \in AllHandles PROVE fh[h] \in Bounded
    <3>1. fh[h] \in Nodes /\ Sound(h, fh[h])
      BY <1>1 DEF Structures
    <3>2. /\ Cardinality(fh[h].on) \in Nat /\ Cardinality(Client) \in Nat
          /\ Cardinality(fh[h].on) <= Cardinality(Client)
      BY <3>1, FS_Subset, FS_CardinalityType DEF Settings, Nodes
    <3>3. fh[h].refs \in Counts
      BY <3>1, <3>2 DEF Sound, Nodes
    <3> HIDE DEF Counts
    <3> QED
      BY <3>1, <3>3 DEF Nodes
  <2>2. fh \in [AllHandles -> Bounded]
    BY <2>1, <1>1 DEF Structures
  <2> QED
    BY <2>2, <1>1 DEF TypeOK, Owners, Cached, Stand, Rest
<1>4. HandleAlive
  BY <1>1 DEF HandleAlive, IInv, Kept, Points, Stand, AllHandles
<1>5. FilesOwned
  <2>1. ASSUME NEW d \in fds PROVE Cardinality({h \in Handle : fh[h].fd = d}) = 1
    <3>1. PICK h \in Handle : fh[h].fd = d
      BY <1>1 DEF Owners
    <3>2. {k \in Handle : fh[k].fd = d} = {h}
      BY <3>1, <1>1 DEF Owners, Settings, AllHandles
    <3> QED
      BY <3>2, FS_Singleton
  <2> QED
    BY <2>1, <1>1 DEF FilesOwned, Owners
<1>6. CacheSound
  BY <1>1 DEF CacheSound, Cached
<1>7. ClientsFound
  BY <1>1 DEF ClientsFound, Known, Points
<1> QED
  BY <1>2, <1>3, <1>4, <1>5, <1>6, <1>7 DEF HandlesOwned

(* Through every order of requests, fallbacks, overrides, moves, releases, timeouts and a      *)
(* shutdown: the reference count of a handle is that of its clients, none of them is on freed  *)
(* memory, an open file has one owner, and a lookup has one answer that is not freed           *)
(* (fserve_setup_client_fb, remove_from_fh, fserve_set_override, fserve_scan).                 *)
THEOREM HandlesStayOwned ==
  ASSUME Settings
  PROVE  Spec => []HandlesOwned
  BY Start, Inductive, Consequences, PTL DEF Spec

-----------------------------------------------------------------------------
(***************************************************************************)
(* Redirectors: the inductive invariant                                    *)
(***************************************************************************)
Entries == [host : Server, upd : Nat, by : {"conf", "slave", "master"}]
States == {"out", "in", "unlink", "count", "store"}
Walks == [st : States, at : Nat, which : Nat, sent : BOOLEAN, dropped : BOOLEAN,
          reg : Nat, loose : BOOLEAN, stale : BOOLEAN]

ListTypes ==
    /\ redirectors \in Seq(Entries)
    /\ redirect_count \in Nat
    /\ walk \in [Walker -> Walks]
    /\ clock \in StartTime .. EndTime
    /\ turned \subseteq Server
    /\ reloading \in BOOLEAN /\ between \in BOOLEAN /\ overcounted \in BOOLEAN
    /\ freed \in BOOLEAN /\ refused \in BOOLEAN

(* the count has every entry that is listed or taken out and not counted   *)
(* out yet, and so has what a walk loaded of it: both only come down       *)
Counting(st) == st \in {"count", "store"}
Due == Len(redirectors) + Cardinality(D!Uncounted)
CountsDue ==
    /\ redirect_count >= Due
    /\ redirect_count = Due \/ overcounted
    /\ \A w \in Walker : walk[w].st = "store" => walk[w].reg >= Due

(* a walk that has lost no entry has its selection before it, in the list, *)
(* or has sent its client there, unless the count was too large            *)
Fits(x, n, over) ==
    x.st # "out" =>
        /\ x.at >= 1
        /\ Counting(x.st) => x.dropped
        /\ x.sent \/ x.dropped \/ over \/ (x.which >= 1 /\ x.at + x.which <= n + 1)
Selected == ~refused /\ \A w \in Walker : Fits(walk[w], Len(redirectors), overcounted)

(* the entry that a walk is about to take out is there and has expired *)
Doomed(x, s) == x.st = "unlink" => x.at \in DOMAIN s /\ D!Expired(s[x.at])
Unlinking == freed \/ \A w \in Walker : Doomed(walk[w], redirectors)

Slaves(s) == {i \in DOMAIN s : s[i].by = "slave"}
FewSlaves == Cardinality(Slaves(redirectors)) <= MaxRedirects

(* the first half of a reload leaves nothing for the second to meet *)
HostsDiffer ==
    /\ reloading /\ ~between => redirectors = <<>>
    /\ between \/ \A i, j \in DOMAIN redirectors :
                     redirectors[i].host = redirectors[j].host => i = j

(* a configured host that was not turned has an entry that does not expire *)
Stays(h, s) == \E j \in DOMAIN s : s[j].host = h /\ s[j].upd = 0
Configured == ~reloading => \A i \in DOMAIN Conf : Conf[i] \in turned \/ Stays(Conf[i], redirectors)

RedirectInv ==
    /\ ListTypes /\ CountsDue /\ Selected /\ Unlinking
    /\ FewSlaves /\ HostsDiffer /\ Configured

-----------------------------------------------------------------------------
(***************************************************************************)
(* The list of redirectors, as it is put together and taken apart          *)
(***************************************************************************)
LEMMA EntryTyped ==
  ASSUME NEW h \in Server, NEW u \in Nat, NEW b \in {"conf", "slave", "master"}
  PROVE  /\ D!Entry(h, u, b) \in Entries /\ D!Entry(h, u, b).host = h
         /\ D!Entry(h, u, b).upd = u /\ D!Entry(h, u, b).by = b
  BY DEF D!Entry, Entries

\* redirector_setup adds the hosts one by one in front of the list.
ConfEntries == D!Reverse([i \in DOMAIN Conf |-> D!Entry(Conf[i], 0, "conf")])

LEMMA ConfListed ==
    /\ ConfEntries \in Seq(Entries) /\ Len(ConfEntries) = Len(Conf)
    /\ \A j \in 1 .. Len(Conf) : /\ ConfEntries[j].host = Conf[Len(Conf) - j + 1]
                                 /\ ConfEntries[j].upd = 0 /\ ConfEntries[j].by = "conf"
<1> DEFINE n == Len(Conf)
           es == [i \in DOMAIN Conf |-> D!Entry(Conf[i], 0, "conf")]
<1>1. n \in Nat /\ DOMAIN Conf = 1 .. n /\ \A i \in 1 .. n : Conf[i] \in Server
  BY RedirectorSettings DEF D!Settings
<1>2. es \in [1 .. n -> Entries]
  BY <1>1, EntryTyped
<1>3. es \in Seq(Entries) /\ Len(es) = n
  <2> HIDE DEF es, n
  <2> QED
    BY <1>1, <1>2
<1>4. ConfEntries = [i \in 1 .. n |-> es[(n - i) + 1]]
  BY <1>3 DEF ConfEntries, D!Reverse
<1>5. \A j \in 1 .. n : /\ (n - j) + 1 \in 1 .. n
                        /\ ConfEntries[j] = D!Entry(Conf[(n - j) + 1], 0, "conf")
  <2> HIDE DEF n
  <2> QED
    BY <1>1, <1>4
<1>6. ConfEntries \in [1 .. n -> Entries]
  <2> HIDE DEF es, n
  <2> QED
    BY <1>1, <1>2, <1>4, <1>5
<1>7. ConfEntries \in Seq(Entries) /\ Len(ConfEntries) = n
  <2> HIDE DEF n
  <2> QED
    BY <1>1, <1>6
<1>8. \A j \in 1 .. n : /\ ConfEntries[j].host = Conf[(n - j) + 1]
                        /\ ConfEntries[j].upd = 0 /\ ConfEntries[j].by = "conf"
  <2> HIDE DEF n
  <2> QED
    BY <1>1, <1>5, EntryTyped
<1> QED
  BY <1>7, <1>8

LEMMA Prepended ==
  ASSUME NEW es \in Seq(Entries), NEW s \in Seq(Entries)
  PROVE  /\ es \o s \in Seq(Entries) /\ Len(es \o s) = Len(es) + Len(s)
         /\ \A i \in 1 .. Len(es) : (es \o s)[i] = es[i]
         /\ \A i \in 1 .. Len(s) : (es \o s)[Len(es) + i] = s[i]
         /\ \A i \in 1 .. Len(es) + Len(s) : i <= Len(es) \/ i - Len(es) \in 1 .. Len(s)
  OBVIOUS

LEMMA Removed ==
  ASSUME NEW s \in Seq(Entries), NEW i \in 1 .. Len(s)
  PROVE  LET t == D!RemoveAt(s, i) IN
           /\ t \in Seq(Entries) /\ Len(t) = Len(s) - 1
           /\ \A j \in 1 .. Len(t) : t[j] = s[IF j < i THEN j ELSE j + 1]
<1>1. /\ SubSeq(s, 1, i - 1) \in Seq(Entries) /\ SubSeq(s, i + 1, Len(s)) \in Seq(Entries)
      /\ Len(SubSeq(s, 1, i - 1)) = i - 1 /\ Len(SubSeq(s, i + 1, Len(s))) = Len(s) - i
  OBVIOUS
<1>2. \A j \in 1 .. i - 1 : SubSeq(s, 1, i - 1)[j] = s[j]
  OBVIOUS
<1>3. \A j \in 1 .. Len(s) - i : SubSeq(s, i + 1, Len(s))[j] = s[i + j]
  OBVIOUS
<1> DEFINE a == SubSeq(s, 1, i - 1)
           b == SubSeq(s, i + 1, Len(s))
           t == a \o b
<1>4. /\ a \in Seq(Entries) /\ b \in Seq(Entries) /\ Len(a) = i - 1 /\ Len(b) = Len(s) - i
      /\ \A j \in 1 .. i - 1 : a[j] = s[j]
      /\ \A j \in 1 .. Len(s) - i : b[j] = s[i + j]
  BY <1>1, <1>2, <1>3
<1>5. /\ t \in Seq(Entries) /\ Len(t) = Len(a) + Len(b)
      /\ \A j \in 1 .. Len(a) : t[j] = a[j]
      /\ \A j \in 1 .. Len(b) : t[Len(a) + j] = b[j]
  <2> HIDE DEF a, b
  <2> QED
    BY <1>4, Prepended
<1>6. D!RemoveAt(s, i) = t
  BY DEF D!RemoveAt
<1> HIDE DEF a, b, t
<1>7. Len(s) \in Nat /\ i \in Nat /\ Len(t) = Len(s) - 1
  BY <1>4, <1>5
<1>8. ASSUME NEW j \in 1 .. Len(t) PROVE t[j] = s[IF j < i THEN j ELSE j + 1]
  <2>1. CASE j < i
    BY <2>1, <1>4, <1>5, <1>7
  <2>2. CASE j >= i
    <3>1. j - (i - 1) \in 1 .. Len(b) /\ Len(a) + (j - (i - 1)) = j
      BY <2>2, <1>4, <1>7
    <3>2. t[j] = b[j - (i - 1)]
      BY <1>5, <3>1
    <3>3. b[j - (i - 1)] = s[i + (j - (i - 1))]
      BY <3>1, <1>4
    <3>4. i + (j - (i - 1)) = j + 1
      BY <1>7
    <3> QED
      BY <2>2, <3>2, <3>3, <3>4, <1>7
  <2> QED
    BY <2>1, <2>2, <1>7
<1> QED
  BY <1>5, <1>6, <1>7, <1>8

LEMMA SlavesCounted ==
  ASSUME NEW s \in Seq(Entries)
  PROVE  /\ IsFiniteSet(Slaves(s)) /\ Cardinality(Slaves(s)) \in Nat
         /\ Cardinality(Slaves(s)) <= Len(s) /\ Slaves(s) \subseteq 1 .. Len(s)
<1>1. Slaves(s) \subseteq 1 .. Len(s) /\ Len(s) \in Nat
  BY DEF Slaves
<1>2. IsFiniteSet(1 .. Len(s)) /\ Cardinality(1 .. Len(s)) = Len(s)
  <2>1. 1 \in Int /\ Len(s) \in Int
    BY <1>1
  <2>2. /\ IsFiniteSet(1 .. Len(s))
        /\ Cardinality(1 .. Len(s)) = IF 1 > Len(s) THEN 0 ELSE Len(s) - 1 + 1
    BY ONLY <2>1, FS_Interval
  <2> QED
    BY <1>1, <2>2
<1> QED
  BY <1>1, <1>2, FS_Subset, FS_CardinalityType

\* A list whose slaves are slaves of another has no more of them.
LEMMA SlavesMoved ==
  ASSUME NEW s \in Seq(Entries), NEW t \in Seq(Entries), NEW f \in [Slaves(s) -> Slaves(t)],
         \A i, j \in Slaves(s) : f[i] = f[j] => i = j
  PROVE  Cardinality(Slaves(s)) <= Cardinality(Slaves(t))
<1>1. f \in Injection(Slaves(s), Slaves(t))
  BY DEF Injection, IsInjective
<1> QED
  BY <1>1, SlavesCounted, FS_Injection

(* What the steps of a walk change of it, one field after another. *)
LEMMA StateSet ==
  ASSUME NEW o \in Walks, NEW s \in States
  PROVE  LET x == [o EXCEPT !.st = s] IN
           /\ x \in Walks /\ x.st = s /\ x.at = o.at /\ x.which = o.which
           /\ x.sent = o.sent /\ x.dropped = o.dropped /\ x.reg = o.reg
  BY DEF Walks, States

LEMMA PlaceSet ==
  ASSUME NEW o \in Walks, NEW a \in Nat
  PROVE  LET x == [o EXCEPT !.at = a] IN
           /\ x \in Walks /\ x.st = o.st /\ x.at = a /\ x.which = o.which
           /\ x.sent = o.sent /\ x.dropped = o.dropped /\ x.reg = o.reg
  BY DEF Walks

LEMMA WhichSet ==
  ASSUME NEW o \in Walks, NEW n \in Nat
  PROVE  LET x == [o EXCEPT !.which = n] IN
           /\ x \in Walks /\ x.st = o.st /\ x.at = o.at /\ x.which = n
           /\ x.sent = o.sent /\ x.dropped = o.dropped /\ x.reg = o.reg
  BY DEF Walks

LEMMA SentSet ==
  ASSUME NEW o \in Walks, NEW b \in BOOLEAN
  PROVE  LET x == [o EXCEPT !.sent = b] IN
           /\ x \in Walks /\ x.st = o.st /\ x.at = o.at /\ x.which = o.which
           /\ x.sent = b /\ x.dropped = o.dropped /\ x.reg = o.reg
  BY DEF Walks

LEMMA DroppedSet ==
  ASSUME NEW o \in Walks, NEW b \in BOOLEAN
  PROVE  LET x == [o EXCEPT !.dropped = b] IN
           /\ x \in Walks /\ x.st = o.st /\ x.at = o.at /\ x.which = o.which
           /\ x.sent = o.sent /\ x.dropped = b /\ x.reg = o.reg
  BY DEF Walks

LEMMA LoadSet ==
  ASSUME NEW o \in Walks, NEW r \in Nat
  PROVE  LET x == [o EXCEPT !.reg = r] IN
           /\ x \in Walks /\ x.st = o.st /\ x.at = o.at /\ x.which = o.which
           /\ x.sent = o.sent /\ x.dropped = o.dropped /\ x.reg = r
  BY DEF Walks

LEMMA LooseSet ==
  ASSUME NEW o \in Walks, NEW b \in BOOLEAN
  PROVE  LET x == [o EXCEPT !.loose = b] IN
           /\ x \in Walks /\ x.st = o.st /\ x.at = o.at /\ x.which = o.which
           /\ x.sent = o.sent /\ x.dropped = o.dropped /\ x.reg = o.reg
  BY DEF Walks

LEMMA StaleSet ==
  ASSUME NEW o \in Walks, NEW b \in BOOLEAN
  PROVE  LET x == [o EXCEPT !.stale = b] IN
           /\ x \in Walks /\ x.st = o.st /\ x.at = o.at /\ x.which = o.which
           /\ x.sent = o.sent /\ x.dropped = o.dropped /\ x.reg = o.reg
  BY DEF Walks

(* a walk at its start; about to take an entry out; past an entry; behind  *)
(* an entry that is taken out; having taken one out; having loaded and     *)
(* stored the count                                                        *)
Begun(n, b) == [D!NoWalk EXCEPT !.st = "in", !.at = 1, !.which = n, !.dropped = b]
Bound(o) == [o EXCEPT !.st = "unlink"]
Gone(o, a, n, b) == [o EXCEPT !.at = a, !.which = n, !.sent = b, !.loose = FALSE]
Moved(o, i) == [o EXCEPT !.at = IF o.at > i THEN o.at - 1 ELSE o.at, !.dropped = TRUE,
                         !.loose = o.loose \/ o.at = i + 1,
                         !.stale = o.stale \/ (o.st = "unlink" /\ o.at = i - 1)]
TakenOut(o) == [o EXCEPT !.st = "count", !.dropped = TRUE]
Loaded(o, r) == [o EXCEPT !.st = "store", !.reg = r]
Stored(o, n) == [o EXCEPT !.st = "in", !.reg = 0, !.which = n]

LEMMA NoWalkTyped == D!NoWalk \in Walks /\ D!NoWalk.st = "out"
  BY DEF D!NoWalk, Walks, States

LEMMA WalkBegun ==
  ASSUME NEW n \in Nat, NEW b \in BOOLEAN
  PROVE  LET x == Begun(n, b) IN
           x \in Walks /\ x.st = "in" /\ x.at = 1 /\ x.which = n /\ x.dropped = b
<1> DEFINE p == [D!NoWalk EXCEPT !.st = "in"]
           q == [p EXCEPT !.at = 1]
           r == [q EXCEPT !.which = n]
           s == [r EXCEPT !.dropped = b]
<1>1. p \in Walks /\ p.st = "in"
  BY NoWalkTyped, StateSet DEF States
<1> HIDE DEF p
<1>2. q \in Walks /\ q.st = "in" /\ q.at = 1
  BY <1>1, PlaceSet
<1> HIDE DEF q
<1>3. r \in Walks /\ r.st = "in" /\ r.at = 1 /\ r.which = n
  BY <1>2, WhichSet
<1> HIDE DEF r
<1>4. s \in Walks /\ s.st = "in" /\ s.at = 1 /\ s.which = n /\ s.dropped = b
  BY <1>3, DroppedSet
<1>5. s = Begun(n, b)
  BY DEF Begun, p, q, r
<1> QED
  BY <1>4, <1>5

LEMMA WalkGone ==
  ASSUME NEW o \in Walks, NEW a \in Nat, NEW n \in Nat, NEW b \in BOOLEAN
  PROVE  LET x == Gone(o, a, n, b) IN
           /\ x \in Walks /\ x.st = o.st /\ x.at = a /\ x.which = n /\ x.sent = b
           /\ x.dropped = o.dropped
<1> DEFINE p == [o EXCEPT !.at = a]
           q == [p EXCEPT !.which = n]
           r == [q EXCEPT !.sent = b]
           s == [r EXCEPT !.loose = FALSE]
<1>1. p \in Walks /\ p.st = o.st /\ p.at = a /\ p.dropped = o.dropped
  BY PlaceSet
<1> HIDE DEF p
<1>2. q \in Walks /\ q.st = o.st /\ q.at = a /\ q.which = n /\ q.dropped = o.dropped
  BY <1>1, WhichSet
<1> HIDE DEF q
<1>3. /\ r \in Walks /\ r.st = o.st /\ r.at = a /\ r.which = n /\ r.sent = b
      /\ r.dropped = o.dropped
  BY <1>2, SentSet
<1> HIDE DEF r
<1>4. /\ s \in Walks /\ s.st = o.st /\ s.at = a /\ s.which = n /\ s.sent = b
      /\ s.dropped = o.dropped
  BY <1>3, LooseSet
<1>5. s = Gone(o, a, n, b)
  BY DEF Gone, p, q, r
<1> QED
  BY <1>4, <1>5

LEMMA WalkMoved ==
  ASSUME NEW o \in Walks, NEW i \in Nat, i >= 1
  PROVE  LET x == Moved(o, i) IN
           /\ x \in Walks /\ x.st = o.st /\ x.dropped = TRUE /\ x.reg = o.reg
           /\ x.at = IF o.at > i THEN o.at - 1 ELSE o.at
<1> DEFINE a == IF o.at > i THEN o.at - 1 ELSE o.at
           b == o.loose \/ o.at = i + 1
           c == o.stale \/ (o.st = "unlink" /\ o.at = i - 1)
           p == [o EXCEPT !.at = a]
           q == [p EXCEPT !.dropped = TRUE]
           r == [q EXCEPT !.loose = b]
           s == [r EXCEPT !.stale = c]
<1>0. o.at \in Nat /\ a \in Nat /\ b \in BOOLEAN /\ c \in BOOLEAN
  BY DEF Walks
<1> HIDE DEF a, b, c
<1>1. p \in Walks /\ p.st = o.st /\ p.at = a /\ p.reg = o.reg
  BY <1>0, PlaceSet
<1> HIDE DEF p
<1>2. q \in Walks /\ q.st = o.st /\ q.at = a /\ q.dropped = TRUE /\ q.reg = o.reg
  BY <1>1, DroppedSet
<1> HIDE DEF q
<1>3. r \in Walks /\ r.st = o.st /\ r.at = a /\ r.dropped = TRUE /\ r.reg = o.reg
  BY <1>0, <1>2, LooseSet
<1> HIDE DEF r
<1>4. s \in Walks /\ s.st = o.st /\ s.at = a /\ s.dropped = TRUE /\ s.reg = o.reg
  BY <1>0, <1>3, StaleSet
<1>5. s = Moved(o, i)
  BY DEF Moved, a, b, c, p, q, r
<1> QED
  BY <1>4, <1>5 DEF a

LEMMA WalkTaken ==
  ASSUME NEW o \in Walks
  PROVE  LET x == TakenOut(o) IN
           x \in Walks /\ x.st = "count" /\ x.at = o.at /\ x.dropped = TRUE
<1> DEFINE p == [o EXCEPT !.st = "count"]
           q == [p EXCEPT !.dropped = TRUE]
<1>1. p \in Walks /\ p.st = "count" /\ p.at = o.at
  BY StateSet DEF States
<1> HIDE DEF p
<1>2. q \in Walks /\ q.st = "count" /\ q.at = o.at /\ q.dropped = TRUE
  BY <1>1, DroppedSet
<1>3. q = TakenOut(o)
  BY DEF TakenOut, p
<1> QED
  BY <1>2, <1>3

LEMMA WalkLoaded ==
  ASSUME NEW o \in Walks, NEW k \in Nat
  PROVE  LET x == Loaded(o, k) IN
           /\ x \in Walks /\ x.st = "store" /\ x.at = o.at /\ x.dropped = o.dropped
           /\ x.reg = k
<1> DEFINE p == [o EXCEPT !.st = "store"]
           q == [p EXCEPT !.reg = k]
<1>1. p \in Walks /\ p.st = "store" /\ p.at = o.at /\ p.dropped = o.dropped
  BY StateSet DEF States
<1> HIDE DEF p
<1>2. q \in Walks /\ q.st = "store" /\ q.at = o.at /\ q.dropped = o.dropped /\ q.reg = k
  BY <1>1, LoadSet
<1>3. q = Loaded(o, k)
  BY DEF Loaded, p
<1> QED
  BY <1>2, <1>3

LEMMA WalkStored ==
  ASSUME NEW o \in Walks, NEW n \in Nat
  PROVE  LET x == Stored(o, n) IN
           x \in Walks /\ x.st = "in" /\ x.at = o.at /\ x.dropped = o.dropped
<1> DEFINE p == [o EXCEPT !.st = "in"]
           q == [p EXCEPT !.reg = 0]
           r == [q EXCEPT !.which = n]
<1>1. p \in Walks /\ p.st = "in" /\ p.at = o.at /\ p.dropped = o.dropped
  BY StateSet DEF States
<1> HIDE DEF p
<1>2. q \in Walks /\ q.st = "in" /\ q.at = o.at /\ q.dropped = o.dropped
  BY <1>1, LoadSet
<1> HIDE DEF q
<1>3. r \in Walks /\ r.st = "in" /\ r.at = o.at /\ r.dropped = o.dropped
  BY <1>2, WhichSet
<1>4. r = Stored(o, n)
  BY DEF Stored, p, q
<1> QED
  BY <1>3, <1>4

LEMMA FirstFound ==
  ASSUME ListTypes, NEW h \in Server, D!Found(h) # {}
  PROVE  LET k == CHOOSE i \in D!Found(h) : \A j \in D!Found(h) : i <= j IN
           k \in DOMAIN redirectors /\ redirectors[k].host = h
<1>1. D!Found(h) \subseteq Nat
  BY DEF D!Found, ListTypes
<1>2. PICK k \in D!Found(h) : \A j \in D!Found(h) : k <= j
  <2>1. PICK k \in D!Found(h) : \A j \in D!Found(h) : <<j, k>> \notin OpToRel(<, Nat)
    BY <1>1, NatLessThanWellFounded, WFMin
  <2>2. ASSUME NEW j \in D!Found(h) PROVE k <= j
    <3>1. j \in Nat /\ k \in Nat
      BY <1>1
    <3>2. ~(j < k)
      BY <2>1, <3>1 DEF OpToRel
    <3> QED
      BY <3>1, <3>2
  <2> QED
    BY <2>2
<1>3. (CHOOSE i \in D!Found(h) : \A j \in D!Found(h) : i <= j) \in D!Found(h)
  BY <1>2
<1> QED
  BY <1>3 DEF D!Found

\* Entries that no slave added, put in front, add no slave.
LEMMA NoneAdded ==
  ASSUME NEW es \in Seq(Entries), NEW s \in Seq(Entries),
         \A i \in 1 .. Len(es) : es[i].by # "slave"
  PROVE  Cardinality(Slaves(es \o s)) <= Cardinality(Slaves(s))
<1> DEFINE t == es \o s
           f == [i \in Slaves(t) |-> i - Len(es)]
<1>1. /\ t \in Seq(Entries) /\ Len(t) = Len(es) + Len(s)
      /\ \A i \in 1 .. Len(es) : t[i] = es[i]
      /\ \A i \in 1 .. Len(s) : t[Len(es) + i] = s[i]
  BY Prepended
<1>2. Len(es) \in Nat /\ Len(s) \in Nat /\ DOMAIN s = 1 .. Len(s) /\ DOMAIN t = 1 .. Len(t)
  BY <1>1
<1> HIDE DEF t
<1>3. ASSUME NEW i \in Slaves(t) PROVE i \in Int /\ i - Len(es) \in Slaves(s)
  <2>1. i \in 1 .. Len(t) /\ t[i].by = "slave"
    BY <1>2 DEF Slaves
  <2>2. ~(i <= Len(es))
    BY <2>1, <1>1, <1>2
  <2>3. i - Len(es) \in 1 .. Len(s) /\ Len(es) + (i - Len(es)) = i
    BY <2>1, <2>2, <1>1, <1>2
  <2>4. s[i - Len(es)] = t[i]
    BY <2>3, <1>1
  <2> QED
    BY <2>1, <2>3, <2>4, <1>2 DEF Slaves
<1>4. f \in [Slaves(t) -> Slaves(s)]
  BY <1>3
<1>5. \A i, j \in Slaves(t) : f[i] = f[j] => i = j
  BY <1>3, <1>2
<1> HIDE DEF f
<1>6. Cardinality(Slaves(t)) <= Cardinality(Slaves(s))
  BY <1>1, <1>4, <1>5, SlavesMoved
<1> QED
  BY <1>6 DEF t

LEMMA RedirectStart == D!Init => RedirectInv
<1> SUFFICES ASSUME D!Init PROVE RedirectInv
  OBVIOUS
<1>1. redirectors = ConfEntries
  BY DEF D!Init, ConfEntries
<1>0. Len(Conf) \in Nat
  BY RedirectorSettings DEF D!Settings
<1>2. ListTypes
  <2>2. walk \in [Walker -> Walks]
    BY NoWalkTyped DEF D!Init
  <2>3. clock \in StartTime .. EndTime
    BY RedirectorSettings DEF D!Init, D!Settings
  <2>4. redirectors \in Seq(Entries) /\ redirect_count \in Nat
    BY <1>1, ConfListed, <1>0 DEF D!Init
  <2> QED
    BY <2>2, <2>3, <2>4 DEF D!Init, ListTypes
<1>3. \A w \in Walker : walk[w].st = "out"
  BY NoWalkTyped DEF D!Init
<1>9. CountsDue
  <2>1. D!Uncounted = {}
    BY <1>3 DEF D!Uncounted
  <2>2. Due = Len(redirectors) /\ redirect_count = Len(redirectors) /\ Len(redirectors) \in Nat
    BY <2>1, <1>0, <1>1, ConfListed, FS_EmptySet DEF Due, D!Init
  <2> QED
    BY <2>2, <1>3 DEF CountsDue
<1>10. Selected /\ Unlinking
  BY <1>3 DEF D!Init, Selected, Fits, Unlinking, Doomed
<1>4. FewSlaves
  <2>1. Slaves(redirectors) = {}
    BY <1>1, ConfListed DEF Slaves
  <2> QED
    BY <2>1, FS_EmptySet, RedirectorSettings DEF FewSlaves, D!Settings
<1>5. Len(Conf) \in Nat /\ DOMAIN Conf = 1 .. Len(Conf)
      /\ \A i, j \in 1 .. Len(Conf) : Conf[i] = Conf[j] => i = j
  BY RedirectorSettings DEF D!Settings
<1>6. DOMAIN redirectors = 1 .. Len(Conf)
      /\ \A j \in 1 .. Len(Conf) : /\ redirectors[j].host = Conf[Len(Conf) - j + 1]
                                   /\ redirectors[j].upd = 0
  BY <1>1, ConfListed
<1>7. HostsDiffer
  <2>1. ASSUME NEW i \in 1 .. Len(Conf), NEW j \in 1 .. Len(Conf),
               redirectors[i].host = redirectors[j].host
        PROVE  i = j
    <3>1. Len(Conf) - i + 1 \in 1 .. Len(Conf) /\ Len(Conf) - j + 1 \in 1 .. Len(Conf)
      BY <1>5
    <3>2. Len(Conf) - i + 1 = Len(Conf) - j + 1
      BY <2>1, <3>1, <1>5, <1>6
    <3> QED
      BY <3>2, <1>5
  <2>2. ~reloading
    BY DEF D!Init
  <2> QED
    BY <2>1, <2>2, <1>6 DEF HostsDiffer
<1>8. Configured
  <2>1. ASSUME NEW i \in DOMAIN Conf PROVE Stays(Conf[i], redirectors)
    <3>1. Len(Conf) - i + 1 \in 1 .. Len(Conf) /\ Len(Conf) - (Len(Conf) - i + 1) + 1 = i
      BY <1>5
    <3> QED
      BY <3>1, <1>6 DEF Stays
  <2> QED
    BY <2>1 DEF Configured
<1> QED
  BY <1>2, <1>9, <1>10, <1>4, <1>7, <1>8 DEF RedirectInv

-----------------------------------------------------------------------------
(***************************************************************************)
(* Walks                                                                   *)
(***************************************************************************)
\* Walks that have not counted out what they took out.
LEMMA UncountedFinite ==
  ASSUME NEW S, S \subseteq Walker
  PROVE  IsFiniteSet(S) /\ Cardinality(S) \in Nat
<1>1. IsFiniteSet(Walker)
  BY RedirectorSettings DEF D!Settings, D!IsFiniteSet, IsFiniteSet
<1> QED
  BY <1>1, FS_Subset, FS_CardinalityType

LEMMA DueTyped ==
  ASSUME ListTypes
  PROVE  /\ Due \in Nat /\ Due >= Len(redirectors) /\ Len(redirectors) \in Nat
         /\ Cardinality(D!Uncounted) \in Nat
         /\ D!Uncounted = {w \in Walker : Counting(walk[w].st)}
<1>1. D!Uncounted = {w \in Walker : Counting(walk[w].st)}
  BY DEF D!Uncounted, Counting
<1>2. Cardinality(D!Uncounted) \in Nat /\ Len(redirectors) \in Nat
  BY <1>1, UncountedFinite DEF ListTypes
<1> QED
  BY <1>1, <1>2 DEF Due

LEMMA RedirectSame ==
  ASSUME RedirectInv, UNCHANGED redirectorsVars PROVE RedirectInv'
<1>1. ListTypes'
  BY DEF RedirectInv, ListTypes, redirectorsVars
<1>2. CountsDue' /\ Selected' /\ Unlinking'
  BY DEF RedirectInv, redirectorsVars, CountsDue, Due, D!Uncounted, Selected, Unlinking, Doomed,
         D!Expired
<1>3. FewSlaves' /\ HostsDiffer' /\ Configured'
  BY DEF RedirectInv, redirectorsVars, FewSlaves, HostsDiffer, Configured
<1> QED
  BY <1>1, <1>2, <1>3 DEF RedirectInv

\* A step of a walk that leaves the list, the count and what is counted out as they are.
LEMMA WalkMoves ==
  ASSUME RedirectInv, NEW w \in Walker, NEW x \in Walks, Fits(x, Len(redirectors), overcounted),
         freed \/ Doomed(x, redirectors), Counting(x.st) <=> Counting(walk[w].st),
         x.st = "store" => x.reg >= Due,
         walk' = [walk EXCEPT ![w] = x], refused' = FALSE,
         UNCHANGED <<redirectors, redirect_count, clock, reloading, turned, between,
                     overcounted, freed>>
  PROVE  RedirectInv'
<1>1. ListTypes'
  BY DEF RedirectInv, ListTypes
<1>2. walk \in [Walker -> Walks]
  BY DEF RedirectInv, ListTypes
<1>3. \A v \in Walker : walk'[v] = IF v = w THEN x ELSE walk[v]
  BY <1>2
<1>4. Selected'
  <2>1. ASSUME NEW v \in Walker PROVE Fits(walk'[v], Len(redirectors), overcounted)
    BY <1>3 DEF RedirectInv, Selected
  <2> QED
    BY <2>1 DEF Selected
<1>5. Unlinking'
  <2>1. ASSUME NEW v \in Walker PROVE freed \/ Doomed(walk'[v], redirectors)
    BY <1>3 DEF RedirectInv, Unlinking
  <2> QED
    BY <2>1 DEF Unlinking, Doomed, D!Expired
<1>6. CountsDue'
  <2>1. D!Uncounted' = D!Uncounted
    BY <1>3 DEF D!Uncounted, Counting
  <2>2. Due' = Due
    BY <2>1 DEF Due
  <2>3. ASSUME NEW v \in Walker, walk'[v].st = "store" PROVE walk'[v].reg >= Due
    BY <2>3, <1>3 DEF RedirectInv, CountsDue
  <2> QED
    BY <2>2, <2>3 DEF RedirectInv, CountsDue
<1>7. FewSlaves' /\ HostsDiffer' /\ Configured'
  BY DEF RedirectInv, FewSlaves, HostsDiffer, Configured
<1> QED
  BY <1>1, <1>4, <1>5, <1>6, <1>7 DEF RedirectInv

LEMMA ListLength ==
  ASSUME ListTypes
  PROVE  /\ Len(redirectors) \in Nat /\ DOMAIN redirectors = 1 .. Len(redirectors)
         /\ redirect_count \in Nat
         /\ \A i \in 1 .. Len(redirectors) : redirectors[i] \in Entries
  BY DEF ListTypes

LEMMA NotRefused == ASSUME RedirectInv PROVE refused = FALSE
<1>1. refused \in BOOLEAN /\ ~refused
  BY DEF RedirectInv, ListTypes, Selected
<1> QED
  BY <1>1, Zenon

LEMMA WalkTyped ==
  ASSUME RedirectInv, NEW w \in Walker
  PROVE  /\ walk \in [Walker -> Walks] /\ walk[w] \in Walks
         /\ walk[w].at \in Nat /\ walk[w].which \in Nat /\ walk[w].sent \in BOOLEAN
         /\ walk[w].dropped \in BOOLEAN /\ walk[w].reg \in Nat /\ walk[w].loose \in BOOLEAN
         /\ walk[w].stale \in BOOLEAN /\ walk[w].st \in States
         /\ Fits(walk[w], Len(redirectors), overcounted)
<1>1. walk \in [Walker -> Walks] /\ Fits(walk[w], Len(redirectors), overcounted)
  BY DEF RedirectInv, ListTypes, Selected
<1> QED
  BY <1>1 DEF Walks

LEMMA WalkStarts ==
  ASSUME RedirectInv, NEW w \in Walker, D!RedirectClient(w) PROVE RedirectInv'
<1>1. /\ refused' = FALSE /\ walk[w].st = "out"
      /\ UNCHANGED <<redirectors, redirect_count, clock, reloading, turned, between,
                     overcounted, freed>>
  BY Zenon, NotRefused DEF D!RedirectClient
<1>2. CASE UNCHANGED walk
  <2>1. UNCHANGED <<redirectors, redirect_count, walk, clock, reloading, turned, between,
                    overcounted, freed, refused>>
    BY <1>1, <1>2, NotRefused
  <2> QED
    BY <2>1, RedirectSame DEF redirectorsVars
<1>3. ASSUME NEW which \in D!Selections,
             walk' = [walk EXCEPT ![w] = Begun(which, D!Uncounted # {})]
      PROVE  RedirectInv'
  <2> DEFINE b == D!Uncounted # {}
             x == Begun(which, b)
  <2>1. which \in Nat /\ which >= 1 /\ which <= redirect_count
    BY ListLength DEF D!Selections, RedirectInv
  <2>2. x \in Walks /\ x.st = "in" /\ x.at = 1 /\ x.which = which /\ x.dropped = b
    <3>1. b \in BOOLEAN
      OBVIOUS
    <3> HIDE DEF b
    <3> QED
      BY <2>1, <3>1, WalkBegun
  <2>3. b \/ overcounted \/ redirect_count = Len(redirectors)
    <3>1. ASSUME ~b, ~overcounted PROVE redirect_count = Len(redirectors)
      <4>1. Cardinality(D!Uncounted) = 0
        BY <3>1, FS_EmptySet
      <4>2. Due = Len(redirectors)
        BY <4>1, DueTyped DEF Due, RedirectInv
      <4> QED
        BY <4>2, <3>1 DEF RedirectInv, CountsDue
    <3> QED
      BY <3>1
  <2> HIDE DEF x, b
  <2>4. Fits(x, Len(redirectors), overcounted)
    <3>1. ~Counting(x.st)
      BY <2>2 DEF Counting
    <3>2. x.dropped \/ overcounted \/ x.at + x.which <= Len(redirectors) + 1
      BY <2>1, <2>2, <2>3, ListLength DEF RedirectInv
    <3> QED
      BY <2>1, <2>2, <3>1, <3>2 DEF Fits
  <2>5. Doomed(x, redirectors) /\ (Counting(x.st) <=> Counting(walk[w].st))
        /\ (x.st = "store" => x.reg >= Due)
    BY <2>2, <1>1 DEF Doomed, Counting
  <2>6. walk' = [walk EXCEPT ![w] = x]
    BY <1>3 DEF x, b
  <2> QED
    BY <2>2, <2>4, <2>5, <2>6, <1>1, WalkMoves
<1> QED
  BY <1>2, <1>3 DEF D!RedirectClient, Begun

\* The walk meets an entry that has expired.
LEMMA WalkExpires ==
  ASSUME RedirectInv, NEW w \in Walker, D!Expires(w) PROVE RedirectInv'
<1> DEFINE x == Bound(walk[w])
<1>1. /\ refused' = FALSE /\ walk[w].st = "in" /\ walk[w].at \in DOMAIN redirectors
      /\ D!Expired(redirectors[walk[w].at])
      /\ UNCHANGED <<redirectors, redirect_count, clock, reloading, turned, between,
                     overcounted, freed>>
  BY Zenon, NotRefused DEF D!Expires
<1>2. walk' = [walk EXCEPT ![w] = x]
  BY WalkTyped DEF D!Expires, Bound
<1>3. /\ x \in Walks /\ x.st = "unlink" /\ x.at = walk[w].at /\ x.which = walk[w].which
      /\ x.sent = walk[w].sent /\ x.dropped = walk[w].dropped
  BY WalkTyped, StateSet DEF Bound, States
<1> HIDE DEF x
<1>4. Fits(x, Len(redirectors), overcounted)
  BY <1>1, <1>3, WalkTyped DEF Fits, Counting
<1>5. Doomed(x, redirectors) /\ (Counting(x.st) <=> Counting(walk[w].st))
  BY <1>1, <1>3 DEF Doomed, Counting
<1> QED
  BY <1>1, <1>2, <1>3, <1>4, <1>5, WalkMoves

\* It loads the count, which is not less than what is due.
LEMMA WalkLoads ==
  ASSUME RedirectInv, NEW w \in Walker, D!CountRead(w) PROVE RedirectInv'
<1> DEFINE x == Loaded(walk[w], redirect_count)
<1>1. /\ refused' = FALSE /\ walk[w].st = "count"
      /\ UNCHANGED <<redirectors, redirect_count, clock, reloading, turned, between,
                     overcounted, freed>>
  BY Zenon, NotRefused DEF D!CountRead
<1>2. walk' = [walk EXCEPT ![w] = x]
  BY WalkTyped DEF D!CountRead, Loaded
<1>3. /\ x \in Walks /\ x.st = "store" /\ x.at = walk[w].at /\ x.dropped = walk[w].dropped
      /\ x.reg = redirect_count
  BY WalkTyped, ListLength, WalkLoaded DEF RedirectInv
<1> HIDE DEF x
<1>4. Fits(x, Len(redirectors), overcounted)
  BY <1>1, <1>3, WalkTyped DEF Fits, Counting
<1>5. /\ Doomed(x, redirectors) /\ (Counting(x.st) <=> Counting(walk[w].st))
      /\ x.reg >= Due
  BY <1>1, <1>3 DEF Doomed, Counting, RedirectInv, CountsDue
<1> QED
  BY <1>1, <1>2, <1>3, <1>4, <1>5, WalkMoves

LEMMA WalkPasses ==
  ASSUME RedirectInv, NEW w \in Walker, D!Passes(w) PROVE RedirectInv'
<1> DEFINE o == walk[w]
           a == o.at + 1
           n == IF o.which > 0 THEN o.which - 1 ELSE o.which
           b == o.sent \/ o.which = 1
           x == Gone(o, a, n, b)
<1>1. /\ refused' = FALSE /\ o.st = "in"
      /\ UNCHANGED <<redirectors, redirect_count, clock, reloading, turned, between,
                     overcounted, freed>>
  BY Zenon, NotRefused DEF D!Passes
<1>2. walk \in [Walker -> Walks]
  BY DEF RedirectInv, ListTypes
<1>3. /\ o \in Walks /\ o.at \in Nat /\ o.which \in Nat /\ o.sent \in BOOLEAN
      /\ o.dropped \in BOOLEAN
  BY WalkTyped
<1>4. walk' = [walk EXCEPT ![w] = x]
  BY <1>2 DEF D!Passes, Gone
<1>5. a \in Nat /\ n \in Nat /\ b \in BOOLEAN
  <2> HIDE DEF o
  <2> QED
    BY <1>3
<1>6. /\ x \in Walks /\ x.st = o.st /\ x.at = a /\ x.which = n /\ x.sent = b
      /\ x.dropped = o.dropped
  <2> HIDE DEF o, a, n, b
  <2>1. PICK y \in Walks, i \in Nat, j \in Nat, c \in BOOLEAN : y = o /\ i = a /\ j = n /\ c = b
    BY <1>3, <1>5, Zenon
  <2>2. /\ Gone(y, i, j, c) \in Walks /\ Gone(y, i, j, c).st = y.st
        /\ Gone(y, i, j, c).at = i /\ Gone(y, i, j, c).which = j
        /\ Gone(y, i, j, c).sent = c /\ Gone(y, i, j, c).dropped = y.dropped
    BY WalkGone
  <2> QED
    BY <2>1, <2>2, Zenon
<1>8. Fits(o, Len(redirectors), overcounted) /\ Len(redirectors) \in Nat
  BY ListLength, WalkTyped DEF RedirectInv
<1>9. Fits(x, Len(redirectors), overcounted)
  <2> HIDE DEF o, x
  <2>0. ~Counting(x.st)
    BY <1>1, <1>6 DEF Counting
  <2>1. CASE o.which > 1
    BY <2>0, <2>1, <1>1, <1>3, <1>6, <1>8 DEF Fits
  <2>2. CASE o.which = 1
    <3>1. x.sent
      BY <2>2, <1>6, Zenon
    <3> QED
      BY <2>0, <3>1, <1>1, <1>3, <1>6, <1>8 DEF Fits
  <2>3. CASE o.which = 0
    BY <2>0, <2>3, <1>1, <1>3, <1>6, <1>8 DEF Fits
  <2> QED
    BY <2>1, <2>2, <2>3, <1>3
<1>10. /\ Doomed(x, redirectors) /\ (Counting(x.st) <=> Counting(walk[w].st))
       /\ (x.st = "store" => x.reg >= Due)
  BY <1>1, <1>6 DEF Doomed, Counting
<1> HIDE DEF x, o
<1> QED
  BY <1>1, <1>4, <1>6, <1>9, <1>10, WalkMoves

LEMMA WalkEnds ==
  ASSUME RedirectInv, NEW w \in Walker, D!Ends(w) PROVE RedirectInv'
<1>1. /\ walk' = [walk EXCEPT ![w] = D!NoWalk]
      /\ UNCHANGED <<redirectors, redirect_count, clock, reloading, turned, between,
                     overcounted, freed>>
      /\ refused' = (refused \/ ~(walk[w].sent \/ walk[w].dropped \/ overcounted))
      /\ walk[w].st = "in" /\ walk[w].at \notin 1 .. Len(redirectors)
  BY ListLength DEF D!Ends, RedirectInv
<1>2. walk[w] \in Walks /\ walk[w].at \in Nat /\ walk[w].which \in Nat
  BY WalkTyped
<1>3. Fits(walk[w], Len(redirectors), overcounted) /\ Len(redirectors) \in Nat /\ ~refused
  BY ListLength, WalkTyped, NotRefused DEF RedirectInv
<1>4. walk[w].sent \/ walk[w].dropped \/ overcounted
  BY <1>1, <1>2, <1>3 DEF Fits
<1>5. refused' = FALSE
  BY <1>1, <1>3, <1>4, Zenon
<1>6. /\ D!NoWalk \in Walks /\ Fits(D!NoWalk, Len(redirectors), overcounted)
      /\ Doomed(D!NoWalk, redirectors) /\ D!NoWalk.st # "store"
      /\ (Counting(D!NoWalk.st) <=> Counting(walk[w].st))
  BY NoWalkTyped, <1>1 DEF Fits, Doomed, Counting
<1> QED
  BY <1>1, <1>5, <1>6, WalkMoves

\* It stores the count: what is due has come down by one, and the count to no less.
LEMMA WalkStores ==
  ASSUME RedirectInv, ~freed, NEW w \in Walker, D!CountWrite(w) PROVE RedirectInv'
<1> DEFINE o == walk[w]
           n == IF o.which > 0 THEN o.which - 1 ELSE o.which
           x == Stored(o, n)
<1>1. /\ redirect_count' = o.reg - 1 /\ o.st = "store"
      /\ overcounted' = (overcounted \/ o.reg # redirect_count)
      /\ freed' \in {FALSE, o.loose}
      /\ UNCHANGED <<redirectors, clock, reloading, turned, between, refused>>
  BY DEF D!CountWrite, D!Counted
<1>2. /\ o \in Walks /\ o.at \in Nat /\ o.which \in Nat /\ o.dropped \in BOOLEAN
      /\ o.reg \in Nat /\ o.loose \in BOOLEAN /\ walk \in [Walker -> Walks]
      /\ Fits(o, Len(redirectors), overcounted)
  BY WalkTyped
<1>3. walk' = [walk EXCEPT ![w] = x]
  BY <1>2 DEF D!CountWrite, Stored
<1>4. x \in Walks /\ x.st = "in" /\ x.at = o.at /\ x.dropped = o.dropped
  <2>1. n \in Nat
    <3> HIDE DEF o
    <3> QED
      BY <1>2
  <2> HIDE DEF o, n
  <2> QED
    BY <1>2, <2>1, WalkStored
<1> HIDE DEF x
<1>5. \A v \in Walker : walk'[v] = IF v = w THEN x ELSE walk[v]
  BY <1>2, <1>3
<1>6. /\ Due \in Nat /\ Len(redirectors) \in Nat /\ redirect_count \in Nat
      /\ overcounted \in BOOLEAN /\ freed \in BOOLEAN
      /\ o.reg >= Due /\ redirect_count >= Due /\ (redirect_count = Due \/ overcounted)
  BY <1>1, DueTyped DEF RedirectInv, ListTypes, CountsDue
<1>7. Due' = Due - 1 /\ Due >= 1
  <2>1. D!Uncounted' = D!Uncounted \ {w} /\ w \in D!Uncounted
    BY <1>1, <1>4, <1>5 DEF D!Uncounted
  <2>2. IsFiniteSet(D!Uncounted) /\ Cardinality(D!Uncounted) \in Nat
    BY UncountedFinite DEF D!Uncounted
  <2>3. /\ Cardinality(D!Uncounted \ {w}) = Cardinality(D!Uncounted) - 1
        /\ Cardinality(D!Uncounted \ {w}) \in Nat
    BY <2>1, <2>2, FS_RemoveElement, FS_CardinalityType
  <2> QED
    BY <2>1, <2>2, <2>3, <1>1, <1>6 DEF Due
<1> HIDE DEF o
<1>8. ListTypes'
  <2>1. walk' \in [Walker -> Walks]
    BY <1>2, <1>3, <1>4
  <2>2. redirect_count' \in Nat
    BY <1>1, <1>2, <1>6, <1>7
  <2>3. overcounted' \in BOOLEAN /\ freed' \in BOOLEAN
    BY <1>1, <1>2
  <2> QED
    BY <2>1, <2>2, <2>3, <1>1 DEF RedirectInv, ListTypes
<1>9. CountsDue'
  <2>1. redirect_count' >= Due'
    BY <1>1, <1>2, <1>6, <1>7
  <2>2. redirect_count' = Due' \/ overcounted'
    BY <1>1, <1>2, <1>6, <1>7
  <2>3. ASSUME NEW v \in Walker, walk'[v].st = "store" PROVE walk'[v].reg >= Due'
    <3>1. v # w /\ walk'[v] = walk[v] /\ walk[v].reg \in Nat
      BY <2>3, <1>4, <1>5, WalkTyped
    <3>2. walk[v].reg >= Due
      BY <2>3, <3>1 DEF RedirectInv, CountsDue
    <3> QED
      BY <3>1, <3>2, <1>6, <1>7
  <2> QED
    BY <2>1, <2>2, <2>3 DEF CountsDue
<1>10. Selected'
  <2>1. ASSUME NEW v \in Walker PROVE Fits(walk'[v], Len(redirectors), overcounted')
    <3>1. CASE v = w
      <4>1. x.at >= 1 /\ x.dropped /\ ~Counting(x.st)
        BY <1>1, <1>2, <1>4 DEF Fits, Counting
      <4> QED
        BY <3>1, <4>1, <1>5 DEF Fits
    <3>2. CASE v # w
      <4>1. Fits(walk[v], Len(redirectors), overcounted) /\ (overcounted => overcounted')
        BY WalkTyped, <1>1
      <4>2. Fits(walk[v], Len(redirectors), overcounted')
        BY <4>1, Zenon DEF Fits
      <4> QED
        BY <3>2, <4>2, <1>5
    <3> QED
      BY <3>1, <3>2
  <2>2. ~refused'
    BY <1>1, NotRefused
  <2> QED
    BY <2>1, <2>2, <1>1 DEF Selected
<1>11. Unlinking'
  <2>1. ASSUME NEW v \in Walker PROVE Doomed(walk'[v], redirectors)
    BY <1>4, <1>5 DEF RedirectInv, Unlinking, Doomed
  <2> QED
    BY <2>1, <1>1 DEF Unlinking, Doomed, D!Expired
<1>12. FewSlaves' /\ HostsDiffer' /\ Configured'
  BY <1>1 DEF RedirectInv, FewSlaves, HostsDiffer, Configured
<1> QED
  BY <1>8, <1>9, <1>10, <1>11, <1>12 DEF RedirectInv

\* An entry is taken out of the list: who stands behind it moves up.
LEMMA EntryDropped ==
  ASSUME RedirectInv, ~freed, NEW w \in Walker, D!Unlinks(w) PROVE RedirectInv'
<1> DEFINE i == walk[w].at
           t == redirectors'
           n == Len(redirectors)
<1>1. /\ walk[w].st = "unlink" /\ i \in 1 .. n /\ D!Expired(redirectors[i])
      /\ t = D!RemoveAt(redirectors, i)
      /\ UNCHANGED <<redirect_count, clock, reloading, turned, between, overcounted, refused>>
      /\ freed' = D!Misuses(w, i)
  BY ListLength DEF D!Unlinks, RedirectInv, Unlinking, Doomed
<1>2. /\ redirectors \in Seq(Entries) /\ n \in Nat /\ redirect_count \in Nat
      /\ walk \in [Walker -> Walks]
      /\ \A j \in 1 .. n : redirectors[j] \in Entries
  BY ListLength DEF RedirectInv, ListTypes
<1>3. /\ t \in Seq(Entries) /\ Len(t) = n - 1
      /\ \A j \in 1 .. Len(t) : t[j] = redirectors[IF j < i THEN j ELSE j + 1]
  BY <1>1, <1>2, Removed
<1>4. \A v \in Walker :
         /\ walk'[v] \in Walks
         /\ v = w => walk'[v].st = "count"
         /\ v # w => walk'[v].st = walk[v].st /\ walk'[v].reg = walk[v].reg
         /\ walk'[v].st # "out" => walk'[v].at >= 1 /\ walk'[v].dropped
         /\ v # w /\ walk[v].st # "out" =>
               walk'[v].at = IF walk[v].at > i THEN walk[v].at - 1 ELSE walk[v].at
  <2> SUFFICES ASSUME NEW v \in Walker
               PROVE  /\ walk'[v] \in Walks
                      /\ v = w => walk'[v].st = "count"
                      /\ v # w => walk'[v].st = walk[v].st /\ walk'[v].reg = walk[v].reg
                      /\ walk'[v].st # "out" => walk'[v].at >= 1 /\ walk'[v].dropped
                      /\ v # w /\ walk[v].st # "out" =>
                            walk'[v].at = IF walk[v].at > i THEN walk[v].at - 1 ELSE walk[v].at
    OBVIOUS
  <2> DEFINE o == walk[v]
             a == IF o.at > i THEN o.at - 1 ELSE o.at
  <2>1. /\ o \in Walks /\ o.at \in Nat /\ i \in Nat /\ i >= 1
        /\ o.st # "out" => o.at >= 1
    <3>1. Fits(o, n, overcounted) /\ o \in Walks
      BY WalkTyped
    <3>2. i \in Nat /\ i >= 1
      BY <1>1, <1>2
    <3> HIDE DEF i
    <3> QED
      BY <3>1, <3>2, WalkTyped DEF Fits
  <2>2. a \in Nat /\ (o.st # "out" => a >= 1)
    <3> HIDE DEF o, i
    <3> QED
      BY <2>1
  <2>3. walk'[v] = IF v = w THEN TakenOut(o)
                   ELSE IF v \in D!Inside THEN Moved(o, i) ELSE o
    BY DEF D!Unlinks, D!Shifted, TakenOut, Moved
  <2>4. o.st # "out" <=> v \in D!Inside
    BY DEF D!Inside
  <2>5. /\ TakenOut(o) \in Walks /\ TakenOut(o).st = "count" /\ TakenOut(o).at = o.at
        /\ TakenOut(o).dropped
    <3> HIDE DEF o
    <3> QED
      BY <2>1, WalkTaken
  <2>6. /\ Moved(o, i) \in Walks /\ Moved(o, i).at = a /\ Moved(o, i).dropped
        /\ Moved(o, i).st = o.st /\ Moved(o, i).reg = o.reg
    <3> HIDE DEF o, i
    <3> QED
      BY <2>1, WalkMoved
  <2>7. CASE v = w
    <3>1. o.st # "out"
      BY <2>7, <1>1 DEF o
    <3> HIDE DEF o, a, i
    <3> QED
      BY <2>7, <3>1, <2>1, <2>3, <2>5
  <2>8. CASE v # w /\ v \in D!Inside
    <3>1. /\ walk'[v] = Moved(o, i) /\ o.st # "out"
      BY <2>8, <2>3, <2>4
    <3>2. a = IF walk[v].at > i THEN walk[v].at - 1 ELSE walk[v].at
      OBVIOUS
    <3>3. o = walk[v]
      OBVIOUS
    <3> HIDE DEF o, a, i
    <3> QED
      BY <2>8, <3>1, <3>2, <3>3, <2>2, <2>6
  <2>9. CASE v # w /\ v \notin D!Inside
    BY <2>9, <2>1, <2>3, <2>4
  <2> QED
    BY <2>7, <2>8, <2>9
<1>5. ListTypes'
  <2>1. walk' \in [Walker -> Walks]
    <3>1. walk' = [v \in Walker |-> walk'[v]]
      BY DEF D!Unlinks
    <3> QED
      BY <3>1, <1>4
  <2>2. redirectors' \in Seq(Entries) /\ redirect_count' \in Nat
    BY <1>1, <1>2, <1>3
  <2>3. freed' \in BOOLEAN
    <3>1. walk[w].loose \in BOOLEAN /\ walk[w].stale \in BOOLEAN
      BY WalkTyped
    <3> QED
      BY <1>1, <3>1 DEF D!Misuses
  <2>4. /\ clock' \in StartTime .. EndTime /\ turned' \subseteq Server
        /\ reloading' \in BOOLEAN /\ between' \in BOOLEAN /\ refused' \in BOOLEAN
        /\ overcounted' \in BOOLEAN
    BY <1>1 DEF RedirectInv, ListTypes
  <2> QED
    BY <2>1, <2>2, <2>3, <2>4, Zenon DEF ListTypes
<1>6. Selected'
  <2>1. ~refused'
    BY <1>1, Zenon DEF RedirectInv, Selected
  <2> QED
    BY <1>4, <2>1 DEF Selected, Fits
<1>13. CountsDue'
  <2>1. D!Uncounted' = D!Uncounted \cup {w} /\ w \notin D!Uncounted
    BY <1>1, <1>4 DEF D!Uncounted
  <2>2. IsFiniteSet(D!Uncounted) /\ Cardinality(D!Uncounted) \in Nat
    BY UncountedFinite DEF D!Uncounted
  <2>3. Cardinality(D!Uncounted \cup {w}) = Cardinality(D!Uncounted) + 1
    BY <2>1, <2>2, FS_AddElement
  <2>4. Due' = Due
    BY <2>1, <2>2, <2>3, <1>2, <1>3 DEF Due
  <2>5. ASSUME NEW v \in Walker, walk'[v].st = "store" PROVE walk'[v].reg >= Due
    <3>1. v # w
      BY <2>5, <1>4
    <3>2. walk[v].st = "store" /\ walk'[v].reg = walk[v].reg
      BY <2>5, <3>1, <1>4
    <3> QED
      BY <3>2 DEF RedirectInv, CountsDue
  <2> QED
    BY <2>4, <2>5, <1>1 DEF RedirectInv, CountsDue
<1> DEFINE m(j) == IF j < i THEN j ELSE j + 1
<1>7. \A j \in 1 .. Len(t) : m(j) \in 1 .. n /\ t[j] = redirectors[m(j)] /\ m(j) # i
  <2> HIDE DEF i, t
  <2> QED
    BY <1>1, <1>2, <1>3
<1>8. \A j, k \in 1 .. Len(t) : m(j) = m(k) => j = k
  <2> HIDE DEF i, t
  <2> QED
    BY <1>1, <1>2, <1>3
<1>9. DOMAIN t = 1 .. Len(t) /\ DOMAIN redirectors = 1 .. n
  BY <1>2, <1>3
<1>14. Unlinking'
  <2> SUFFICES ASSUME ~freed', NEW v \in Walker, walk'[v].st = "unlink"
               PROVE  /\ walk'[v].at \in DOMAIN t /\ t[walk'[v].at].upd # 0
                      /\ t[walk'[v].at].upd + Grace < clock
    BY <1>1 DEF Unlinking, Doomed, D!Expired
  <2> DEFINE k == walk[v].at
  <2>1. v # w /\ walk[v].st = "unlink"
    BY <1>4
  <2>2. k \in 1 .. n /\ D!Expired(redirectors[k])
    BY <2>1, <1>9 DEF RedirectInv, Unlinking, Doomed
  <2>3. k # i
    <3>1. v \in D!Inside /\ v \notin D!Uncounted
      BY <2>1 DEF D!Inside, D!Uncounted
    <3> QED
      BY <3>1, <2>1, <1>1 DEF D!Misuses
  <2>4. walk'[v].at = IF k > i THEN k - 1 ELSE k
    BY <1>4, <2>1
  <2> HIDE DEF k, i, t, n
  <2>5. walk'[v].at \in 1 .. Len(t) /\ m(walk'[v].at) = k
    BY <2>2, <2>3, <2>4, <1>1, <1>2, <1>3
  <2>6. t[walk'[v].at] = redirectors[k]
    BY <2>5, <1>7
  <2> QED
    BY <2>2, <2>5, <2>6, <1>9 DEF D!Expired
<1> HIDE DEF m, t
<1>10. FewSlaves'
  <2> DEFINE f == [j \in Slaves(t) |-> m(j)]
  <2>1. f \in [Slaves(t) -> Slaves(redirectors)]
    BY <1>7, <1>9 DEF Slaves
  <2>2. \A j, k \in Slaves(t) : f[j] = f[k] => j = k
    BY <1>8, <1>9 DEF Slaves
  <2> HIDE DEF f
  <2>3. Cardinality(Slaves(t)) <= Cardinality(Slaves(redirectors))
    BY <2>1, <2>2, <1>2, <1>3, SlavesMoved
  <2>4. Cardinality(Slaves(t)) \in Nat /\ Cardinality(Slaves(redirectors)) \in Nat
    BY <1>2, <1>3, SlavesCounted
  <2>5. Cardinality(Slaves(redirectors)) <= MaxRedirects /\ MaxRedirects \in Nat
    BY RedirectorSettings DEF RedirectInv, FewSlaves, D!Settings
  <2>6. Cardinality(Slaves(t)) <= MaxRedirects
    BY <2>3, <2>4, <2>5
  <2> QED
    BY <2>6 DEF FewSlaves, t
<1>11. HostsDiffer'
  <2>1. (reloading /\ ~between) => FALSE
    <3>1. reloading /\ ~between => redirectors = <<>>
      BY DEF RedirectInv, HostsDiffer
    <3>2. redirectors # <<>>
      BY <1>1, <1>2
    <3> QED
      BY <3>1, <3>2
  <2>2. between \/ \A j, k \in 1 .. Len(t) : t[j].host = t[k].host => j = k
    BY <1>7, <1>8, <1>9 DEF RedirectInv, HostsDiffer
  <2> QED
    BY <2>1, <2>2, <1>1, <1>9 DEF HostsDiffer, t
<1>12. Configured'
  <2>1. redirectors[i].upd # 0
    BY <1>1 DEF D!Expired
  <2>2. ASSUME NEW h, Stays(h, redirectors) PROVE Stays(h, t)
    <3>1. PICK k \in 1 .. n : redirectors[k].host = h /\ redirectors[k].upd = 0
      BY <2>2, <1>9 DEF Stays
    <3>2. k # i
      BY <3>1, <2>1
    <3> DEFINE j == IF k < i THEN k ELSE k - 1
    <3>3. j \in 1 .. Len(t) /\ m(j) = k
      <4> HIDE DEF i
      <4> QED
        BY <3>1, <3>2, <1>1, <1>2, <1>3 DEF m
    <3> HIDE DEF j
    <3>4. t[j] = redirectors[k]
      BY <3>3, <1>7
    <3> QED
      BY <3>1, <3>3, <3>4, <1>9 DEF Stays
  <2> QED
    BY <2>2, <1>1 DEF RedirectInv, Configured, t
<1> QED
  BY <1>5, <1>6, <1>13, <1>14, <1>10, <1>11, <1>12 DEF RedirectInv

-----------------------------------------------------------------------------
(***************************************************************************)
(* Operations under the write lock                                         *)
(***************************************************************************)

\* No walk is inside: what is selected does not depend on the list, and nothing is to be
\* counted out.
LEMMA NoneInside ==
  ASSUME RedirectInv, D!Inside = {}, UNCHANGED <<walk, clock, freed, refused>>
  PROVE  /\ Selected' /\ Unlinking'
         /\ walk' \in [Walker -> Walks] /\ clock' \in StartTime .. EndTime
         /\ freed' \in BOOLEAN /\ refused' \in BOOLEAN
<1>1. \A w \in Walker : walk'[w].st = "out"
  BY DEF D!Inside
<1>2. Selected' /\ Unlinking'
  BY <1>1 DEF RedirectInv, Selected, Fits, Unlinking, Doomed
<1>3. /\ walk' \in [Walker -> Walks] /\ clock' \in StartTime .. EndTime
      /\ freed' \in BOOLEAN /\ refused' \in BOOLEAN
  BY DEF RedirectInv, ListTypes
<1> QED
  BY <1>2, <1>3

LEMMA NoneDue ==
  ASSUME RedirectInv, D!Inside = {}
  PROVE  /\ redirect_count \in Nat /\ Len(redirectors) \in Nat
         /\ redirect_count >= Len(redirectors)
         /\ redirect_count = Len(redirectors) \/ overcounted
<1>1. \A w \in Walker : walk[w].st = "out"
  BY DEF D!Inside
<1>2. D!Uncounted = {}
  BY <1>1 DEF D!Uncounted
<1>3. Len(redirectors) \in Nat /\ redirect_count \in Nat
  BY ListLength DEF RedirectInv
<1>4. Due = Len(redirectors)
  BY <1>2, <1>3, FS_EmptySet DEF Due
<1> QED
  BY <1>3, <1>4 DEF RedirectInv, CountsDue

LEMMA DueListed ==
  ASSUME D!Inside = {}, UNCHANGED walk, redirectors' \in Seq(Entries),
         redirect_count' >= Len(redirectors'),
         redirect_count' = Len(redirectors') \/ overcounted'
  PROVE  CountsDue'
<1>1. \A w \in Walker : walk'[w].st = "out"
  BY DEF D!Inside
<1>2. D!Uncounted' = {}
  BY <1>1 DEF D!Uncounted
<1>3. Due' = Len(redirectors')
  <2>1. Len(redirectors') \in Nat
    OBVIOUS
  <2> QED
    BY <1>2, <2>1, FS_EmptySet DEF Due
<1> QED
  BY <1>1, <1>3 DEF CountsDue

LEMMA EntryTouched ==
  ASSUME RedirectInv, D!Inside = {}, NEW h \in Server, NEW u \in Nat, D!Found(h) # {},
         D!Touched(h, u),
         UNCHANGED <<redirect_count, walk, clock, reloading, between, overcounted, freed, refused>>
  PROVE  RedirectInv'
<1> DEFINE k == CHOOSE i \in D!Found(h) : \A j \in D!Found(h) : i <= j
           n == Len(redirectors)
           t == redirectors'
<1>1. ListTypes /\ n \in Nat /\ DOMAIN redirectors = 1 .. n /\ redirect_count \in Nat
      /\ \A i \in 1 .. n : redirectors[i] \in Entries
  BY ListLength DEF RedirectInv
<1>2. k \in 1 .. n /\ redirectors[k].host = h
  BY <1>1, FirstFound
<1>3. t = [redirectors EXCEPT ![k].upd = u] /\ turned' = turned \cup {h}
  BY DEF D!Touched
<1> HIDE DEF k, t
<1>4. redirectors \in Seq(Entries)
  BY <1>1 DEF ListTypes
<1>5. /\ DOMAIN t = 1 .. n
      /\ \A i \in 1 .. n : /\ t[i] \in Entries /\ t[i].host = redirectors[i].host
                           /\ t[i].by = redirectors[i].by
                           /\ i # k => t[i] = redirectors[i]
  BY <1>1, <1>2, <1>3 DEF Entries
<1>6. t \in Seq(Entries) /\ Len(t) = n
  <2>1. t = [i \in 1 .. n |-> t[i]]
    BY <1>1, <1>3
  <2>2. t \in [1 .. n -> Entries]
    BY <2>1, <1>5
  <2> HIDE DEF n
  <2> QED
    BY <2>2, <1>1, <1>5
<1>7. ListTypes'
  <2>1. t \in Seq(Entries) /\ redirect_count' \in Nat /\ turned' \subseteq Server
    BY <1>1, <1>3, <1>6 DEF ListTypes
  <2>2. reloading' \in BOOLEAN /\ between' \in BOOLEAN /\ overcounted' \in BOOLEAN
    BY <1>1 DEF ListTypes
  <2> QED
    BY <2>1, <2>2, NoneInside, Zenon DEF ListTypes, t
<1>11. CountsDue'
  BY <1>6, NoneDue, DueListed DEF t
<1>8. FewSlaves'
  <2>1. Slaves(t) = Slaves(redirectors)
    BY <1>1, <1>5 DEF Slaves
  <2> QED
    BY <2>1 DEF RedirectInv, FewSlaves, t
<1>9. HostsDiffer'
  <2>1. reloading /\ ~between => FALSE
    <3>1. redirectors # <<>>
      BY <1>1, <1>2
    <3> QED
      BY <3>1 DEF RedirectInv, HostsDiffer
  <2>2. between \/ \A i, j \in 1 .. n : t[i].host = t[j].host => i = j
    BY <1>1, <1>5 DEF RedirectInv, HostsDiffer
  <2> QED
    BY <2>1, <2>2, <1>5 DEF HostsDiffer, t
<1>10. Configured'
  <2>1. ASSUME NEW g, Stays(g, redirectors) PROVE g \in turned' \/ Stays(g, t)
    <3>1. PICK j \in 1 .. n : redirectors[j].host = g /\ redirectors[j].upd = 0
      BY <2>1, <1>1 DEF Stays
    <3>2. CASE j = k
      BY <3>1, <3>2, <1>2, <1>3
    <3>3. CASE j # k
      BY <3>1, <3>3, <1>5 DEF Stays
    <3> QED
      BY <3>2, <3>3
  <2>2. turned \subseteq turned'
    BY <1>3
  <2> QED
    BY <2>1, <2>2 DEF RedirectInv, Configured, t
<1> QED
  BY <1>7, <1>8, <1>9, <1>10, <1>11, NoneInside DEF RedirectInv

\* A host that is not listed is put first.
LEMMA HostAdded ==
  ASSUME RedirectInv, D!Inside = {}, NEW e \in Entries, D!Found(e.host) = {}, D!Add(<<e>>),
         e.by # "slave" \/ redirect_count < MaxRedirects,
         between' = (between \/ reloading),
         UNCHANGED <<walk, clock, reloading, turned, overcounted, freed, refused>>
  PROVE  RedirectInv'
<1> DEFINE n == Len(redirectors)
           s == redirectors
           t == redirectors'
<1>1. ListTypes /\ n \in Nat /\ DOMAIN s = 1 .. n /\ redirect_count \in Nat /\ s \in Seq(Entries)
      /\ \A i \in 1 .. n : s[i] \in Entries
  BY ListLength DEF RedirectInv, ListTypes
<1>2. <<e>> \in Seq(Entries) /\ Len(<<e>>) = 1 /\ <<e>>[1] = e
  OBVIOUS
<1>3. t = <<e>> \o s /\ redirect_count' = redirect_count + 1
  BY <1>2 DEF D!Add
<1> HIDE DEF t
<1>4. /\ t \in Seq(Entries) /\ Len(t) = 1 + n /\ t[1] = e
      /\ \A i \in 1 .. n : t[1 + i] = s[i]
      /\ \A i \in 1 .. 1 + n : i <= 1 \/ i - 1 \in 1 .. n
  <2>1. /\ <<e>> \o s \in Seq(Entries) /\ Len(<<e>> \o s) = Len(<<e>>) + Len(s)
        /\ \A i \in 1 .. Len(<<e>>) : (<<e>> \o s)[i] = <<e>>[i]
        /\ \A i \in 1 .. Len(s) : (<<e>> \o s)[Len(<<e>>) + i] = s[i]
    BY <1>1, <1>2, Prepended
  <2> QED
    BY <2>1, <1>1, <1>2, <1>3
<1>5. DOMAIN t = 1 .. 1 + n
  BY <1>1, <1>4
<1>6. \A i \in 1 .. 1 + n : i = 1 \/ (i - 1 \in 1 .. n /\ t[i] = s[i - 1])
  <2> SUFFICES ASSUME NEW i \in 1 .. 1 + n, i # 1 PROVE i - 1 \in 1 .. n /\ t[i] = s[i - 1]
    OBVIOUS
  <2>1. i - 1 \in 1 .. n /\ 1 + (i - 1) = i
    BY <1>1
  <2> QED
    BY <2>1, <1>4
<1> HIDE DEF n, s
<1>7. ListTypes'
  <2>1. t \in Seq(Entries) /\ redirect_count' \in Nat
    BY <1>1, <1>3, <1>4
  <2>2. turned' \subseteq Server /\ reloading' \in BOOLEAN /\ overcounted' \in BOOLEAN
    BY <1>1 DEF ListTypes
  <2>3. between' \in BOOLEAN
    OBVIOUS
  <2> QED
    BY <2>1, <2>2, <2>3, NoneInside, Zenon DEF ListTypes, t
<1>12. redirect_count >= n /\ (redirect_count = n \/ overcounted)
  BY NoneDue DEF n
<1>11. CountsDue'
  BY <1>12, <1>1, <1>3, <1>4, DueListed DEF t
<1>8. FewSlaves'
  <2>1. Cardinality(Slaves(t)) <= MaxRedirects
    <3>1. MaxRedirects \in Nat /\ Cardinality(Slaves(t)) \in Nat
          /\ Cardinality(Slaves(t)) <= Len(t) /\ Cardinality(Slaves(s)) \in Nat
      BY <1>1, <1>4, SlavesCounted, RedirectorSettings DEF D!Settings
    <3>2. CASE redirect_count < MaxRedirects
      BY <3>1, <3>2, <1>1, <1>4, <1>12
    <3>3. CASE e.by # "slave"
      <4>0. \A i \in 1 .. Len(<<e>>) : <<e>>[i].by # "slave"
        BY <3>3, <1>2
      <4>1. Cardinality(Slaves(<<e>> \o s)) <= Cardinality(Slaves(s))
        BY <4>0, <1>1, <1>2, NoneAdded
      <4>2. Cardinality(Slaves(s)) <= MaxRedirects
        BY DEF RedirectInv, FewSlaves, s
      <4> QED
        BY <3>1, <4>1, <4>2, <1>3
    <3> QED
      BY <3>2, <3>3
  <2> QED
    BY <2>1 DEF FewSlaves, t
<1>9. HostsDiffer'
  <2>1. \A i \in 1 .. n : s[i].host # e.host
    BY <1>1 DEF D!Found, s
  <2>2. between \/ \A i, j \in 1 .. n : s[i].host = s[j].host => i = j
    BY <1>1 DEF RedirectInv, HostsDiffer, s
  <2>3. ASSUME ~between', NEW i \in 1 .. 1 + n, NEW j \in 1 .. 1 + n, t[i].host = t[j].host
        PROVE  i = j
    <3>1. ~between
      BY <2>3
    <3>2. CASE i = 1
      BY <3>2, <2>1, <2>3, <1>4, <1>6
    <3>3. CASE j = 1
      BY <3>3, <2>1, <2>3, <1>4, <1>6
    <3>4. CASE i # 1 /\ j # 1
      <4>1. i - 1 \in 1 .. n /\ j - 1 \in 1 .. n /\ s[i - 1].host = s[j - 1].host
        BY <3>4, <2>3, <1>6
      <4>2. i - 1 = j - 1
        BY <4>1, <3>1, <2>2
      <4> QED
        BY <4>2, <1>1
    <3> QED
      BY <3>2, <3>3, <3>4
  <2>4. reloading' => between'
    OBVIOUS
  <2> QED
    BY <2>3, <2>4, <1>5 DEF HostsDiffer, t
<1>10. Configured'
  <2>1. ASSUME NEW g, Stays(g, s) PROVE Stays(g, t)
    <3>1. PICK j \in 1 .. n : s[j].host = g /\ s[j].upd = 0
      BY <2>1, <1>1 DEF Stays
    <3>2. 1 + j \in 1 .. 1 + n /\ t[1 + j] = s[j]
      BY <3>1, <1>1, <1>4
    <3> QED
      BY <3>1, <3>2, <1>5 DEF Stays
  <2> QED
    BY <2>1 DEF RedirectInv, Configured, s, t
<1> QED
  BY <1>7, <1>8, <1>9, <1>10, <1>11, NoneInside DEF RedirectInv

\* redirector_clearall.
LEMMA ListCleared ==
  ASSUME RedirectInv, D!RedirectorClearall PROVE RedirectInv'
<1>1. /\ redirectors' = <<>> /\ redirect_count' = 0 /\ reloading' = TRUE /\ turned' = {}
      /\ between' = FALSE /\ overcounted' = FALSE /\ D!Inside = {}
      /\ UNCHANGED <<walk, clock, freed, refused>>
  BY DEF D!RedirectorClearall
<1>2. ListTypes' /\ CountsDue'
  <2>1. /\ redirectors' \in Seq(Entries) /\ redirect_count' = Len(redirectors')
        /\ redirect_count' \in Nat /\ redirect_count' >= Len(redirectors')
    BY <1>1
  <2>2. CountsDue'
    BY <1>1, <2>1, DueListed
  <2> QED
    BY <1>1, <2>1, <2>2, NoneInside, Zenon DEF ListTypes
<1>3. FewSlaves'
  <2>1. Slaves(<<>>) = {}
    BY DEF Slaves
  <2>2. Cardinality(Slaves(redirectors')) = 0 /\ MaxRedirects \in Nat
    BY <2>1, <1>1, FS_EmptySet, RedirectorSettings DEF D!Settings
  <2> QED
    BY <2>2 DEF FewSlaves
<1>4. HostsDiffer' /\ Configured'
  BY <1>1 DEF HostsDiffer, Configured
<1> QED
  BY <1>1, <1>2, <1>3, <1>4, NoneInside DEF RedirectInv

\* redirector_setup.
LEMMA ListFilled ==
  ASSUME RedirectInv, D!RedirectorSetup PROVE RedirectInv'
<1> DEFINE n == Len(redirectors)
           m == Len(Conf)
           es == ConfEntries
           s == redirectors
           t == redirectors'
<1>1. /\ t = es \o s /\ redirect_count' = redirect_count + Len(es) /\ reloading
      /\ reloading' = FALSE /\ D!Inside = {}
      /\ UNCHANGED <<walk, clock, turned, between, overcounted, freed, refused>>
  BY DEF D!RedirectorSetup, D!Add, ConfEntries
<1>2. ListTypes /\ n \in Nat /\ DOMAIN s = 1 .. n /\ redirect_count \in Nat /\ s \in Seq(Entries)
  BY ListLength DEF RedirectInv, ListTypes
<1>3. /\ es \in Seq(Entries) /\ Len(es) = m
      /\ \A j \in 1 .. m : es[j].host = Conf[m - j + 1] /\ es[j].upd = 0 /\ es[j].by = "conf"
  BY ConfListed
<1>4. m \in Nat /\ DOMAIN Conf = 1 .. m /\ \A i, j \in 1 .. m : Conf[i] = Conf[j] => i = j
  BY RedirectorSettings DEF D!Settings
<1> HIDE DEF t, s, es, n, m
<1>5. /\ t \in Seq(Entries) /\ Len(t) = m + n
      /\ \A i \in 1 .. m : t[i] = es[i]
  <2>1. /\ es \o s \in Seq(Entries) /\ Len(es \o s) = Len(es) + Len(s)
        /\ \A i \in 1 .. Len(es) : (es \o s)[i] = es[i]
    BY <1>2, <1>3, Prepended
  <2> QED
    BY <2>1, <1>1, <1>2, <1>3 DEF n, s
<1>6. DOMAIN t = 1 .. m + n
  BY <1>5, <1>2, <1>4
<1>7. ListTypes'
  <2>1. t \in Seq(Entries) /\ redirect_count' \in Nat
    BY <1>1, <1>2, <1>3, <1>4, <1>5
  <2>2. /\ turned' \subseteq Server /\ between' \in BOOLEAN /\ reloading' \in BOOLEAN
        /\ overcounted' \in BOOLEAN
    BY <1>1, <1>2 DEF ListTypes
  <2> QED
    BY <2>1, <2>2, <1>1, NoneInside, Zenon DEF ListTypes, t
<1>11. CountsDue'
  <2>1. redirect_count >= n /\ (redirect_count = n \/ overcounted)
    BY <1>1, NoneDue DEF n
  <2>2. redirect_count' = redirect_count + m
    BY <1>1, <1>3
  <2> QED
    BY <2>1, <2>2, <1>1, <1>2, <1>4, <1>5, DueListed DEF t
<1>8. FewSlaves'
  <2>1. Cardinality(Slaves(es \o s)) <= Cardinality(Slaves(s))
    BY <1>2, <1>3, NoneAdded
  <2>2. Cardinality(Slaves(s)) <= MaxRedirects /\ MaxRedirects \in Nat
    BY RedirectorSettings DEF RedirectInv, FewSlaves, s, D!Settings
  <2>3. Cardinality(Slaves(t)) \in Nat /\ Cardinality(Slaves(s)) \in Nat
    BY <1>2, <1>5, SlavesCounted
  <2>4. Cardinality(Slaves(t)) <= MaxRedirects
    BY <2>1, <2>2, <2>3, <1>1
  <2> QED
    BY <2>4 DEF FewSlaves, t
<1>9. HostsDiffer'
  <2>1. ASSUME ~between, NEW i \in 1 .. m + n, NEW j \in 1 .. m + n, t[i].host = t[j].host
        PROVE  i = j
    <3>1. n = 0
      BY <2>1, <1>1 DEF RedirectInv, HostsDiffer, n
    <3>2. i \in 1 .. m /\ j \in 1 .. m
      BY <3>1, <1>4
    <3>3. m - i + 1 \in 1 .. m /\ m - j + 1 \in 1 .. m
      BY <3>2, <1>4
    <3>4. Conf[m - i + 1] = Conf[m - j + 1]
      BY <2>1, <3>2, <1>3, <1>5
    <3>5. m - i + 1 = m - j + 1
      BY <3>3, <3>4, <1>4
    <3> QED
      BY <3>2, <3>5, <1>4
  <2> QED
    BY <2>1, <1>1, <1>6 DEF HostsDiffer, t
<1>10. Configured'
  <2>1. ASSUME NEW i \in DOMAIN Conf PROVE Stays(Conf[i], t)
    <3>1. m - i + 1 \in 1 .. m /\ m - (m - i + 1) + 1 = i
      BY <1>4
    <3>2. m - i + 1 \in 1 .. m + n
      BY <3>1, <1>2, <1>4
    <3>3. t[m - i + 1].host = Conf[i] /\ t[m - i + 1].upd = 0
      BY <3>1, <1>3, <1>5
    <3> QED
      BY <3>2, <3>3, <1>6 DEF Stays
  <2> QED
    BY <2>1 DEF Configured, t
<1> QED
  BY <1>1, <1>7, <1>8, <1>9, <1>10, <1>11, NoneInside DEF RedirectInv

\* redirector_update.
LEMMA SlaveReports ==
  ASSUME RedirectInv, NEW h \in Server, NEW n \in Interval, D!RedirectorUpdate(h, n)
  PROVE  RedirectInv'
<1>1. clock \in Nat /\ n \in Nat /\ clock + n \in Nat
  BY RedirectorSettings DEF D!Settings, RedirectInv, ListTypes
<1>2. D!Inside = {} /\ UNCHANGED <<walk, clock, reloading, overcounted, freed, refused>>
  BY DEF D!RedirectorUpdate
<1>3. CASE /\ D!Found(h) = {} /\ D!Allowed /\ D!Add(<<D!Entry(h, clock + n, "slave")>>)
           /\ between' = (between \/ reloading) /\ UNCHANGED turned
  <2> DEFINE e == D!Entry(h, clock + n, "slave")
  <2>1. e \in Entries /\ e.host = h
    BY <1>1, EntryTyped
  <2> HIDE DEF e
  <2>2. D!Add(<<e>>) /\ redirect_count < MaxRedirects
    BY <1>3 DEF e, D!Allowed
  <2> QED
    BY <2>1, <2>2, <1>2, <1>3, HostAdded
<1>4. CASE /\ D!Found(h) # {} /\ D!Touched(h, clock + n) /\ UNCHANGED <<redirect_count, between>>
  BY <1>1, <1>2, <1>4, EntryTouched
<1> QED
  BY <1>3, <1>4 DEF D!RedirectorUpdate

\* update_master_as_slave.
LEMMA MasterListed ==
  ASSUME RedirectInv, D!UpdateMasterAsSlave PROVE RedirectInv'
<1>1. Master \in Server /\ MasterInterval \in Nat
  BY RedirectorSettings DEF D!Settings
<1>2. D!Inside = {} /\ ~reloading /\ D!MasterTurn
      /\ UNCHANGED <<walk, clock, reloading, overcounted, freed, refused>>
  BY DEF D!UpdateMasterAsSlave
<1>3. CASE /\ D!Found(Master) = {} /\ D!Add(<<D!Entry(Master, 0, "master")>>)
           /\ UNCHANGED <<turned, between>>
  <2> DEFINE e == D!Entry(Master, 0, "master")
  <2>1. e \in Entries /\ e.host = Master /\ e.by # "slave"
    BY <1>1, EntryTyped
  <2> HIDE DEF e
  <2>2. D!Add(<<e>>)
    BY <1>3 DEF e
  <2>3. between' = (between \/ reloading)
    <3>1. between \in BOOLEAN
      BY DEF RedirectInv, ListTypes
    <3> QED
      BY <3>1, <1>2, <1>3, Zenon
  <2> QED
    BY <2>1, <2>2, <2>3, <1>2, <1>3, HostAdded
<1>4. ASSUME D!Found(Master) # {},
             D!Touched(Master, redirectors[CHOOSE i \in D!Found(Master) :
                                  \A j \in D!Found(Master) : i <= j].upd + MasterInterval),
             UNCHANGED <<redirect_count, between>>
      PROVE  RedirectInv'
  <2> DEFINE k == CHOOSE i \in D!Found(Master) : \A j \in D!Found(Master) : i <= j
  <2>1. k \in DOMAIN redirectors
    BY <1>1, <1>4, FirstFound DEF RedirectInv
  <2> HIDE DEF k
  <2>2. redirectors[k] \in Entries
    BY <2>1, ListLength DEF RedirectInv
  <2>3. redirectors[k].upd + MasterInterval \in Nat
    BY <2>2, <1>1 DEF Entries
  <2>4. D!Touched(Master, redirectors[k].upd + MasterInterval)
    BY <1>4 DEF k
  <2> QED
    BY <2>3, <2>4, <1>1, <1>2, <1>4, EntryTouched
<1> QED
  BY <1>2, <1>3, <1>4 DEF D!MasterTurn

\* What had expired stays so.
LEMMA ClockTicks ==
  ASSUME RedirectInv, D!Tick PROVE RedirectInv'
<1>1. /\ UNCHANGED <<redirectors, redirect_count, walk, reloading, turned, between,
                     overcounted, freed, refused>>
      /\ clock' \in StartTime .. EndTime /\ clock' = clock + 1 /\ clock \in Nat /\ Grace \in Nat
  BY RedirectorSettings DEF D!Tick, D!Settings, RedirectInv, ListTypes
<1>2. ListTypes'
  BY <1>1 DEF RedirectInv, ListTypes
<1>3. CountsDue' /\ Selected' /\ FewSlaves' /\ HostsDiffer' /\ Configured'
  BY <1>1 DEF RedirectInv, CountsDue, Due, D!Uncounted, Selected, FewSlaves, HostsDiffer, Configured
<1>4. Unlinking'
  <2>1. ASSUME NEW w \in Walker, Doomed(walk[w], redirectors)
        PROVE  Doomed(walk[w], redirectors)'
    <3> SUFFICES ASSUME walk[w].st = "unlink"
                 PROVE  /\ walk[w].at \in DOMAIN redirectors
                        /\ redirectors[walk[w].at].upd # 0
                        /\ redirectors[walk[w].at].upd + Grace < clock + 1
      BY <1>1 DEF Doomed, D!Expired
    <3>1. /\ walk[w].at \in DOMAIN redirectors /\ redirectors[walk[w].at].upd # 0
          /\ redirectors[walk[w].at].upd + Grace < clock
      BY <2>1 DEF Doomed, D!Expired
    <3>2. redirectors[walk[w].at].upd \in Nat
      BY <3>1, ListLength DEF RedirectInv, Entries
    <3> QED
      BY <3>1, <3>2, <1>1
  <2> QED
    BY <2>1, <1>1 DEF RedirectInv, Unlinking
<1> QED
  BY <1>2, <1>3, <1>4 DEF RedirectInv

-----------------------------------------------------------------------------
RedirectorsInv == part = "redirectors" => RedirectInv

LEMMA RedirectorsStep ==
  ASSUME RedirectorsInv, [MCNext]_allVars PROVE RedirectorsInv'
<1> SUFFICES ASSUME part' = "redirectors" PROVE RedirectInv'
  BY DEF RedirectorsInv
<1>1. CASE UNCHANGED allVars
  BY <1>1, RedirectSame DEF RedirectorsInv, allVars
<1>2. CASE MCNext
  <2>1. part = "redirectors" /\ RedirectInv
    BY <1>2 DEF MCNext, OnlyFiles, OnlyConnections, OnlyRedirectors, RedirectorsInv
  <2>2. \/ \E w \in Walker : \/ D!RedirectClient(w) \/ D!Expires(w) \/ (~freed /\ D!Unlinks(w))
                             \/ D!CountRead(w) \/ (~freed /\ D!CountWrite(w))
                             \/ D!Passes(w) \/ D!Ends(w)
        \/ D!RedirectorClearall \/ D!RedirectorSetup
        \/ \E h \in Server, n \in Interval : D!RedirectorUpdate(h, n)
        \/ D!UpdateMasterAsSlave \/ D!Tick
    BY <1>2, <2>1 DEF MCNext
  <2> QED
    BY <2>1, <2>2, WalkStarts, WalkExpires, EntryDropped, WalkLoads, WalkStores, WalkPasses,
       WalkEnds, ListCleared, ListFilled, SlaveReports, MasterListed, ClockTicks
<1> QED
  BY <1>1, <1>2

LEMMA RedirectorsSound ==
  ASSUME RedirectorsInv PROVE RedirectorsKept
<1> SUFFICES ASSUME part = "redirectors", RedirectInv PROVE D!RedirectorsKept
  BY DEF RedirectorsInv, RedirectorsKept
<1>1. D!TypeOK
  <2>1. \A i \in DOMAIN redirectors :
           redirectors[i] \in [host : Server, upd : Nat, by : {"conf", "slave", "master"}]
    BY ListLength DEF RedirectInv, Entries
  <2>2. redirect_count \in Nat
    BY ListLength DEF RedirectInv
  <2> QED
    BY <2>1, <2>2 DEF RedirectInv, ListTypes, Walks, States, D!TypeOK
<1>2. D!CountMatches
  <2>1. D!Cardinality(D!Uncounted) = Cardinality(D!Uncounted)
    BY DEF D!Cardinality, Cardinality
  <2> QED
    BY <2>1 DEF D!CountMatches, RedirectInv, CountsDue, Due
<1>3. D!RedirectedIfAny
  BY DEF D!RedirectedIfAny, RedirectInv, Selected
<1>4. D!SlavesBounded
  <2>1. D!Cardinality(Slaves(redirectors)) = Cardinality(Slaves(redirectors))
    BY DEF D!Cardinality, Cardinality
  <2> QED
    BY <2>1 DEF D!SlavesBounded, RedirectInv, FewSlaves, Slaves
<1>5. D!ConfiguredKept
  BY DEF D!ConfiguredKept, RedirectInv, Configured, Stays, D!ToSet
<1>6. D!HostOnce
  BY DEF D!HostOnce, RedirectInv, HostsDiffer
<1> QED
  BY <1>1, <1>2, <1>3, <1>4, <1>5, <1>6 DEF D!RedirectorsKept

(* Whatever the hosts, the limits and the clients that look for a place, through reports of    *)
(* slaves, turns of the master, reloads, and walks whose loads and stores mix while they take  *)
(* expired entries out (slave.c:293-309), up to where one uses an entry that was freed: the    *)
(* count is never below the list, and is right until a count-down is overwritten; the list has *)
(* the configured servers and each server once, no more slaves than allowed, and a client that *)
(* walks it is sent to one, but for the exceptions that RedirectorsKept names.                 *)
THEOREM RedirectorsStayKept == MCSpec => []RedirectorsKept
<1>1. MCInit => RedirectorsInv
  BY RedirectStart DEF MCInit, RedirectorsInv
<1>2. RedirectorsInv /\ [MCNext]_allVars => RedirectorsInv'
  BY RedirectorsStep
<1>3. RedirectorsInv => RedirectorsKept
  BY RedirectorsSound
<1> QED
  BY <1>1, <1>2, <1>3, PTL DEF MCSpec

-----------------------------------------------------------------------------
(***************************************************************************)
(* Connections: the inductive invariant                                    *)
(***************************************************************************)
One(b) == IF b THEN 1 ELSE 0
In(s, l) == Cardinality({i \in DOMAIN s : s[i] = l})
On(f, l) == Cardinality({c \in Client : f[c].l = l})
Use(f, s, o, cf, h, l) == On(f, l) + In(s, l) + In(o, l) + One(l \in cf) + One(l = h)
Used(l) == Use(cl, conn, oldC, cfg, held.l, l)

Entry == [port : Port \cup {None}, refs : Nat]

ListenerTypes ==
    /\ lst \in [Listener -> Entry] /\ cfg \subseteq Listener
    /\ oldC \in Seq(Listener) /\ held \in [l : Listener \cup {None}, n : Nat]
    /\ sock \in Seq(Port) /\ conn \in Seq(Listener) /\ Len(sock) = Len(conn)
    /\ cl \in [Client -> [st : C!Stages, l : Listener \cup {None}, port : Port \cup {None}]]

ThreadTypes ==
    /\ first \in BOOLEAN /\ failed \in BOOLEAN /\ early \in BOOLEAN
    /\ thr \in {"none", "new", "ready", "loop", "accept", "done"}
    /\ crun \in BOOLEAN /\ redo \in BOOLEAN /\ runningC \in BOOLEAN
    /\ reloads \in 0 .. MaxReloads
    /\ polled \in Port \cup {None}
    /\ ctl \in {"start", "idle", "reload", "join reload", "close", "clear",
                "join restart", "halt", "join halt", "end"}

(* a client has a structure from its connection to its end *)
Connected == \A c \in Client : cl[c].st = "none" <=> cl[c].l = None

(* the thread is joined before the structures are let go without the lock *)
Phases ==
    /\ ctl \in {"close", "clear"} => thr = "none"
    /\ held.l # None => ctl \in {"close", "clear"}
    /\ oldC # <<>> => ctl \in {"reload", "join reload", "close", "clear"}
    /\ ctl \in {"join reload", "join restart", "join halt"} =>
          /\ thr \in {"new", "ready"} => early
          /\ ~crun \/ early

(* a structure e that is used u times is there *)
Good(e, u) == u > 0 => e.port # None /\ e.refs >= u

(* the count that was read is not too low, whatever was released since *)
Counted ==
    /\ \A l \in Listener : Good(lst[l], Used(l))
    /\ held.l # None => held.n >= Used(held.l)

Ports ==
    ~failed =>
        /\ \A i \in DOMAIN conn : lst[conn[i]].port = sock[i]
        /\ \A c \in Client : cl[c].st # "none" => lst[cl[c].l].port = cl[c].port

ListenersFew == Cardinality({c \in Client : cl[c].st = "listen"}) <= ClientLimit

PortInv == ListenerTypes /\ ThreadTypes /\ Connected /\ Phases /\ Counted /\ Ports /\ ListenersFew

-----------------------------------------------------------------------------
(***************************************************************************)
(* Counting                                                                *)
(***************************************************************************)
LEMMA SameSize ==
  ASSUME NEW S, NEW T, IsFiniteSet(T), NEW f \in [S -> T],
         \A x, y \in S : f[x] = f[y] => x = y, \A z \in T : \E x \in S : f[x] = z
  PROVE  IsFiniteSet(S) /\ Cardinality(S) = Cardinality(T)
<1>1. f \in Injection(S, T) /\ f \in Surjection(S, T)
  BY DEF Injection, IsInjective, Surjection
<1> QED
  BY <1>1, FS_Injection

LEMMA UpTo ==
  ASSUME NEW n \in Nat
  PROVE  IsFiniteSet(1 .. n) /\ Cardinality(1 .. n) = n
<1>1. 1 \in Int /\ n \in Int
  OBVIOUS
<1>2. IsFiniteSet(1 .. n) /\ Cardinality(1 .. n) = IF 1 > n THEN 0 ELSE n - 1 + 1
  BY ONLY <1>1, FS_Interval
<1> QED
  BY <1>2

(* p lists each element of the finite set S once *)
Lists(p, S) ==
    /\ IsFiniteSet(S) /\ Cardinality(S) \in Nat
    /\ p \in [1 .. Cardinality(S) -> S]
    /\ \A i, j \in 1 .. Cardinality(S) : p[i] = p[j] => i = j
    /\ \A x \in S : \E i \in 1 .. Cardinality(S) : p[i] = x

LEMMA ListsAll ==
  ASSUME NEW S, IsFiniteSet(S), NEW p \in [1 .. Cardinality(S) -> S],
         \A i, j \in 1 .. Cardinality(S) : p[i] = p[j] => i = j
  PROVE  Lists(p, S)
<1>1. Cardinality(S) \in Nat
  BY FS_CardinalityType
<1>2. Cardinality(1 .. Cardinality(S)) = Cardinality(S)
  BY <1>1, UpTo
<1>3. p \in Injection(1 .. Cardinality(S), S)
  BY DEF Injection, IsInjective
<1>4. p \in Surjection(1 .. Cardinality(S), S)
  BY <1>2, <1>3, FS_Injection
<1> QED
  BY <1>1, <1>4 DEF Lists, Surjection

\* SetToSeq: in some order.
LEMMA Listed ==
  ASSUME NEW S, IsFiniteSet(S)
  PROVE  Lists(SetToSeq(S), S) /\ C!SetToSeq(S) = SetToSeq(S)
<1> DEFINE F == [1 .. Cardinality(S) -> S]
           p == CHOOSE f \in F : IsInjective(f)
<1>1. \E f \in F : IsInjective(f)
  <2>1. PICK f \in Bijection(1 .. Cardinality(S), S) : TRUE
    BY FS_CardinalityType DEF ExistsBijection
  <2>2. f \in F /\ IsInjective(f)
    BY <2>1 DEF Bijection, Injection
  <2> QED
    BY <2>2
<1>2. p \in F /\ IsInjective(p)
  BY <1>1
<1>3. SetToSeq(S) = p
  BY DEF SetToSeq
<1>4. C!SetToSeq(S) = p
  BY DEF C!SetToSeq, C!IsInjective, IsInjective, C!Cardinality, Cardinality
<1> HIDE DEF p
<1>5. \A i, j \in 1 .. Cardinality(S) : p[i] = p[j] => i = j
  BY <1>2 DEF IsInjective
<1> QED
  BY <1>2, <1>3, <1>4, <1>5, ListsAll, ZenonT(30)

\* Places: in the order of the numbers.
LEMMA Ascending ==
  ASSUME NEW m \in Nat, NEW S \in SUBSET (1 .. m)
  PROVE  \E p \in [1 .. Cardinality(S) -> S] :
            \A i, j \in 1 .. Cardinality(S) : i < j => p[i] < p[j]
<1> DEFINE Has(T) == \E p \in [1 .. Cardinality(T) -> T] :
                        \A i, j \in 1 .. Cardinality(T) : i < j => p[i] < p[j]
           Bad == {k \in Nat : \E T \in SUBSET (1 .. k) : ~Has(T)}
<1>1. SUFFICES ASSUME Bad # {} PROVE FALSE
  OBVIOUS
<1>2. PICK k \in Bad : \A j \in Bad : <<j, k>> \notin OpToRel(<, Nat)
  BY <1>1, NatLessThanWellFounded, WFMin, ZenonT(30)
<1>3. PICK T \in SUBSET (1 .. k) : ~Has(T)
  OBVIOUS
<1>4. k \in Nat
  OBVIOUS
<1>5. CASE k = 0
  <2>1. T = {}
    BY <1>4, <1>5
  <2>2. Cardinality(T) = 0
    BY <2>1, FS_EmptySet
  <2>3. [i \in {} |-> 0] \in [1 .. Cardinality(T) -> T]
    BY <2>2
  <2> QED
    BY <1>3, <2>2, <2>3
<1>6. CASE k # 0
  <2>1. k - 1 \in Nat /\ k - 1 < k
    BY <1>4, <1>6
  <2>2. k - 1 \notin Bad
    BY <1>2, <1>4, <2>1 DEF OpToRel
  <2>3. \A U \in SUBSET (1 .. k - 1) : Has(U)
    BY <2>1, <2>2
  <2>4. k \in T
    <3>1. ASSUME k \notin T PROVE FALSE
      <4>1. T \in SUBSET (1 .. k - 1)
        BY <1>4, <3>1
      <4> QED
        BY <4>1, <2>3, <1>3
    <3> QED
      BY <3>1
  <2> DEFINE U == T \ {k}
  <2>5. U \in SUBSET (1 .. k - 1)
    BY <1>4
  <2>6. IsFiniteSet(T)
    BY <1>4, UpTo, FS_Subset
  <2>7. /\ Cardinality(T) \in Nat /\ Cardinality(U) \in Nat
        /\ Cardinality(U) = Cardinality(T) - 1
    BY <2>4, <2>6, FS_RemoveElement, FS_CardinalityType
  <2> DEFINE n == Cardinality(U)
  <2>8. PICK p \in [1 .. n -> U] : \A i, j \in 1 .. n : i < j => p[i] < p[j]
    BY <2>3, <2>5
  <2> DEFINE q == [i \in 1 .. n + 1 |-> IF i = n + 1 THEN k ELSE p[i]]
  <2>9. n \in Nat /\ Cardinality(T) = n + 1
    BY <2>7
  <2> HIDE DEF n
  <2>10. \A i \in 1 .. n : p[i] \in U /\ p[i] \in Int /\ p[i] < k
    <3>1. \A x \in U : x \in Int /\ x < k
      BY <2>5, <1>4
    <3> HIDE DEF U
    <3> QED
      BY <3>1, <2>8
  <2>11. q \in [1 .. n + 1 -> T]
    BY <2>4, <2>9, <2>10
  <2>12. ASSUME NEW i \in 1 .. n + 1, NEW j \in 1 .. n + 1, i < j PROVE q[i] < q[j]
    <3>1. i \in 1 .. n /\ q[i] = p[i]
      BY <2>9, <2>12
    <3>2. CASE j = n + 1
      BY <3>1, <3>2, <2>9, <2>10
    <3>3. CASE j # n + 1
      <4>1. j \in 1 .. n /\ q[j] = p[j]
        BY <3>3, <2>9
      <4> QED
        BY <4>1, <3>1, <2>8, <2>12
    <3> QED
      BY <3>2, <3>3
  <2> HIDE DEF q
  <2> QED
    BY <2>9, <2>11, <2>12, <1>3
<1> QED
  BY <1>5, <1>6

LEMMA Placing ==
  ASSUME NEW m \in Nat, NEW S \in SUBSET (1 .. m)
  PROVE  Lists(C!Places(S), S)
<1> DEFINE n == Cardinality(S)
           p == CHOOSE p \in [1 .. n -> S] : \A i, j \in DOMAIN p : i < j => p[i] < p[j]
<1>1. IsFiniteSet(S) /\ n \in Nat
  BY UpTo, FS_Subset, FS_CardinalityType
<1>2. \E f \in [1 .. n -> S] : \A i, j \in DOMAIN f : i < j => f[i] < f[j]
  BY Ascending
<1>3. p \in [1 .. n -> S] /\ \A i, j \in DOMAIN p : i < j => p[i] < p[j]
  BY <1>2
<1>4. C!Places(S) = p
  BY DEF C!Places, C!Cardinality, Cardinality
<1> HIDE DEF p
<1>5. \A i, j \in 1 .. n : p[i] = p[j] => i = j
  <2> SUFFICES ASSUME NEW i \in 1 .. n, NEW j \in 1 .. n, p[i] = p[j] PROVE i = j
    OBVIOUS
  <2>1. ~(p[i] < p[i])
    <3>1. p[i] \in S
      BY <1>3
    <3>2. \A x \in S : x \in Int /\ ~(x < x)
      OBVIOUS
    <3> QED
      BY <3>1, <3>2
  <2>2. ~(i < j) /\ ~(j < i)
    <3>1. i < j => p[i] < p[j]
      BY <1>3
    <3>2. j < i => p[j] < p[i]
      BY <1>3
    <3> HIDE DEF n
    <3> QED
      BY <2>1, <3>1, <3>2
  <2> QED
    BY <2>2, <1>1
<1> QED
  BY <1>1, <1>3, <1>4, <1>5, ListsAll

LEMMA SameCount == \A S : C!Cardinality(S) = Cardinality(S)
  BY DEF C!Cardinality, Cardinality

LEMMA InTyped ==
  ASSUME NEW T, NEW s \in Seq(T), NEW l
  PROVE  /\ IsFiniteSet({i \in DOMAIN s : s[i] = l}) /\ In(s, l) \in Nat
         /\ In(s, l) > 0 <=> \E i \in DOMAIN s : s[i] = l
<1> DEFINE P == {i \in DOMAIN s : s[i] = l}
<1>1. P \in SUBSET (1 .. Len(s)) /\ Len(s) \in Nat
  OBVIOUS
<1> HIDE DEF P
<1>2. IsFiniteSet(P) /\ Cardinality(P) \in Nat
  BY <1>1, UpTo, FS_Subset, FS_CardinalityType
<1>3. Cardinality(P) > 0 <=> P # {}
  BY <1>2, FS_EmptySet
<1> QED
  BY <1>2, <1>3 DEF In, P

LEMMA InNone == \A l : In(<<>>, l) = 0
<1>1. \A l : {i \in DOMAIN <<>> : <<>>[i] = l} = {}
  OBVIOUS
<1> QED
  BY <1>1, FS_EmptySet DEF In

LEMMA InOne == \A x, l : In(<<x>>, l) = One(x = l)
<1> SUFFICES ASSUME NEW x, NEW l PROVE In(<<x>>, l) = One(x = l)
  OBVIOUS
<1>1. CASE x = l
  <2>1. {i \in DOMAIN <<x>> : <<x>>[i] = l} = {1}
    BY <1>1
  <2> QED
    BY <2>1, <1>1, FS_Singleton DEF In, One
<1>2. CASE x # l
  <2>1. {i \in DOMAIN <<x>> : <<x>>[i] = l} = {}
    BY <1>2
  <2> QED
    BY <2>1, <1>2, FS_EmptySet DEF In, One
<1> QED
  BY <1>1, <1>2

LEMMA InLists ==
  ASSUME NEW S, NEW p, Lists(p, S), NEW l
  PROVE  In(p, l) = One(l \in S)
<1> DEFINE n == Cardinality(S)
           P == {i \in DOMAIN p : p[i] = l}
<1>1. /\ DOMAIN p = 1 .. n /\ \A i \in 1 .. n : p[i] \in S
      /\ \A i, j \in 1 .. n : p[i] = p[j] => i = j
      /\ \A x \in S : \E i \in 1 .. n : p[i] = x
  BY DEF Lists
<1> HIDE DEF n
<1>2. CASE l \in S
  <2>1. PICK i \in 1 .. n : p[i] = l
    BY <1>1, <1>2
  <2>2. P = {i}
    BY <2>1, <1>1
  <2> QED
    BY <2>2, <1>2, FS_Singleton DEF In, One
<1>3. CASE l \notin S
  <2>1. P = {}
    BY <1>1, <1>3
  <2> QED
    BY <2>1, <1>3, FS_EmptySet DEF In, One
<1> QED
  BY <1>2, <1>3

LEMMA ListIsSeq ==
  ASSUME NEW S, NEW p, Lists(p, S)
  PROVE  p \in Seq(S) /\ Len(p) = Cardinality(S) /\ DOMAIN p = 1 .. Cardinality(S)
<1> DEFINE n == Cardinality(S)
<1>1. p \in [1 .. n -> S] /\ n \in Nat
  BY DEF Lists
<1> HIDE DEF n
<1>2. p \in Seq(S) /\ Len(p) = n /\ DOMAIN p = 1 .. n
  BY <1>1
<1> QED
  BY <1>2 DEF n

LEMMA InConcat ==
  ASSUME NEW T, NEW s \in Seq(T), NEW t \in Seq(T), NEW l
  PROVE  In(s \o t, l) = In(s, l) + In(t, l)
<1> DEFINE n == Len(s)
           m == Len(t)
           r == s \o t
           P == {i \in DOMAIN s : s[i] = l}
           Q == {i \in DOMAIN t : t[i] = l}
           R == {i \in DOMAIN r : r[i] = l}
           H == {i \in n + 1 .. n + m : r[i] = l}
           f == [i \in H |-> i - n]
<1>1. /\ n \in Nat /\ m \in Nat /\ DOMAIN s = 1 .. n /\ DOMAIN t = 1 .. m
      /\ DOMAIN r = 1 .. n + m
      /\ \A i \in 1 .. n : r[i] = s[i]
      /\ \A i \in 1 .. m : r[n + i] = t[i]
  OBVIOUS
<1>2. IsFiniteSet(P) /\ IsFiniteSet(Q) /\ In(s, l) = Cardinality(P) /\ In(t, l) = Cardinality(Q)
      /\ In(r, l) = Cardinality(R)
  BY InTyped DEF In
<1> HIDE DEF n, m, r
<1>3. R = P \cup H /\ P \cap H = {}
  <2>1. \A i \in 1 .. n + m : i \in 1 .. n \/ i \in n + 1 .. n + m
    BY <1>1
  <2>2. \A i \in 1 .. n : i \in 1 .. n + m /\ i \notin n + 1 .. n + m
    BY <1>1
  <2>3. \A i \in n + 1 .. n + m : i \in 1 .. n + m
    BY <1>1
  <2> QED
    BY <2>1, <2>2, <2>3, <1>1
<1>4. \A i \in n + 1 .. n + m : i - n \in 1 .. m /\ n + (i - n) = i
  BY <1>1
<1>5. f \in [H -> Q]
  <2>1. ASSUME NEW i \in H PROVE i - n \in Q
    BY <1>1, <1>4
  <2> QED
    BY <2>1
<1>6. \A i, j \in H : f[i] = f[j] => i = j
  BY <1>1, <1>4
<1>7. \A k \in Q : \E i \in H : f[i] = k
  <2> SUFFICES ASSUME NEW k \in Q PROVE n + k \in H /\ f[n + k] = k
    OBVIOUS
  <2>1. k \in 1 .. m /\ n + k \in n + 1 .. n + m /\ (n + k) - n = k
    BY <1>1
  <2>2. n + k \in H
    BY <2>1, <1>1
  <2> QED
    BY <2>1, <2>2
<1> HIDE DEF f, P, Q, R, H
<1>8. IsFiniteSet(H) /\ Cardinality(H) = Cardinality(Q)
  BY <1>2, <1>5, <1>6, <1>7, SameSize
<1>9. Cardinality(R) = Cardinality(P) + Cardinality(H) - Cardinality({})
  BY <1>2, <1>3, <1>8, FS_Union
<1>10. Cardinality(P) \in Nat /\ Cardinality(H) \in Nat /\ Cardinality({}) = 0
  BY <1>2, <1>8, FS_CardinalityType, FS_EmptySet
<1>11. Cardinality(R) = Cardinality(P) + Cardinality(Q)
  BY <1>8, <1>9, <1>10
<1> QED
  BY <1>2, <1>11 DEF r

LEMMA InTail ==
  ASSUME NEW T, NEW s \in Seq(T), s # <<>>, NEW l
  PROVE  In(s, l) = One(Head(s) = l) + In(Tail(s), l)
<1>1. Head(s) \in T /\ Tail(s) \in Seq(T) /\ <<Head(s)>> \in Seq(T)
  OBVIOUS
<1>2. s = <<Head(s)>> \o Tail(s)
  OBVIOUS
<1>3. In(<<Head(s)>> \o Tail(s), l) = In(<<Head(s)>>, l) + In(Tail(s), l)
  BY <1>1, InConcat
<1>4. In(<<Head(s)>>, l) = One(Head(s) = l)
  BY InOne
<1>5. In(s, l) = In(<<Head(s)>> \o Tail(s), l)
  BY <1>2, Zenon
<1> QED
  BY ONLY <1>3, <1>4, <1>5

LEMMA InFront ==
  ASSUME NEW T, NEW s \in Seq(T), s # <<>>, NEW l
  PROVE  /\ C!Front(s) \in Seq(T) /\ Len(C!Front(s)) = Len(s) - 1
         /\ In(C!Front(s), l) \in Nat /\ In(C!Front(s), l) <= In(s, l)
<1>1. C!Front(s) = SubSeq(s, 1, Len(s) - 1)
  BY DEF C!Front
<1>2. /\ C!Front(s) \in Seq(T) /\ Len(C!Front(s)) = Len(s) - 1
      /\ \A i \in 1 .. Len(s) - 1 : C!Front(s)[i] = s[i]
  <2> DEFINE n == Len(s) - 1
             r == SubSeq(s, 1, n)
  <2>1. Len(s) \in Nat /\ Len(s) # 0
    OBVIOUS
  <2>2. n \in Nat /\ n <= Len(s)
    BY <2>1
  <2> HIDE DEF n
  <2>3. 1 \in Nat /\ \A i \in 1 .. n : i \in 1 .. Len(s)
    BY <2>1, <2>2
  <2>4. r = [i \in 1 .. n |-> s[i]]
    BY <2>2
  <2>5. \A i \in 1 .. n : s[i] \in T
    BY <2>3
  <2>6. r \in Seq(T) /\ Len(r) = n /\ \A i \in 1 .. n : r[i] = s[i]
    <3> HIDE DEF r
    <3> QED
      BY <2>2, <2>4, <2>5
  <2> QED
    BY <1>1, <2>6 DEF n
<1>3. Len(s) \in Nat /\ DOMAIN s = 1 .. Len(s) /\ DOMAIN C!Front(s) = 1 .. Len(s) - 1
  BY <1>2
<1>4. {i \in DOMAIN C!Front(s) : C!Front(s)[i] = l} \in SUBSET {i \in DOMAIN s : s[i] = l}
  BY <1>2, <1>3
<1>5. IsFiniteSet({i \in DOMAIN s : s[i] = l})
  BY InTyped
<1>6. In(C!Front(s), l) <= In(s, l)
  BY <1>4, <1>5, FS_Subset DEF In
<1> QED
  BY <1>2, <1>6, InTyped

\* The sockets that stay and those that go, by the places of a set each.
Picked(s, p) == [i \in DOMAIN p |-> s[p[i]]]
Within(s, S, l) == Cardinality({i \in S : s[i] = l})

LEMMA InPlaces ==
  ASSUME NEW T, NEW s \in Seq(T), NEW S \in SUBSET DOMAIN s, NEW p, Lists(p, S), NEW l
  PROVE  /\ Picked(s, p) \in Seq(T)
         /\ Len(Picked(s, p)) = Len(p) /\ DOMAIN Picked(s, p) = DOMAIN p
         /\ In(Picked(s, p), l) = Within(s, S, l)
<1> DEFINE n == Cardinality(S)
           r == [i \in DOMAIN p |-> s[p[i]]]
           R == {i \in DOMAIN r : r[i] = l}
           Q == {i \in S : s[i] = l}
           f == [i \in R |-> p[i]]
<1>1. /\ n \in Nat /\ DOMAIN p = 1 .. n /\ Len(p) = n /\ \A i \in 1 .. n : p[i] \in S
      /\ \A i, j \in 1 .. n : p[i] = p[j] => i = j
      /\ \A x \in S : \E i \in 1 .. n : p[i] = x
  BY ListIsSeq DEF Lists
<1>2. r \in [1 .. n -> T]
  <2>1. \A i \in 1 .. n : s[p[i]] \in T
    BY <1>1
  <2> HIDE DEF n
  <2> QED
    BY <2>1, <1>1
<1>3. r \in Seq(T) /\ Len(r) = n /\ DOMAIN r = 1 .. n
  <2> HIDE DEF r, n
  <2> QED
    BY <1>1, <1>2
<1>4. \A i \in 1 .. n : r[i] = s[p[i]]
  BY <1>1
<1> HIDE DEF r, n
<1>5. f \in [R -> Q] /\ \A i, j \in R : f[i] = f[j] => i = j
  BY <1>1, <1>3, <1>4
<1>6. \A x \in Q : \E i \in R : f[i] = x
  <2> SUFFICES ASSUME NEW x \in Q PROVE \E i \in R : f[i] = x
    OBVIOUS
  <2>1. PICK i \in 1 .. n : p[i] = x
    BY <1>1
  <2>2. i \in R
    BY <2>1, <1>3, <1>4
  <2> QED
    BY <2>1, <2>2
<1>7. IsFiniteSet(Q)
  <2>1. IsFiniteSet(S) /\ Q \in SUBSET S
    BY DEF Lists
  <2> HIDE DEF Q
  <2> QED
    BY <2>1, FS_Subset
<1>8. Cardinality(R) = Cardinality(Q)
  <2> HIDE DEF f, R, Q
  <2> QED
    BY <1>5, <1>6, <1>7, SameSize
<1> QED
  BY <1>1, <1>3, <1>8 DEF In, Within, Picked, r, R, Q

LEMMA InSplit ==
  ASSUME NEW T, NEW s \in Seq(T), NEW S \in SUBSET DOMAIN s, NEW R \in SUBSET DOMAIN s,
         S \cup R = DOMAIN s, S \cap R = {}, NEW l
  PROVE  In(s, l) = Within(s, S, l) + Within(s, R, l)
<1> DEFINE P == {i \in S : s[i] = l}
           Q == {i \in R : s[i] = l}
<1>1. IsFiniteSet({i \in DOMAIN s : s[i] = l})
  BY InTyped
<1>2. P \cup Q = {i \in DOMAIN s : s[i] = l} /\ P \cap Q = {}
  OBVIOUS
<1>3. P \in SUBSET {i \in DOMAIN s : s[i] = l} /\ Q \in SUBSET {i \in DOMAIN s : s[i] = l}
  OBVIOUS
<1>4. IsFiniteSet(P) /\ IsFiniteSet(Q)
  BY <1>1, <1>3, FS_Subset
<1>5. In(s, l) = Cardinality(P \cup Q)
  BY <1>2 DEF In
<1> HIDE DEF P, Q
<1>6. Cardinality(P \cup Q) = Cardinality(P) + Cardinality(Q) - Cardinality({})
  BY <1>2, <1>4, FS_Union
<1>7. Cardinality(P) \in Nat /\ Cardinality(Q) \in Nat /\ Cardinality({}) = 0
  BY <1>4, FS_CardinalityType, FS_EmptySet
<1>8. In(s, l) = Cardinality(P) + Cardinality(Q)
  BY <1>5, <1>6, <1>7
<1> QED
  BY <1>8 DEF Within, P, Q


LEMMA OneRemoved ==
  ASSUME NEW T, NEW s \in Seq(T), NEW i \in 1 .. Len(s)
  PROVE  C!RemoveAt(s, i) \in Seq(T) /\ Len(C!RemoveAt(s, i)) = Len(s) - 1
<1> DEFINE a == SubSeq(s, 1, i - 1)
           b == SubSeq(s, i + 1, Len(s))
<1>1. /\ a \in Seq(T) /\ b \in Seq(T) /\ Len(a) = i - 1 /\ Len(b) = Len(s) - i
  OBVIOUS
<1>2. C!RemoveAt(s, i) = a \o b
  BY DEF C!RemoveAt
<1> HIDE DEF a, b
<1>3. a \o b \in Seq(T) /\ Len(a \o b) = Len(a) + Len(b)
  BY <1>1
<1>4. Len(s) \in Nat /\ i \in Nat
  OBVIOUS
<1> QED
  BY <1>1, <1>2, <1>3, <1>4

LEMMA ListSeq ==
  ASSUME NEW T, NEW S \in SUBSET T, NEW p, Lists(p, S)
  PROVE  p \in Seq(T)
<1> DEFINE n == Cardinality(S)
<1>1. p \in [1 .. n -> S] /\ n \in Nat
  BY DEF Lists
<1> HIDE DEF n
<1>2. p \in [1 .. n -> T]
  BY <1>1
<1> QED
  BY <1>1, <1>2
-----------------------------------------------------------------------------
(***************************************************************************)
(* How often a structure is used                                           *)
(***************************************************************************)
LEMMA PortSettings ==
  /\ IsFiniteSet(Listener) /\ IsFiniteSet(Client) /\ IsFiniteSet(Port) /\ Listener # {}
  /\ None \notin Listener /\ None \notin Port
  /\ ClientLimit \in Nat /\ MaxReloads \in Nat
  BY ConnectionSettings DEF C!Settings, C!IsFiniteSet, IsFiniteSet

LEMMA Without ==
  ASSUME NEW S, IsFiniteSet(S), NEW c
  PROVE  /\ Cardinality(S \ {c}) \in Nat
         /\ Cardinality(S) = Cardinality(S \ {c}) + One(c \in S)
<1>1. IsFiniteSet(S \ {c}) /\ Cardinality(S \ {c}) \in Nat /\ Cardinality(S) \in Nat
  BY FS_Subset, FS_CardinalityType
<1>2. CASE c \in S
  BY <1>1, <1>2, FS_RemoveElement DEF One
<1>3. CASE c \notin S
  <2>1. S \ {c} = S
    BY <1>3
  <2>2. Cardinality(S \ {c}) = Cardinality(S)
    BY <2>1, Zenon
  <2>3. One(c \in S) = 0
    BY <1>3 DEF One
  <2> QED
    BY ONLY <1>1, <2>2, <2>3
<1> QED
  BY <1>2, <1>3

LEMMA OnTyped ==
  ASSUME NEW f, NEW l
  PROVE  /\ On(f, l) \in Nat
         /\ On(f, l) > 0 <=> \E c \in Client : f[c].l = l
<1> DEFINE P == {c \in Client : f[c].l = l}
<1>1. P \in SUBSET Client
  OBVIOUS
<1> HIDE DEF P
<1>2. IsFiniteSet(P) /\ Cardinality(P) \in Nat
  BY <1>1, PortSettings, FS_Subset, FS_CardinalityType
<1>3. Cardinality(P) > 0 <=> P # {}
  BY <1>2, FS_EmptySet
<1> QED
  BY <1>2, <1>3 DEF On, P

LEMMA OnMoves ==
  ASSUME NEW f, NEW g, NEW c \in Client, \A d \in Client : d # c => g[d].l = f[d].l, NEW l
  PROVE  On(g, l) + One(f[c].l = l) = On(f, l) + One(g[c].l = l)
<1> DEFINE P == {d \in Client : f[d].l = l}
           Q == {d \in Client : g[d].l = l}
<1>1. IsFiniteSet(P) /\ IsFiniteSet(Q)
  <2>1. P \in SUBSET Client /\ Q \in SUBSET Client
    OBVIOUS
  <2> HIDE DEF P, Q
  <2> QED
    BY <2>1, PortSettings, FS_Subset
<1>2. P \ {c} = Q \ {c} /\ (c \in P <=> f[c].l = l) /\ (c \in Q <=> g[c].l = l)
  OBVIOUS
<1>3. One(c \in P) = One(f[c].l = l) /\ One(c \in Q) = One(g[c].l = l)
  BY <1>2 DEF One
<1> HIDE DEF P, Q
<1>4. /\ Cardinality(P) = Cardinality(P \ {c}) + One(c \in P)
      /\ Cardinality(Q) = Cardinality(Q \ {c}) + One(c \in Q)
      /\ Cardinality(P \ {c}) \in Nat
  BY <1>1, Without
<1>5. One(f[c].l = l) \in Nat /\ One(g[c].l = l) \in Nat
  BY DEF One
<1>6. Cardinality(Q) + One(f[c].l = l) = Cardinality(P) + One(g[c].l = l)
  <2>1. /\ Cardinality(P) = Cardinality(P \ {c}) + One(f[c].l = l)
        /\ Cardinality(Q) = Cardinality(P \ {c}) + One(g[c].l = l)
    BY <1>2, <1>3, <1>4, Zenon
  <2> QED
    BY ONLY <2>1, <1>4, <1>5
<1> QED
  BY <1>6 DEF On, P, Q

LEMMA OnSame ==
  ASSUME NEW f, NEW g, \A d \in Client : g[d].l = f[d].l, NEW l
  PROVE  On(g, l) = On(f, l)
<1>1. {d \in Client : g[d].l = l} = {d \in Client : f[d].l = l}
  OBVIOUS
<1> QED
  BY <1>1 DEF On

LEMMA OneTyped == \A b : One(b) \in Nat /\ (b => One(b) = 1)
  BY DEF One

LEMMA UseTyped ==
  ASSUME NEW s \in Seq(Listener), NEW o \in Seq(Listener), NEW f, NEW cf, NEW h, NEW l
  PROVE  /\ On(f, l) \in Nat /\ In(s, l) \in Nat /\ In(o, l) \in Nat
         /\ One(l \in cf) \in Nat /\ One(l = h) \in Nat
         /\ Use(f, s, o, cf, h, l) \in Nat
         /\ l \in cf => Use(f, s, o, cf, h, l) > 0
         /\ l = h => Use(f, s, o, cf, h, l) > 0
         /\ (\E i \in DOMAIN s : s[i] = l) => Use(f, s, o, cf, h, l) > 0
         /\ (\E c \in Client : f[c].l = l) => Use(f, s, o, cf, h, l) > 0
<1>1. /\ On(f, l) \in Nat /\ In(s, l) \in Nat /\ In(o, l) \in Nat
      /\ On(f, l) > 0 <=> \E c \in Client : f[c].l = l
      /\ In(s, l) > 0 <=> \E i \in DOMAIN s : s[i] = l
  BY OnTyped, InTyped
<1>2. /\ One(l \in cf) \in Nat /\ (l \in cf => One(l \in cf) = 1)
      /\ One(l = h) \in Nat /\ (l = h => One(l = h) = 1)
  BY DEF One
<1> QED
  BY <1>1, <1>2 DEF Use

LEMMA ClearedGood ==
  ASSUME NEW e \in Entry, NEW u \in Nat, u > 0, Good(e, u)
  PROVE  /\ C!Cleared(e) \in Entry /\ Good(C!Cleared(e), u - 1)
         /\ u - 1 > 0 => C!Cleared(e).port = e.port
<1>1. e.port \in Port /\ e.refs \in Nat /\ e.refs >= u /\ e.port # None
  BY DEF Good, Entry
<1>2. CASE e.refs = 1
  <2>1. C!Cleared(e) = [port |-> None, refs |-> 0] /\ u = 1
    BY <1>1, <1>2 DEF C!Cleared, C!NoListener
  <2> QED
    BY <2>1 DEF Good, Entry
<1>3. CASE e.refs # 1
  <2>1. C!Cleared(e) = [port |-> e.port, refs |-> e.refs - 1]
    BY <1>3 DEF C!Cleared, Entry
  <2>2. e.refs - 1 \in Nat /\ e.refs - 1 >= u - 1
    BY <1>1
  <2> QED
    BY <1>1, <2>1, <2>2 DEF Good, Entry
<1> QED
  BY <1>2, <1>3

-----------------------------------------------------------------------------
(***************************************************************************)
(* Each step keeps the invariant                                           *)
(***************************************************************************)

\* A port is known by whoever uses the structure after the step.
LEMMA PortsFollow ==
  ASSUME Ports, ListenerTypes, ListenerTypes', Connected', ~failed' => ~failed,
         \A l \in Listener : Use(cl', conn', oldC', cfg', held'.l, l) > 0 =>
             lst'[l].port = lst[l].port \/ Use(cl, conn, oldC, cfg, held.l, l) = 0,
         ~failed' => \A i \in DOMAIN conn' :
             \/ lst'[conn'[i]].port = sock'[i]
             \/ \E j \in DOMAIN conn : conn'[i] = conn[j] /\ sock'[i] = sock[j],
         \A d \in Client : cl'[d].st # "none" =>
             \/ lst'[cl'[d].l].port = cl'[d].port
             \/ cl[d].st # "none" /\ cl'[d].l = cl[d].l /\ cl'[d].port = cl[d].port
  PROVE  Ports'
<1> SUFFICES ASSUME ~failed'
             PROVE  /\ \A i \in DOMAIN conn' : lst'[conn'[i]].port = sock'[i]
                    /\ \A d \in Client : cl'[d].st # "none" => lst'[cl'[d].l].port = cl'[d].port
  BY DEF Ports
<1>1. /\ \A i \in DOMAIN conn : lst[conn[i]].port = sock[i]
      /\ \A d \in Client : cl[d].st # "none" => lst[cl[d].l].port = cl[d].port
  BY DEF Ports
<1>2. /\ conn \in Seq(Listener) /\ oldC \in Seq(Listener)
      /\ conn' \in Seq(Listener) /\ oldC' \in Seq(Listener)
  BY DEF ListenerTypes
<1>3. ASSUME NEW i \in DOMAIN conn' PROVE lst'[conn'[i]].port = sock'[i]
  <2>1. CASE \E j \in DOMAIN conn : conn'[i] = conn[j] /\ sock'[i] = sock[j]
    <3>1. PICK j \in DOMAIN conn : conn'[i] = conn[j] /\ sock'[i] = sock[j]
      BY <2>1
    <3>2. conn[j] \in Listener
      BY <1>2
    <3>3. Use(cl, conn, oldC, cfg, held.l, conn[j]) > 0
      BY <1>2, UseTyped
    <3>4. Use(cl', conn', oldC', cfg', held'.l, conn[j]) > 0
      BY <1>2, <1>3, <3>1, UseTyped
    <3>5. lst'[conn[j]].port = lst[conn[j]].port
      BY <3>2, <3>3, <3>4
    <3> QED
      BY <1>1, <3>1, <3>5
  <2> QED
    BY <1>3, <2>1
<1>4. ASSUME NEW d \in Client, cl'[d].st # "none" PROVE lst'[cl'[d].l].port = cl'[d].port
  <2>1. CASE cl[d].st # "none" /\ cl'[d].l = cl[d].l /\ cl'[d].port = cl[d].port
    <3>1. cl'[d].l \in Listener
      BY <1>4 DEF ListenerTypes, Connected
    <3>2. Use(cl, conn, oldC, cfg, held.l, cl'[d].l) > 0
      BY <1>2, <2>1, UseTyped
    <3>3. Use(cl', conn', oldC', cfg', held'.l, cl'[d].l) > 0
      BY <1>2, UseTyped
    <3>4. lst'[cl'[d].l].port = lst[cl'[d].l].port
      BY <3>1, <3>2, <3>3
    <3> QED
      BY <1>1, <2>1, <3>4
  <2> QED
    BY <1>4, <2>1
<1> QED
  BY <1>3, <1>4

LEMMA FewStay ==
  ASSUME ListenersFew, \A d \in Client : cl'[d].st = "listen" => cl[d].st = "listen"
  PROVE  ListenersFew'
<1> DEFINE P == {d \in Client : cl[d].st = "listen"}
           Q == {d \in Client : cl'[d].st = "listen"}
<1>1. Q \in SUBSET P /\ P \in SUBSET Client /\ Cardinality(P) <= ClientLimit
  BY DEF ListenersFew
<1> HIDE DEF P, Q
<1>2. IsFiniteSet(P)
  BY <1>1, PortSettings, FS_Subset
<1>3. Cardinality(Q) <= Cardinality(P) /\ Cardinality(P) \in Nat /\ Cardinality(Q) \in Nat
  BY <1>1, <1>2, FS_Subset, FS_CardinalityType
<1>4. Cardinality(Q) <= ClientLimit
  BY <1>1, <1>3, PortSettings
<1> QED
  BY <1>4 DEF Q, ListenersFew

LEMMA ThreadsSame ==
  ASSUME PortInv, UNCHANGED <<held, oldC, first, failed, thr, crun, polled, ctl, reloads, redo,
                              early, runningC>>
  PROVE  ThreadTypes' /\ Phases'
<1>1. ThreadTypes'
  BY ZenonT(30) DEF PortInv, ThreadTypes
<1>2. Phases'
  BY Zenon DEF PortInv, Phases
<1> QED
  BY <1>1, <1>2

\* Steps of the threads that leave structures, sockets and clients alone.
LEMMA OthersKeep ==
  ASSUME PortInv, UNCHANGED <<lst, cfg, oldC, held, sock, conn, failed, cl>>,
         ThreadTypes', Phases'
  PROVE  PortInv'
<1>1. ListenerTypes' /\ Connected' /\ Ports' /\ ListenersFew'
  BY DEF PortInv, ListenerTypes, Connected, Ports, ListenersFew
<1>2. Counted'
  BY DEF PortInv, Counted, Used, Use, On, In
<1> QED
  BY <1>1, <1>2 DEF PortInv

\* A client that goes from one stage to the next.
LEMMA Staged ==
  ASSUME PortInv, NEW c \in Client, NEW from, NEW to \in C!Stages \ {"none"},
         C!Now(c, from, to), "none" \notin from,
         to = "listen" => Cardinality({d \in Client : cl[d].st # "none"}) <= ClientLimit
  PROVE  PortInv'
<1>1. /\ cl[c].st \in from /\ cl' = [cl EXCEPT ![c].st = to]
      /\ UNCHANGED <<lst, cfg, oldC, held, sock, conn, first, failed, thr, crun, polled,
                     ctl, reloads, redo, early, runningC>>
  BY DEF C!Now, C!lvars, C!svars, C!tvars, C!kvars
<1>2. cl \in [Client -> [st : C!Stages, l : Listener \cup {None}, port : Port \cup {None}]]
  BY DEF PortInv, ListenerTypes
<1>3. /\ cl' \in [Client -> [st : C!Stages, l : Listener \cup {None}, port : Port \cup {None}]]
      /\ \A d \in Client : /\ cl'[d].l = cl[d].l /\ cl'[d].port = cl[d].port
                           /\ cl'[d].st = IF d = c THEN to ELSE cl[d].st
  BY <1>1, <1>2
<1>4. cl[c].st # "none"
  BY <1>1
<1>5. ListenerTypes'
  BY <1>1, <1>3 DEF PortInv, ListenerTypes
<1>6. ThreadTypes' /\ Phases'
  BY <1>1, ThreadsSame
<1>7. Connected'
  BY <1>3, <1>4 DEF PortInv, Connected
<1>8. Counted'
  <2>1. ASSUME NEW l PROVE Use(cl', conn', oldC', cfg', held'.l, l) = Used(l)
    <3>1. On(cl', l) = On(cl, l)
      BY <1>3, OnSame
    <3> QED
      BY <1>1, <3>1 DEF Used, Use
  <2> QED
    BY <1>1, <2>1 DEF PortInv, Counted, Used
<1>9. Ports'
  BY <1>1, <1>3, <1>4 DEF PortInv, Ports
<1>10. ListenersFew'
  <2>1. CASE to = "listen"
    <3> DEFINE P == {d \in Client : cl[d].st # "none"}
               Q == {d \in Client : cl'[d].st = "listen"}
    <3>1. Q \in SUBSET P /\ P \in SUBSET Client /\ Cardinality(P) <= ClientLimit
      BY <1>3, <1>4, <2>1
    <3> HIDE DEF P, Q
    <3>2. IsFiniteSet(P)
      BY <3>1, PortSettings, FS_Subset
    <3>3. Cardinality(Q) <= Cardinality(P) /\ Cardinality(P) \in Nat /\ Cardinality(Q) \in Nat
      BY <3>1, <3>2, FS_Subset, FS_CardinalityType
    <3>4. Cardinality(Q) <= ClientLimit
      BY <3>1, <3>3, PortSettings
    <3> QED
      BY <3>4 DEF Q, ListenersFew
  <2>2. CASE to # "listen"
    <3>1. \A d \in Client : cl'[d].st = "listen" => cl[d].st = "listen"
      BY <1>3, <2>2
    <3> QED
      BY <3>1, FewStay DEF PortInv
  <2> QED
    BY <2>1, <2>2
<1> QED
  BY <1>5, <1>6, <1>7, <1>8, <1>9, <1>10 DEF PortInv

LEMMA ClientsGoOn ==
  ASSUME PortInv, NEW c \in Client,
         \/ C!IcyPassword(c) \/ C!IcyReply(c) \/ C!DispatchListen(c) \/ C!DispatchOther(c)
         \/ C!KeepAlive(c)
  PROVE  PortInv'
<1>1. CASE C!IcyPassword(c)
  BY <1>1, Staged DEF C!IcyPassword, C!Stages
<1>2. CASE C!IcyReply(c)
  BY <1>2, Staged DEF C!IcyReply, C!Stages
<1>3. CASE C!DispatchListen(c)
  <2>1. Cardinality({d \in Client : cl[d].st # "none"}) <= ClientLimit
    BY <1>3, SameCount DEF C!DispatchListen, C!WithinLimit, C!Clients
  <2>2. C!Now(c, {"header"}, "listen")
    BY <1>3 DEF C!DispatchListen
  <2> QED
    BY <2>1, <2>2, Staged DEF C!Stages
<1>4. CASE C!DispatchOther(c)
  BY <1>4, Staged DEF C!DispatchOther, C!Stages
<1>5. CASE C!KeepAlive(c)
  BY <1>5, Staged DEF C!KeepAlive, C!Stages
<1> QED
  BY <1>1, <1>2, <1>3, <1>4, <1>5

\* The end of a request: client_destroy.
LEMMA ClientEnds ==
  ASSUME PortInv, NEW c \in Client, C!Drop(c)
  PROVE  PortInv'
<1> DEFINE k == cl[c].l
<1>1. /\ cl[c].st # "none" /\ lst' = [lst EXCEPT ![k] = C!Cleared(@)]
      /\ cl' = [cl EXCEPT ![c] = C!NoClient]
      /\ UNCHANGED <<cfg, oldC, held, sock, conn, first, failed, thr, crun, polled,
                     ctl, reloads, redo, early, runningC>>
  BY DEF C!Drop, C!Release, C!lvars, C!svars, C!tvars, C!kvars
<1>2. /\ cl \in [Client -> [st : C!Stages, l : Listener \cup {None}, port : Port \cup {None}]]
      /\ lst \in [Listener -> Entry] /\ conn \in Seq(Listener) /\ oldC \in Seq(Listener)
      /\ held \in [l : Listener \cup {None}, n : Nat]
  BY DEF PortInv, ListenerTypes
<1>3. k \in Listener
  BY <1>1, <1>2 DEF PortInv, Connected
<1>4. C!NoClient = [st |-> "none", l |-> None, port |-> None] /\ C!NoClient.l = None
  BY DEF C!NoClient
<1>5. /\ cl' \in [Client -> [st : C!Stages, l : Listener \cup {None}, port : Port \cup {None}]]
      /\ cl'[c] = C!NoClient /\ \A d \in Client : d # c => cl'[d] = cl[d]
  BY <1>1, <1>2, <1>4 DEF C!Stages
<1>6. Use(cl, conn, oldC, cfg, held.l, k) > 0
  BY <1>2, UseTyped
<1>7. ASSUME NEW l \in Listener
      PROVE  /\ Used(l) \in Nat
             /\ Use(cl', conn', oldC', cfg', held'.l, l) = Used(l) - One(k = l)
  <2>1. On(cl', l) + One(k = l) = On(cl, l) + One(C!NoClient.l = l)
    BY <1>5, OnMoves
  <2>2. One(C!NoClient.l = l) = 0
    BY <1>4, PortSettings DEF One
  <2>3. /\ On(cl', l) \in Nat /\ On(cl, l) \in Nat /\ In(conn, l) \in Nat /\ In(oldC, l) \in Nat
        /\ One(l \in cfg) \in Nat /\ One(l = held.l) \in Nat /\ One(k = l) \in Nat
        /\ Use(cl, conn, oldC, cfg, held.l, l) \in Nat
    BY <1>2, UseTyped, OneTyped
  <2>4. Use(cl', conn', oldC', cfg', held'.l, l)
           = On(cl', l) + In(conn, l) + In(oldC, l) + One(l \in cfg) + One(l = held.l)
    BY <1>1 DEF Use
  <2>5. Used(l) = On(cl, l) + In(conn, l) + In(oldC, l) + One(l \in cfg) + One(l = held.l)
    BY DEF Used, Use
  <2> QED
    BY <2>1, <2>2, <2>3, <2>4, <2>5 DEF Used
<1>8. Good(lst[k], Used(k)) /\ Used(k) \in Nat /\ Used(k) > 0
  BY <1>3, <1>6, <1>7 DEF PortInv, Counted, Used
<1>9. /\ C!Cleared(lst[k]) \in Entry /\ Good(C!Cleared(lst[k]), Used(k) - 1)
      /\ Used(k) - 1 > 0 => C!Cleared(lst[k]).port = lst[k].port
  BY <1>2, <1>3, <1>8, ClearedGood
<1>10. /\ lst' \in [Listener -> Entry] /\ lst'[k] = C!Cleared(lst[k])
       /\ \A l \in Listener : l # k => lst'[l] = lst[l]
  <2> HIDE DEF k
  <2> QED
    BY <1>1, <1>2, <1>3, <1>9
<1>11. One(k = k) = 1 /\ \A l \in Listener : l # k => One(k = l) = 0
  BY DEF One
<1>12. ListenerTypes'
  BY <1>1, <1>5, <1>10 DEF PortInv, ListenerTypes
<1>13. ThreadTypes' /\ Phases'
  BY <1>1, ThreadsSame
<1>14. Connected'
  BY <1>4, <1>5 DEF PortInv, Connected
<1>15. ASSUME NEW l \in Listener
       PROVE  /\ Good(lst'[l], Use(cl', conn', oldC', cfg', held'.l, l))
              /\ Use(cl', conn', oldC', cfg', held'.l, l) <= Used(l)
              /\ Use(cl', conn', oldC', cfg', held'.l, l) > 0 => lst'[l].port = lst[l].port
  <2> HIDE DEF k
  <2>1. CASE l = k
    <3>1. Use(cl', conn', oldC', cfg', held'.l, l) = Used(l) - 1
      BY <1>7, <1>11, <2>1
    <3> QED
      BY <1>8, <1>9, <1>10, <2>1, <3>1
  <2>2. CASE l # k
    <3>1. Use(cl', conn', oldC', cfg', held'.l, l) = Used(l)
      BY <1>7, <1>11, <2>2
    <3> QED
      BY <1>7, <1>10, <2>2, <3>1 DEF PortInv, Counted
  <2> QED
    BY <2>1, <2>2
<1>16. Counted'
  <2>1. ASSUME held.l # None PROVE held.n >= Use(cl', conn', oldC', cfg', held'.l, held.l)
    <3>1. held.l \in Listener /\ held.n >= Used(held.l) /\ held.n \in Nat
      BY <1>2, <2>1 DEF PortInv, Counted
    <3>2. Use(cl', conn', oldC', cfg', held'.l, held.l) \in Int
      BY <3>1, <1>7, OneTyped
    <3> QED
      BY <3>1, <3>2, <1>7, <1>15
  <2> QED
    BY <1>1, <1>15, <2>1 DEF Counted, Used
<1>17. Ports'
  <2>1. \A d \in Client : cl'[d].st # "none" =>
           cl[d].st # "none" /\ cl'[d].l = cl[d].l /\ cl'[d].port = cl[d].port
    BY <1>4, <1>5
  <2>2. \A i \in DOMAIN conn' : \E j \in DOMAIN conn : conn'[i] = conn[j] /\ sock'[i] = sock[j]
    BY <1>1
  <2> QED
    BY <1>1, <1>12, <1>14, <1>15, <2>1, <2>2, PortsFollow DEF PortInv
<1>18. ListenersFew'
  BY <1>4, <1>5, FewStay DEF PortInv
<1> QED
  BY <1>12, <1>13, <1>14, <1>16, <1>17, <1>18 DEF PortInv

LEMMA Decided == \A x, S : (x \in S) \in BOOLEAN
  OBVIOUS

LEMMA Indexed ==
  ASSUME NEW T, NEW s \in Seq(T), NEW i \in DOMAIN s
  PROVE  s[i] \in T
  OBVIOUS

\* The steps of the slave and the connection thread that only go on.
LEMMA ThreadsGoOn ==
  ASSUME PortInv,
         \/ C!Shutdown("reload", "join reload", "close") \/ C!Joined("join reload", "close")
         \/ C!Shutdown("halt", "join halt", "end") \/ C!Joined("join halt", "end")
         \/ C!Startup \/ C!Restart \/ C!Joined("join restart", "start")
         \/ C!ReloadEnds \/ C!Halt \/ C!SetRunning \/ C!LoopEnds \/ C!Signal \/ C!SignalFails
         \/ C!AcceptDrops \/ \E i \in DOMAIN sock : C!Poll(i)
  PROVE  PortInv'
<1> USE DEF C!lvars, C!svars, C!tvars, C!kvars, PortInv
<1> DEFINE Others == UNCHANGED <<lst, cfg, oldC, held, sock, conn, failed, cl>>
<1>1. CASE C!Shutdown("reload", "join reload", "close")
  <2>1. Others /\ UNCHANGED <<first, thr, polled, reloads, runningC>> /\ ctl = "reload"
    BY <1>1 DEF C!Shutdown
  <2>2. CASE thr = "none"
    <3>1. ctl' = "close" /\ UNCHANGED <<crun, early>>
      BY <1>1, <2>2 DEF C!Shutdown
    <3>2. redo' \in BOOLEAN
      BY <1>1 DEF C!Shutdown, ThreadTypes
    <3> QED
      BY <2>1, <2>2, <3>1, <3>2, OthersKeep DEF ThreadTypes, Phases
  <2>3. CASE thr # "none"
    <3>1. ctl' = "join reload" /\ crun' = FALSE /\ early' = (thr \in {"new", "ready"})
      BY <1>1, <2>3 DEF C!Shutdown, C!Stop
    <3>2. redo' \in BOOLEAN
      BY <1>1 DEF C!Shutdown, ThreadTypes
    <3>3. ThreadTypes'
      <4>1. (thr \in {"new", "ready"}) \in BOOLEAN
        BY Decided
      <4>2. early' \in BOOLEAN
        BY ONLY <3>1, <4>1, Zenon
      <4>3. crun' \in BOOLEAN
        BY <3>1
      <4> QED
        BY <2>1, <3>1, <3>2, <4>2, <4>3 DEF ThreadTypes
    <3>4. Phases'
      BY <2>1, <3>1 DEF Phases
    <3> QED
      BY <2>1, <3>3, <3>4, OthersKeep
  <2> QED
    BY <2>2, <2>3
<1>2. CASE C!Joined("join reload", "close")
  <2>1. Others /\ ThreadTypes' /\ Phases'
    BY <1>2 DEF C!Joined, ThreadTypes, Phases
  <2> QED
    BY <2>1, OthersKeep
<1>3. CASE C!Shutdown("halt", "join halt", "end")
  <2>1. Others /\ UNCHANGED <<first, thr, polled, reloads, runningC>> /\ ctl = "halt"
    BY <1>3 DEF C!Shutdown
  <2>2. CASE thr = "none"
    <3>1. ctl' = "end" /\ UNCHANGED <<crun, early>>
      BY <1>3, <2>2 DEF C!Shutdown
    <3>2. redo' \in BOOLEAN
      BY <1>3 DEF C!Shutdown, ThreadTypes
    <3> QED
      BY <2>1, <2>2, <3>1, <3>2, OthersKeep DEF ThreadTypes, Phases
  <2>3. CASE thr # "none"
    <3>1. ctl' = "join halt" /\ crun' = FALSE /\ early' = (thr \in {"new", "ready"})
      BY <1>3, <2>3 DEF C!Shutdown, C!Stop
    <3>2. redo' \in BOOLEAN
      BY <1>3 DEF C!Shutdown, ThreadTypes
    <3>3. ThreadTypes'
      <4>1. (thr \in {"new", "ready"}) \in BOOLEAN
        BY Decided
      <4>2. early' \in BOOLEAN
        BY ONLY <3>1, <4>1, Zenon
      <4>3. crun' \in BOOLEAN
        BY <3>1
      <4> QED
        BY <2>1, <3>1, <3>2, <4>2, <4>3 DEF ThreadTypes
    <3>4. Phases'
      BY <2>1, <3>1 DEF Phases
    <3> QED
      BY <2>1, <3>3, <3>4, OthersKeep
  <2> QED
    BY <2>2, <2>3
<1>4. CASE C!Joined("join halt", "end")
  <2>1. Others /\ ThreadTypes' /\ Phases'
    BY <1>4 DEF C!Joined, ThreadTypes, Phases
  <2> QED
    BY <2>1, OthersKeep
<1>5. CASE C!Startup
  <2>1. Others /\ ThreadTypes' /\ Phases'
    BY <1>5 DEF C!Startup, ThreadTypes, Phases
  <2> QED
    BY <2>1, OthersKeep
<1>6. CASE C!Restart
  <2>1. Others /\ UNCHANGED <<first, thr, polled, reloads, runningC>> /\ ctl = "idle"
    BY <1>6 DEF C!Restart
  <2>2. CASE thr = "none"
    <3>1. ctl' = "start" /\ UNCHANGED <<crun, early>>
      BY <1>6, <2>2 DEF C!Restart
    <3>2. redo' \in BOOLEAN
      BY <1>6 DEF C!Restart, ThreadTypes
    <3> QED
      BY <2>1, <2>2, <3>1, <3>2, OthersKeep DEF ThreadTypes, Phases
  <2>3. CASE thr # "none"
    <3>1. ctl' = "join restart" /\ crun' = FALSE /\ early' = (thr \in {"new", "ready"})
      BY <1>6, <2>3 DEF C!Restart, C!Stop
    <3>2. redo' \in BOOLEAN
      BY <1>6 DEF C!Restart, ThreadTypes
    <3>3. ThreadTypes'
      <4>1. (thr \in {"new", "ready"}) \in BOOLEAN
        BY Decided
      <4>2. early' \in BOOLEAN
        BY ONLY <3>1, <4>1, Zenon
      <4>3. crun' \in BOOLEAN
        BY <3>1
      <4> QED
        BY <2>1, <3>1, <3>2, <4>2, <4>3 DEF ThreadTypes
    <3>4. Phases'
      BY <2>1, <3>1 DEF Phases
    <3> QED
      BY <2>1, <3>3, <3>4, OthersKeep
  <2> QED
    BY <2>2, <2>3
<1>7. CASE C!Joined("join restart", "start")
  <2>1. Others /\ ThreadTypes' /\ Phases'
    BY <1>7 DEF C!Joined, ThreadTypes, Phases
  <2> QED
    BY <2>1, OthersKeep
<1>8. CASE C!ReloadEnds
  <2>1. Others /\ ThreadTypes' /\ Phases'
    BY <1>8 DEF C!ReloadEnds, ThreadTypes, Phases
  <2> QED
    BY <2>1, OthersKeep
<1>9. CASE C!Halt
  <2>1. Others /\ ThreadTypes' /\ Phases'
    BY <1>9 DEF C!Halt, ThreadTypes, Phases
  <2> QED
    BY <2>1, OthersKeep
<1>10. CASE C!SetRunning
  <2>1. Others /\ ThreadTypes' /\ Phases'
    BY <1>10 DEF C!SetRunning, ThreadTypes, Phases
  <2> QED
    BY <2>1, OthersKeep
<1>11. CASE C!LoopEnds
  <2>1. Others /\ ThreadTypes' /\ Phases'
    BY <1>11 DEF C!LoopEnds, ThreadTypes, Phases
  <2> QED
    BY <2>1, OthersKeep
<1>12. CASE C!Signal
  <2>1. Others /\ ThreadTypes' /\ Phases'
    BY <1>12 DEF C!Signal, ThreadTypes, Phases
  <2> QED
    BY <2>1, OthersKeep
<1>13. CASE C!SignalFails
  <2>1. Others /\ UNCHANGED <<first, thr, crun, polled, ctl, early, runningC>>
    BY <1>13 DEF C!SignalFails
  <2>2. redo' \in BOOLEAN /\ reloads' \in 0 .. MaxReloads
    <3>1. redo' = TRUE /\ reloads < MaxReloads /\ reloads' = reloads + 1
      BY <1>13 DEF C!SignalFails
    <3>2. reloads \in 0 .. MaxReloads /\ MaxReloads \in Nat
      BY PortSettings DEF ThreadTypes
    <3>3. reloads' \in 0 .. MaxReloads
      BY ONLY <3>1, <3>2
    <3> QED
      BY <3>1, <3>3
  <2>3. ThreadTypes'
    BY <2>1, <2>2 DEF ThreadTypes
  <2>4. Phases'
    BY <2>1, Zenon DEF Phases
  <2> QED
    BY <2>1, <2>3, <2>4, OthersKeep
<1>14. CASE C!AcceptDrops
  <2>1. Others /\ ThreadTypes' /\ Phases'
    BY <1>14 DEF C!AcceptDrops, ThreadTypes, Phases
  <2> QED
    BY <2>1, OthersKeep
<1>15. ASSUME NEW i \in DOMAIN sock, C!Poll(i) PROVE PortInv'
  <2>0. sock \in Seq(Port)
    BY DEF ListenerTypes
  <2>1. sock[i] \in Port
    BY <2>0, Indexed
  <2>2. Others /\ ThreadTypes' /\ Phases'
    BY <1>15, <2>1 DEF C!Poll, ThreadTypes, Phases
  <2> QED
    BY <2>2, OthersKeep
<1> QED
  BY <1>1, <1>2, <1>3, <1>4, <1>5, <1>6, <1>7, <1>8, <1>9, <1>10, <1>11, <1>12, <1>13, <1>14, <1>15

\* config_clear_listener without the lock, first half: the count is read.
LEMMA CountRead ==
  ASSUME PortInv, C!ClearRead
  PROVE  PortInv'
<1> DEFINE k == Head(oldC)
<1>1. /\ ctl \in {"close", "clear"} /\ held.l = None /\ oldC # <<>>
      /\ held' = [l |-> k, n |-> lst[k].refs] /\ oldC' = Tail(oldC)
      /\ UNCHANGED <<lst, cfg, sock, conn, failed, cl>>
      /\ UNCHANGED <<first, thr, crun, polled, ctl, reloads, redo, early, runningC>>
  BY DEF C!ClearRead, C!lvars, C!svars, C!tvars, C!kvars
<1>2. /\ oldC \in Seq(Listener) /\ conn \in Seq(Listener) /\ lst \in [Listener -> Entry]
  BY DEF PortInv, ListenerTypes
<1>3. k \in Listener /\ oldC' \in Seq(Listener)
  BY <1>1, <1>2
<1> HIDE DEF k
<1>4. lst[k].refs \in Nat
  BY <1>2, <1>3 DEF Entry
<1>5. ListenerTypes'
  BY <1>1, <1>3, <1>4 DEF PortInv, ListenerTypes
<1>6. ThreadTypes'
  BY <1>1 DEF PortInv, ThreadTypes
<1>7. Phases'
  <2>1. ctl' \in {"close", "clear"} /\ thr' = "none"
    BY <1>1 DEF PortInv, Phases
  <2> QED
    BY <2>1 DEF Phases
<1>8. ASSUME NEW l \in Listener
      PROVE  /\ Used(l) \in Nat /\ Use(cl', conn', oldC', cfg', held'.l, l) = Used(l)
  <2>1. In(oldC, l) = One(k = l) + In(oldC', l)
    BY <1>1, <1>2, InTail DEF k
  <2>2. One(l = held.l) = 0
    BY <1>1, PortSettings DEF One
  <2>3. held'.l = k /\ One(l = k) = One(k = l)
    BY <1>1 DEF One
  <2>4. /\ On(cl, l) \in Nat /\ In(conn, l) \in Nat /\ In(oldC, l) \in Nat
        /\ One(l \in cfg) \in Nat /\ One(k = l) \in Nat /\ In(oldC', l) \in Nat
        /\ Use(cl, conn, oldC, cfg, held.l, l) \in Nat
    BY <1>2, <1>3, UseTyped, OneTyped
  <2>5. Use(cl', conn', oldC', cfg', held'.l, l)
           = On(cl, l) + In(conn, l) + In(oldC', l) + One(l \in cfg) + One(k = l)
    BY <1>1, <2>3 DEF Use
  <2>6. Used(l) = On(cl, l) + In(conn, l) + In(oldC, l) + One(l \in cfg) + One(l = held.l)
    BY DEF Used, Use
  <2> QED
    BY <2>1, <2>2, <2>4, <2>5, <2>6 DEF Used
<1>9. Counted'
  <2>1. \A l \in Listener : Good(lst[l], Used(l))
    BY DEF PortInv, Counted
  <2>2. lst[k].refs >= Used(k)
    BY <1>3, <1>4, <1>8, <2>1 DEF Good
  <2>3. \A l \in Listener : Good(lst'[l], Use(cl', conn', oldC', cfg', held'.l, l))
    BY <1>1, <1>8, <2>1
  <2>4. held'.l = k /\ held'.n = lst[k].refs
    BY <1>1
  <2>5. held'.n >= Use(cl', conn', oldC', cfg', held'.l, held'.l)
    BY <1>3, <1>8, <2>2, <2>4
  <2> QED
    BY <2>3, <2>5 DEF Counted, Used
<1>10. Connected' /\ Ports' /\ ListenersFew'
  BY <1>1 DEF PortInv, Connected, Ports, ListenersFew
<1> QED
  BY <1>5, <1>6, <1>7, <1>9, <1>10 DEF PortInv

\* Second half: it is written, one less.
LEMMA CountWritten ==
  ASSUME PortInv, C!ClearWrite
  PROVE  PortInv'
<1> DEFINE k == held.l
           e == [lst[k] EXCEPT !.refs = held.n]
<1>1. /\ k # None
      /\ lst' = [lst EXCEPT ![k] = C!Cleared([@ EXCEPT !.refs = held.n])]
      /\ held' = [l |-> None, n |-> 0]
      /\ UNCHANGED <<cfg, oldC, sock, conn, failed, cl>>
      /\ UNCHANGED <<first, thr, crun, polled, ctl, reloads, redo, early, runningC>>
  BY DEF C!ClearWrite, C!lvars, C!svars, C!tvars, C!kvars
<1>2. /\ oldC \in Seq(Listener) /\ conn \in Seq(Listener) /\ lst \in [Listener -> Entry]
      /\ held \in [l : Listener \cup {None}, n : Nat]
  BY DEF PortInv, ListenerTypes
<1>3. k \in Listener /\ held.n \in Nat
  BY <1>1, <1>2
<1>4. lst' = [lst EXCEPT ![k] = C!Cleared(e)]
  BY <1>1
<1>5. e \in Entry /\ e.port = lst[k].port /\ e.refs = held.n
  BY <1>2, <1>3 DEF Entry
<1>6. ASSUME NEW l \in Listener
      PROVE  /\ Used(l) \in Nat
             /\ Use(cl', conn', oldC', cfg', held'.l, l) = Used(l) - One(l = k)
  <2>1. held'.l = None /\ One(l = None) = 0
    BY <1>1, PortSettings DEF One
  <2>2. /\ On(cl, l) \in Nat /\ In(conn, l) \in Nat /\ In(oldC, l) \in Nat
        /\ One(l \in cfg) \in Nat /\ One(l = k) \in Nat
        /\ Use(cl, conn, oldC, cfg, held.l, l) \in Nat
    BY <1>2, <1>3, UseTyped, OneTyped
  <2>3. Use(cl', conn', oldC', cfg', held'.l, l)
           = On(cl, l) + In(conn, l) + In(oldC, l) + One(l \in cfg) + One(l = None)
    BY <1>1, <2>1 DEF Use
  <2>4. Used(l) = On(cl, l) + In(conn, l) + In(oldC, l) + One(l \in cfg) + One(l = k)
    BY DEF Used, Use
  <2> QED
    BY <2>1, <2>2, <2>3, <2>4 DEF Used
<1>7. Used(k) > 0 /\ Used(k) \in Nat /\ held.n >= Used(k) /\ Good(lst[k], Used(k))
  BY <1>1, <1>2, <1>3, <1>6, UseTyped DEF PortInv, Counted, Used
<1>8. Good(e, Used(k))
  BY <1>5, <1>7 DEF Good
<1> HIDE DEF e, k
<1>9. /\ C!Cleared(e) \in Entry /\ Good(C!Cleared(e), Used(k) - 1)
      /\ Used(k) - 1 > 0 => C!Cleared(e).port = e.port
  BY <1>5, <1>7, <1>8, ClearedGood
<1>10. /\ lst' \in [Listener -> Entry] /\ lst'[k] = C!Cleared(e)
       /\ \A l \in Listener : l # k => lst'[l] = lst[l]
  BY <1>2, <1>3, <1>4, <1>9
<1>11. ListenerTypes'
  BY <1>1, <1>10 DEF PortInv, ListenerTypes
<1>12. ThreadTypes'
  BY <1>1, ZenonT(30) DEF PortInv, ThreadTypes
<1>13. Phases'
  <2>1. ctl \in {"close", "clear"} /\ thr = "none"
    BY <1>1 DEF PortInv, Phases, k
  <2>2. ctl' \in {"close", "clear"} /\ thr' = "none"
    BY <1>1, <2>1
  <2> QED
    BY <2>2 DEF Phases
<1>14. ASSUME NEW l \in Listener
       PROVE  /\ Good(lst'[l], Use(cl', conn', oldC', cfg', held'.l, l))
              /\ Use(cl', conn', oldC', cfg', held'.l, l) > 0 => lst'[l].port = lst[l].port
  <2>1. CASE l = k
    <3>1. Use(cl', conn', oldC', cfg', held'.l, l) = Used(l) - 1
      BY <1>6, <2>1 DEF One
    <3> QED
      BY <1>5, <1>9, <1>10, <2>1, <3>1
  <2>2. CASE l # k
    <3>1. Use(cl', conn', oldC', cfg', held'.l, l) = Used(l)
      BY <1>6, <2>2 DEF One
    <3> QED
      BY <1>10, <2>2, <3>1 DEF PortInv, Counted
  <2> QED
    BY <2>1, <2>2
<1>15. Counted'
  <2>1. held'.l = None
    BY <1>1
  <2> QED
    BY <1>14, <2>1 DEF Counted, Used
<1>16. Connected' /\ ListenersFew'
  BY <1>1 DEF PortInv, Connected, ListenersFew
<1>17. Ports'
  <2>1. \A d \in Client : cl'[d].st # "none" =>
           cl[d].st # "none" /\ cl'[d].l = cl[d].l /\ cl'[d].port = cl[d].port
    BY <1>1
  <2>2. \A i \in DOMAIN conn' : \E j \in DOMAIN conn : conn'[i] = conn[j] /\ sock'[i] = sock[j]
    BY <1>1
  <2> QED
    BY <1>1, <1>11, <1>14, <1>16, <2>1, <2>2, PortsFollow DEF PortInv
<1> QED
  BY <1>11, <1>12, <1>13, <1>15, <1>16, <1>17 DEF PortInv

\* accept_client: one more reference, by the client.
LEMMA ClientAccepted ==
  ASSUME PortInv, NEW c \in Client, C!AcceptClient(c)
  PROVE  PortInv'
<1>1. PICK i \in DOMAIN sock :
         /\ sock[i] = polled
         /\ lst' = [lst EXCEPT ![conn[i]] = C!Accepted(@)]
         /\ cl' = [cl EXCEPT ![c] =
                      [st |-> IF lst[conn[i]].port \in Icy THEN "icy" ELSE "header",
                       l |-> conn[i], port |-> polled]]
  BY DEF C!AcceptClient
<1>2. /\ thr = "accept" /\ cl[c].st = "none" /\ thr' = "loop" /\ polled' = None
      /\ UNCHANGED <<cfg, oldC, held, sock, conn, failed>>
      /\ UNCHANGED <<first, crun, ctl, reloads, redo, early, runningC>>
  BY DEF C!AcceptClient, C!svars, C!kvars
<1>3. /\ cl \in [Client -> [st : C!Stages, l : Listener \cup {None}, port : Port \cup {None}]]
      /\ lst \in [Listener -> Entry] /\ conn \in Seq(Listener) /\ oldC \in Seq(Listener)
      /\ sock \in Seq(Port) /\ Len(sock) = Len(conn)
  BY DEF PortInv, ListenerTypes
<1> DEFINE k == conn[i]
           s == IF lst[conn[i]].port \in Icy THEN "icy" ELSE "header"
           r == [st |-> s, l |-> k, port |-> polled]
<1>4. DOMAIN conn = DOMAIN sock
  BY <1>3
<1>5. k \in Listener /\ polled \in Port
  BY <1>1, <1>3, <1>4, Indexed
<1>6. cl[c].l = None
  BY <1>2 DEF PortInv, Connected
<1>7. s \in {"icy", "header"}
  OBVIOUS
<1>8. cl' = [cl EXCEPT ![c] = r] /\ lst' = [lst EXCEPT ![k] = C!Accepted(@)]
  BY <1>1
<1>9. Use(cl, conn, oldC, cfg, held.l, k) > 0
  BY <1>3, <1>4, UseTyped
<1>10. ~failed => lst[k].port = polled
  BY <1>1, <1>4 DEF PortInv, Ports
<1> HIDE DEF k, s
<1>11. /\ cl' \in [Client -> [st : C!Stages, l : Listener \cup {None}, port : Port \cup {None}]]
       /\ cl'[c] = r /\ \A d \in Client : d # c => cl'[d] = cl[d]
  BY <1>3, <1>5, <1>7, <1>8 DEF C!Stages
<1>12. ASSUME NEW l \in Listener
       PROVE  /\ Used(l) \in Nat
              /\ Use(cl', conn', oldC', cfg', held'.l, l) = Used(l) + One(k = l)
  <2>1. On(cl', l) + One(None = l) = On(cl, l) + One(k = l)
    BY <1>6, <1>11, OnMoves
  <2>2. One(None = l) = 0
    BY PortSettings DEF One
  <2>4. /\ On(cl', l) \in Nat /\ On(cl, l) \in Nat /\ In(conn, l) \in Nat /\ In(oldC, l) \in Nat
        /\ One(l \in cfg) \in Nat /\ One(l = held.l) \in Nat /\ One(k = l) \in Nat
        /\ Use(cl, conn, oldC, cfg, held.l, l) \in Nat
    BY <1>3, UseTyped, OneTyped
  <2>5. Use(cl', conn', oldC', cfg', held'.l, l)
           = On(cl', l) + In(conn, l) + In(oldC, l) + One(l \in cfg) + One(l = held.l)
    BY <1>2 DEF Use
  <2>6. Used(l) = On(cl, l) + In(conn, l) + In(oldC, l) + One(l \in cfg) + One(l = held.l)
    BY DEF Used, Use
  <2> QED
    BY <2>1, <2>2, <2>4, <2>5, <2>6 DEF Used
<1>13. Good(lst[k], Used(k)) /\ Used(k) \in Nat /\ Used(k) > 0
  BY <1>5, <1>9, <1>12 DEF PortInv, Counted, Used
<1>14. /\ C!Accepted(lst[k]) \in Entry /\ Good(C!Accepted(lst[k]), Used(k) + 1)
       /\ C!Accepted(lst[k]).port = lst[k].port
  <2>1. lst[k] \in Entry
    BY <1>3, <1>5
  <2>2. C!Accepted(lst[k]) = [port |-> lst[k].port, refs |-> lst[k].refs + 1]
    BY <2>1 DEF C!Accepted, Entry
  <2> QED
    BY <1>13, <2>1, <2>2 DEF Entry, Good
<1>15. /\ lst' \in [Listener -> Entry] /\ lst'[k] = C!Accepted(lst[k])
       /\ \A l \in Listener : l # k => lst'[l] = lst[l]
  BY <1>3, <1>5, <1>8, <1>14
<1>16. ListenerTypes'
  BY <1>2, <1>11, <1>15 DEF PortInv, ListenerTypes
<1>17. ThreadTypes'
  BY <1>2 DEF PortInv, ThreadTypes
<1>18. Phases'
  <2>1. /\ ctl \notin {"close", "clear"} /\ held.l = None
        /\ oldC # <<>> => ctl \in {"reload", "join reload", "close", "clear"}
        /\ ctl \in {"join reload", "join restart", "join halt"} => ~crun \/ early
    BY <1>2 DEF PortInv, Phases
  <2>2. ~crun \/ early => ~crun' \/ early'
    BY <1>2, Zenon
  <2> QED
    BY <1>2, <2>1, <2>2 DEF Phases
<1>19. Connected'
  <2>1. \A d \in Client : cl[d].st = "none" <=> cl[d].l = None
    BY DEF PortInv, Connected
  <2>2. cl'[c].st # "none" /\ cl'[c].l # None
    BY <1>5, <1>7, <1>11, PortSettings
  <2> QED
    BY <1>11, <2>1, <2>2 DEF Connected
<1>20. ASSUME NEW l \in Listener
       PROVE  /\ Good(lst'[l], Use(cl', conn', oldC', cfg', held'.l, l))
              /\ lst'[l].port = lst[l].port
  <2>1. CASE l = k
    <3>1. Use(cl', conn', oldC', cfg', held'.l, l) = Used(l) + 1
      BY <1>12, <2>1 DEF One
    <3> QED
      BY <1>14, <1>15, <2>1, <3>1
  <2>2. CASE l # k
    <3>1. Use(cl', conn', oldC', cfg', held'.l, l) = Used(l)
      BY <1>12, <2>2 DEF One
    <3> QED
      BY <1>15, <2>2, <3>1 DEF PortInv, Counted
  <2> QED
    BY <2>1, <2>2
<1>21. Counted'
  <2>1. held.l = None
    BY <1>2 DEF PortInv, Phases
  <2>2. held'.l = None
    BY <1>2, <2>1
  <2> QED
    BY <1>20, <2>2 DEF Counted, Used
<1>22. ASSUME ~failed' PROVE Ports'
  <2>1. lst'[cl'[c].l].port = cl'[c].port
    BY <1>2, <1>5, <1>10, <1>11, <1>20, <1>22
  <2>2. \A d \in Client : cl'[d].st # "none" =>
           \/ lst'[cl'[d].l].port = cl'[d].port
           \/ cl[d].st # "none" /\ cl'[d].l = cl[d].l /\ cl'[d].port = cl[d].port
    BY <1>11, <2>1
  <2>3. \A j \in DOMAIN conn' : \E m \in DOMAIN conn : conn'[j] = conn[m] /\ sock'[j] = sock[m]
    BY <1>2
  <2> QED
    BY <1>2, <1>16, <1>19, <1>20, <2>2, <2>3, PortsFollow DEF PortInv
<1>23. Ports'
  BY <1>22 DEF Ports
<1>24. ListenersFew'
  BY <1>7, <1>11, FewStay DEF PortInv
<1> QED
  BY <1>16, <1>17, <1>18, <1>19, <1>21, <1>23, <1>24 DEF PortInv

\* wait_for_serversock takes out a socket that has an error.
LEMMA SocketGone ==
  ASSUME PortInv, NEW i \in DOMAIN sock, C!SocketFails(i)
  PROVE  PortInv'
<1>1. /\ thr = "loop" /\ sock' = C!RemoveAt(sock, i) /\ conn' = C!Front(conn) /\ failed' = TRUE
      /\ UNCHANGED <<lst, cfg, oldC, held, cl>>
      /\ UNCHANGED <<first, thr, crun, polled, ctl, reloads, redo, early, runningC>>
  BY DEF C!SocketFails, C!lvars, C!tvars, C!kvars
<1>2. /\ conn \in Seq(Listener) /\ oldC \in Seq(Listener) /\ sock \in Seq(Port)
      /\ Len(sock) = Len(conn)
  BY DEF PortInv, ListenerTypes
<1>3. conn # <<>> /\ i \in 1 .. Len(sock)
  <2>1. DOMAIN sock = 1 .. Len(sock)
    BY <1>2
  <2> QED
    BY <1>2, <2>1
<1>4. /\ conn' \in Seq(Listener) /\ Len(conn') = Len(conn) - 1
      /\ \A l : In(conn', l) \in Nat /\ In(conn', l) <= In(conn, l)
  <2>1. ASSUME NEW l
        PROVE  /\ C!Front(conn) \in Seq(Listener) /\ Len(C!Front(conn)) = Len(conn) - 1
               /\ In(C!Front(conn), l) \in Nat /\ In(C!Front(conn), l) <= In(conn, l)
    BY <1>2, <1>3, InFront
  <2> QED
    BY <1>1, <2>1
<1>5. sock' \in Seq(Port) /\ Len(sock') = Len(sock) - 1
  BY <1>1, <1>2, <1>3, OneRemoved
<1>6. ListenerTypes'
  BY <1>1, <1>2, <1>4, <1>5 DEF PortInv, ListenerTypes
<1>7. ThreadTypes'
  BY <1>1 DEF PortInv, ThreadTypes
<1>8. Phases'
  BY <1>1, Zenon DEF PortInv, Phases
<1>9. Connected' /\ ListenersFew' /\ Ports'
  BY <1>1 DEF PortInv, Connected, ListenersFew, Ports
<1>10. ASSUME NEW l
       PROVE  /\ Use(cl', conn', oldC', cfg', held'.l, l) \in Nat /\ Used(l) \in Nat
              /\ Use(cl', conn', oldC', cfg', held'.l, l) <= Used(l)
  <2>1. /\ On(cl, l) \in Nat /\ In(conn, l) \in Nat /\ In(oldC, l) \in Nat
        /\ One(l \in cfg) \in Nat /\ One(l = held.l) \in Nat
        /\ Use(cl, conn, oldC, cfg, held.l, l) \in Nat
    BY <1>2, UseTyped
  <2>2. Use(cl', conn', oldC', cfg', held'.l, l)
           = On(cl, l) + In(conn', l) + In(oldC, l) + One(l \in cfg) + One(l = held.l)
    BY <1>1 DEF Use
  <2>3. Used(l) = On(cl, l) + In(conn, l) + In(oldC, l) + One(l \in cfg) + One(l = held.l)
    BY DEF Used, Use
  <2>4. In(conn', l) \in Nat /\ In(conn', l) <= In(conn, l)
    BY <1>4
  <2> QED
    BY <2>1, <2>2, <2>3, <2>4
<1>11. Counted'
  <2>1. ASSUME NEW l \in Listener
        PROVE  Good(lst'[l], Use(cl', conn', oldC', cfg', held'.l, l))
    <3>1. Good(lst[l], Used(l)) /\ lst[l] \in Entry
      BY DEF PortInv, Counted, ListenerTypes
    <3>2. lst[l].refs \in Nat
      BY <3>1 DEF Entry
    <3> QED
      BY <1>1, <1>10, <3>1, <3>2 DEF Good
  <2>2. held.l # None => held.n >= Used(held.l)
    BY DEF PortInv, Counted
  <2>3. held.n \in Nat
    BY DEF PortInv, ListenerTypes
  <2>4. held'.l # None => held'.n >= Use(cl', conn', oldC', cfg', held'.l, held'.l)
    <3>1. Use(cl', conn', oldC', cfg', held'.l, held.l) <= Used(held.l)
      BY <1>10
    <3>2. Use(cl', conn', oldC', cfg', held'.l, held.l) \in Nat /\ Used(held.l) \in Nat
      BY <1>10
    <3> QED
      BY <1>1, <2>2, <2>3, <3>1, <3>2
  <2> QED
    BY <2>1, <2>4 DEF Counted, Used
<1> QED
  BY <1>6, <1>7, <1>8, <1>9, <1>11 DEF PortInv

\* A new configuration: its structures are referred to by nobody else.
LEMMA ConfigurationRead ==
  ASSUME PortInv, NEW ports \in (SUBSET Port) \ {{}},
         C!Reload(SetToSeq(ports), SetToSeq(Listener \ C!Referred))
  PROVE  PortInv'
<1> DEFINE P == SetToSeq(ports)
           U == Listener \ C!Referred
           N == SetToSeq(U)
<1>1. /\ ctl = "idle" /\ Len(P) <= Len(N)
      /\ reloads < MaxReloads /\ reloads' = reloads + 1
      /\ cfg' = {N[i] : i \in DOMAIN P}
      /\ lst' = [l \in Listener |->
                    IF l \in cfg' THEN [port |-> P[CHOOSE i \in DOMAIN P : N[i] = l], refs |-> 1]
                    ELSE lst[l]]
      /\ oldC' = C!SetToSeq(cfg) /\ ctl' = "reload"
      /\ UNCHANGED <<held, sock, conn, failed, cl>>
      /\ UNCHANGED <<first, thr, crun, polled, redo, early, runningC>>
  BY DEF C!Reload, C!svars, C!tvars
<1>2. /\ lst \in [Listener -> Entry] /\ conn \in Seq(Listener) /\ oldC \in Seq(Listener)
      /\ cfg \in SUBSET Listener /\ sock \in Seq(Port)
  BY DEF PortInv, ListenerTypes
<1>3. oldC = <<>> /\ held.l = None
  BY <1>1 DEF PortInv, Phases
<1>4. IsFiniteSet(ports) /\ IsFiniteSet(U) /\ IsFiniteSet(cfg)
  <2>1. U \in SUBSET Listener
    OBVIOUS
  <2> HIDE DEF U
  <2> QED
    BY <1>2, <2>1, PortSettings, FS_Subset
<1>5. Lists(P, ports) /\ Lists(N, U) /\ Lists(oldC', cfg)
  <2> HIDE DEF U
  <2> QED
    BY <1>1, <1>4, Listed
<1>6. \A l \in U : /\ l \in Listener /\ l \notin cfg
                   /\ \A i \in DOMAIN conn : conn[i] # l
                   /\ \A c \in Client : cl[c].l # l
  BY DEF C!Referred, C!ToSet
<1> HIDE DEF P, U, N
<1>7. /\ DOMAIN P = 1 .. Len(P) /\ DOMAIN N = 1 .. Len(N) /\ Len(P) \in Nat /\ Len(N) \in Nat
      /\ \A i \in DOMAIN P : P[i] \in Port
      /\ \A i \in DOMAIN N : N[i] \in U
  <2>1. P \in Seq(ports) /\ N \in Seq(U)
    BY <1>5, ListIsSeq
  <2>2. /\ DOMAIN P = 1 .. Len(P) /\ DOMAIN N = 1 .. Len(N)
        /\ Len(P) \in Nat /\ Len(N) \in Nat
    BY <2>1
  <2>3. \A i \in DOMAIN P : P[i] \in ports
    BY <2>1, Indexed
  <2>4. \A i \in DOMAIN N : N[i] \in U
    BY <2>1, Indexed
  <2> QED
    BY <2>2, <2>3, <2>4
<1>8. cfg' \in SUBSET U
  <2>1. \A i \in DOMAIN P : i \in DOMAIN N
    BY <1>1, <1>7
  <2> QED
    BY <1>1, <1>7, <2>1
<1>9. oldC' \in Seq(Listener)
  BY <1>2, <1>5, ListSeq
<1>10. ASSUME NEW l \in cfg'
       PROVE  lst'[l] \in Entry /\ lst'[l].port # None /\ lst'[l].refs = 1
  <2> DEFINE j == CHOOSE i \in DOMAIN P : N[i] = l
  <2>1. \E i \in DOMAIN P : N[i] = l
    BY <1>1
  <2>2. j \in DOMAIN P
    BY <2>1
  <2>3. lst'[l] = [port |-> P[j], refs |-> 1]
    BY <1>1, <1>6, <1>8
  <2> HIDE DEF j
  <2>4. P[j] \in Port /\ P[j] # None
    BY <2>2, <1>7, PortSettings
  <2> QED
    BY <2>3, <2>4 DEF Entry
<1>11. \A l \in Listener : l \notin cfg' => lst'[l] = lst[l]
  BY <1>1
<1>12. lst' \in [Listener -> Entry]
  <2>1. ASSUME NEW l \in Listener PROVE lst'[l] \in Entry
    BY <1>2, <1>10, <1>11
  <2>2. lst' = [l \in Listener |-> lst'[l]]
    BY <1>1
  <2> QED
    BY <2>1, <2>2
<1>13. ListenerTypes'
  <2>1. cfg' \subseteq Listener
    BY <1>6, <1>8
  <2> QED
    BY <1>1, <1>9, <1>12, <2>1 DEF PortInv, ListenerTypes
<1>14. ThreadTypes'
  <2>1. reloads' \in 0 .. MaxReloads
    <3>1. reloads \in 0 .. MaxReloads /\ MaxReloads \in Nat
      BY PortSettings DEF PortInv, ThreadTypes
    <3>2. reloads < MaxReloads /\ reloads' = reloads + 1
      BY <1>1
    <3> QED
      BY ONLY <3>1, <3>2
  <2> QED
    BY <1>1, <2>1 DEF PortInv, ThreadTypes
<1>15. Phases'
  BY <1>1, <1>3 DEF Phases
<1>16. Connected' /\ ListenersFew'
  BY <1>1 DEF PortInv, Connected, ListenersFew
<1>17. ASSUME NEW l \in Listener
       PROVE  /\ On(cl, l) \in Nat /\ In(conn, l) \in Nat /\ One(l \in cfg) \in Nat
              /\ One(l \in cfg') \in Nat
              /\ Used(l) = On(cl, l) + In(conn, l) + One(l \in cfg)
              /\ Use(cl', conn', oldC', cfg', held'.l, l)
                    = On(cl, l) + In(conn, l) + One(l \in cfg) + One(l \in cfg')
  <2>1. /\ On(cl, l) \in Nat /\ In(conn, l) \in Nat /\ One(l \in cfg) \in Nat
        /\ One(l \in cfg') \in Nat
    BY <1>2, UseTyped, OneTyped
  <2>2. held.l = None /\ held'.l = None /\ One(l = None) = 0
    BY <1>1, <1>3, PortSettings DEF One
  <2>3. In(oldC, l) = 0
    BY <1>3, InNone
  <2>4. In(oldC', l) = One(l \in cfg)
    BY <1>5, InLists
  <2>5. Used(l) = On(cl, l) + In(conn, l) + In(oldC, l) + One(l \in cfg) + One(l = None)
    BY <2>2 DEF Used, Use
  <2>6. Use(cl', conn', oldC', cfg', held'.l, l)
           = On(cl, l) + In(conn, l) + In(oldC', l) + One(l \in cfg') + One(l = None)
    BY <1>1, <2>2 DEF Use
  <2> QED
    BY <2>1, <2>2, <2>3, <2>4, <2>5, <2>6
<1>18. ASSUME NEW l \in cfg'
       PROVE  Used(l) = 0 /\ Use(cl', conn', oldC', cfg', held'.l, l) = 1
  <2>1. /\ l \in Listener /\ l \notin cfg /\ \A i \in DOMAIN conn : conn[i] # l
        /\ \A c \in Client : cl[c].l # l
    BY <1>6, <1>8
  <2>2. On(cl, l) = 0 /\ In(conn, l) = 0
    <3>1. On(cl, l) \in Nat /\ ~(On(cl, l) > 0)
      BY <2>1, OnTyped
    <3>2. In(conn, l) \in Nat /\ ~(In(conn, l) > 0)
      BY <1>2, <2>1, InTyped
    <3> QED
      BY ONLY <3>1, <3>2
  <2>3. One(l \in cfg) = 0 /\ One(l \in cfg') = 1
    BY <2>1 DEF One
  <2> QED
    BY <1>17, <2>1, <2>2, <2>3
<1>19. ASSUME NEW l \in Listener, l \notin cfg'
       PROVE  Use(cl', conn', oldC', cfg', held'.l, l) = Used(l)
  <2>1. One(l \in cfg') = 0
    BY <1>19 DEF One
  <2> QED
    BY <1>17, <2>1
<1>20. Counted'
  <2>1. ASSUME NEW l \in Listener
        PROVE  Good(lst'[l], Use(cl', conn', oldC', cfg', held'.l, l))
    <3>1. CASE l \in cfg'
      BY <1>10, <1>18, <3>1 DEF Good
    <3>2. CASE l \notin cfg'
      BY <1>11, <1>19, <3>2 DEF PortInv, Counted
    <3> QED
      BY <3>1, <3>2
  <2>2. held'.l = None
    BY <1>1, <1>3
  <2> QED
    BY <2>1, <2>2 DEF Counted, Used
<1>21. Ports'
  <2>1. \A l \in Listener : lst'[l].port = lst[l].port \/ Use(cl, conn, oldC, cfg, held.l, l) = 0
    BY <1>11, <1>18 DEF Used
  <2>2. \A d \in Client : cl'[d].st # "none" =>
           cl[d].st # "none" /\ cl'[d].l = cl[d].l /\ cl'[d].port = cl[d].port
    BY <1>1
  <2>3. \A j \in DOMAIN conn' : \E m \in DOMAIN conn : conn'[j] = conn[m] /\ sock'[j] = sock[m]
    BY <1>1
  <2> QED
    BY <1>1, <1>13, <1>16, <2>1, <2>2, <2>3, PortsFollow DEF PortInv
<1> QED
  BY <1>13, <1>14, <1>15, <1>16, <1>20, <1>21 DEF PortInv

\* connection_listen_sockets_close: sockets that go give their structure to the reload.
LEMMA SocketsClosed ==
  ASSUME PortInv, C!CloseSockets
  PROVE  PortInv'
<1> DEFINE K == {i \in DOMAIN sock : C!Keeps(i)}
           S == {i \in DOMAIN sock : ~C!Keeps(i)}
           kept == C!Places(K)
           shut == C!Places(S)
           gone == Picked(conn, shut)
<1>1. /\ ctl = "close" /\ held.l = None
      /\ sock' = Picked(sock, kept) /\ conn' = Picked(conn, kept)
      /\ oldC' = gone \o oldC
      /\ redo' = TRUE /\ ctl' = "clear"
      /\ UNCHANGED <<lst, cfg, held, failed, cl>>
      /\ UNCHANGED <<first, thr, crun, polled, reloads, early, runningC>>
  BY DEF C!CloseSockets, C!KeptConn, C!tvars, Picked
<1>2. /\ lst \in [Listener -> Entry] /\ conn \in Seq(Listener) /\ oldC \in Seq(Listener)
      /\ sock \in Seq(Port) /\ Len(sock) = Len(conn)
  BY DEF PortInv, ListenerTypes
<1>3. DOMAIN conn = DOMAIN sock /\ DOMAIN sock = 1 .. Len(sock) /\ Len(sock) \in Nat
  BY <1>2
<1>4. /\ K \in SUBSET DOMAIN conn /\ S \in SUBSET DOMAIN conn /\ K \in SUBSET DOMAIN sock
      /\ K \cup S = DOMAIN conn /\ K \cap S = {}
  BY <1>3
<1> HIDE DEF K, S
<1>5. Lists(kept, K) /\ Lists(shut, S)
  <2>1. K \in SUBSET (1 .. Len(sock)) /\ S \in SUBSET (1 .. Len(sock))
    BY <1>3, <1>4
  <2> QED
    BY <1>3, <2>1, Placing
<1> HIDE DEF kept, shut
<1>6. ASSUME NEW l
      PROVE  /\ conn' \in Seq(Listener) /\ Len(conn') = Len(kept) /\ DOMAIN conn' = DOMAIN kept
             /\ In(conn', l) = Within(conn, K, l)
  BY <1>1, <1>2, <1>4, <1>5, InPlaces
<1>7. ASSUME NEW l
      PROVE  gone \in Seq(Listener) /\ In(gone, l) = Within(conn, S, l)
  BY <1>2, <1>4, <1>5, InPlaces
<1>8. sock' \in Seq(Port) /\ Len(sock') = Len(kept) /\ DOMAIN sock' = DOMAIN kept
  <2>1. /\ Picked(sock, kept) \in Seq(Port) /\ Len(Picked(sock, kept)) = Len(kept)
        /\ DOMAIN Picked(sock, kept) = DOMAIN kept
        /\ In(Picked(sock, kept), None) = Within(sock, K, None)
    BY <1>2, <1>4, <1>5, InPlaces
  <2> QED
    BY <1>1, <2>1
<1> HIDE DEF gone
<1>9. ASSUME NEW l
      PROVE  /\ oldC' \in Seq(Listener)
             /\ In(conn', l) + In(oldC', l) = In(conn, l) + In(oldC, l)
  <2>1. oldC' \in Seq(Listener) /\ In(oldC', l) = In(gone, l) + In(oldC, l)
    <3>1. gone \in Seq(Listener) /\ oldC \in Seq(Listener)
      BY <1>2, <1>7
    <3>2. gone \o oldC \in Seq(Listener)
      BY <3>1
    <3>3. In(gone \o oldC, l) = In(gone, l) + In(oldC, l)
      BY <3>1, InConcat
    <3> QED
      BY <1>1, <3>2, <3>3
  <2>2. In(conn, l) = Within(conn, K, l) + Within(conn, S, l)
    BY <1>2, <1>4, InSplit
  <2>3. In(conn', l) = Within(conn, K, l)
    BY <1>6
  <2>4. In(gone, l) = Within(conn, S, l)
    BY <1>7
  <2>5. In(conn', l) \in Nat /\ In(gone, l) \in Nat /\ In(oldC, l) \in Nat
    BY <1>2, <1>6, <1>7, InTyped
  <2>6. In(conn, l) = In(conn', l) + In(gone, l)
    BY ONLY <2>2, <2>3, <2>4, Zenon
  <2> QED
    BY <2>1, <2>5, <2>6
<1>10. ASSUME NEW l
       PROVE  Use(cl', conn', oldC', cfg', held'.l, l) = Used(l)
  <2>1. /\ On(cl, l) \in Nat /\ In(conn, l) \in Nat /\ In(oldC, l) \in Nat
        /\ One(l \in cfg) \in Nat /\ One(l = held.l) \in Nat
        /\ In(conn', l) \in Nat /\ In(oldC', l) \in Nat
    BY <1>2, <1>6, <1>9, UseTyped, InTyped
  <2>2. Use(cl', conn', oldC', cfg', held'.l, l)
           = On(cl, l) + In(conn', l) + In(oldC', l) + One(l \in cfg) + One(l = held.l)
    BY <1>1 DEF Use
  <2>3. Used(l) = On(cl, l) + In(conn, l) + In(oldC, l) + One(l \in cfg) + One(l = held.l)
    BY DEF Used, Use
  <2>4. In(conn', l) + In(oldC', l) = In(conn, l) + In(oldC, l)
    BY <1>9
  <2> QED
    BY <2>1, <2>2, <2>3, <2>4
<1>11. ListenerTypes'
  <2>1. conn' \in Seq(Listener) /\ oldC' \in Seq(Listener) /\ Len(sock') = Len(conn')
    BY <1>6, <1>8, <1>9
  <2> QED
    BY <1>1, <1>8, <2>1 DEF PortInv, ListenerTypes
<1>12. ThreadTypes'
  BY <1>1 DEF PortInv, ThreadTypes
<1>13. Phases'
  <2>1. thr = "none"
    BY <1>1 DEF PortInv, Phases
  <2> QED
    BY <1>1, <2>1 DEF Phases
<1>14. Connected' /\ ListenersFew'
  BY <1>1 DEF PortInv, Connected, ListenersFew
<1>15. Counted'
  <2>1. held'.l = None
    BY <1>1
  <2> QED
    BY <1>1, <1>10, <2>1 DEF PortInv, Counted, Used
<1>16. Ports'
  <2>1. \A d \in Client : cl'[d].st # "none" =>
           cl[d].st # "none" /\ cl'[d].l = cl[d].l /\ cl'[d].port = cl[d].port
    BY <1>1
  <2>2. ASSUME NEW j \in DOMAIN conn'
        PROVE  \E m \in DOMAIN conn : conn'[j] = conn[m] /\ sock'[j] = sock[m]
    <3>1. j \in DOMAIN kept
      BY <1>6, <2>2
    <3>2. kept[j] \in K
      BY <1>5, <3>1 DEF Lists
    <3> QED
      BY <1>1, <1>4, <3>1, <3>2 DEF Picked
  <2>3. \A l \in Listener : lst'[l].port = lst[l].port
    BY <1>1
  <2> QED
    BY <1>1, <1>11, <1>14, <2>1, <2>2, <2>3, PortsFollow DEF PortInv
<1> QED
  BY <1>11, <1>12, <1>13, <1>14, <1>15, <1>16 DEF PortInv

LEMMA SetupPhases ==
  ASSUME PortInv, thr = "new", thr' = "ready", UNCHANGED <<held, oldC, crun, ctl, early>>
  PROVE  Phases'
<1>1. /\ ctl \notin {"close", "clear"} /\ held.l = None
      /\ oldC # <<>> => ctl \in {"reload", "join reload", "close", "clear"}
      /\ ctl \in {"join reload", "join restart", "join halt"} => early
  BY DEF PortInv, Phases
<1>2. early => early'
  BY Zenon
<1> QED
  BY <1>1, <1>2 DEF Phases

\* What appending one list to another gives.
LEMMA Concatenated ==
  ASSUME NEW S, NEW s \in Seq(S), NEW t \in Seq(S)
  PROVE  /\ s \o t \in Seq(S)
         /\ Len(s \o t) = Len(s) + Len(t)
OBVIOUS

\* connection_setup_sockets: who is bound has a socket, who is not leaves the configuration.
LEMMA SocketsOpened ==
  ASSUME PortInv, NEW ok \in SUBSET cfg, C!SetupSockets(ok), ~first
  PROVE  PortInv'
<1> DEFINE add == SetToSeq(ok)
           bound == [i \in DOMAIN add |-> lst[add[i]].port]
<1>1. /\ cfg \in SUBSET Listener /\ lst \in [Listener -> Entry] /\ conn \in Seq(Listener)
      /\ oldC \in Seq(Listener) /\ sock \in Seq(Port) /\ Len(sock) = Len(conn)
  BY DEF PortInv, ListenerTypes
<1>2. IsFiniteSet(ok) /\ ok \in SUBSET Listener
  BY <1>1, PortSettings, FS_Subset
<1>3. Lists(add, ok) /\ C!SetToSeq(ok) = add
  BY <1>2, Listed
<1>4. /\ thr = "new" /\ thr' = "ready"
      /\ sock' = sock \o bound /\ conn' = conn \o add /\ cfg' = ok
      /\ lst' = [l \in Listener |-> IF l \in ok THEN [lst[l] EXCEPT !.refs = @ + 1]
                                    ELSE IF l \in cfg THEN C!Cleared(lst[l]) ELSE lst[l]]
      /\ UNCHANGED <<oldC, held, failed, cl>>
      /\ UNCHANGED <<first, crun, polled, ctl, reloads, redo, early, runningC>>
  BY <1>3 DEF C!SetupSockets, C!kvars
<1> HIDE DEF add
<1>5. add \in Seq(Listener) /\ DOMAIN add = 1 .. Len(add) /\ \A i \in DOMAIN add : add[i] \in ok
  <2>1. add \in Seq(Listener) /\ add \in Seq(ok)
    BY <1>2, <1>3, ListSeq, ListIsSeq
  <2>2. \A i \in DOMAIN add : add[i] \in ok
    BY <2>1, Indexed
  <2> QED
    BY <2>1, <2>2
<1>6. held.l = None
  BY <1>4 DEF PortInv, Phases
<1>7. ASSUME NEW l \in Listener
      PROVE  /\ Good(lst[l], Used(l)) /\ Used(l) \in Nat /\ lst[l] \in Entry
             /\ l \in cfg => Used(l) > 0
             /\ Use(cl', conn', oldC', cfg', held'.l, l)
                   = Used(l) + One(l \in ok) + One(l \in ok) - One(l \in cfg)
  <2>1. conn' \in Seq(Listener) /\ In(conn', l) = In(conn, l) + In(add, l)
    <3>1. In(conn \o add, l) = In(conn, l) + In(add, l)
      BY <1>1, <1>5, InConcat
    <3>2. conn \o add \in Seq(Listener)
      BY <1>1, <1>5
    <3> QED
      BY <1>4, <3>1, <3>2
  <2>2. In(add, l) = One(l \in ok)
    BY <1>3, InLists
  <2>3. /\ On(cl, l) \in Nat /\ In(conn, l) \in Nat /\ In(oldC, l) \in Nat
        /\ One(l \in cfg) \in Nat /\ One(l = held.l) \in Nat /\ One(l \in ok) \in Nat
        /\ Use(cl, conn, oldC, cfg, held.l, l) \in Nat
        /\ l \in cfg => Use(cl, conn, oldC, cfg, held.l, l) > 0
    BY <1>1, UseTyped, OneTyped
  <2>4. Use(cl', conn', oldC', cfg', held'.l, l)
           = On(cl, l) + In(conn', l) + In(oldC, l) + One(l \in ok) + One(l = held.l)
    BY <1>4 DEF Use
  <2>5. Used(l) = On(cl, l) + In(conn, l) + In(oldC, l) + One(l \in cfg) + One(l = held.l)
    BY DEF Used, Use
  <2>6. Good(lst[l], Used(l)) /\ lst[l] \in Entry
    BY <1>1 DEF PortInv, Counted
  <2>7. Use(cl', conn', oldC', cfg', held'.l, l)
           = Used(l) + One(l \in ok) + One(l \in ok) - One(l \in cfg)
    BY ONLY <2>1, <2>2, <2>3, <2>4, <2>5
  <2> QED
    BY <2>3, <2>6, <2>7 DEF Used
<1>8. ASSUME NEW l \in Listener
      PROVE  /\ lst'[l] \in Entry
             /\ Good(lst'[l], Use(cl', conn', oldC', cfg', held'.l, l))
             /\ Use(cl', conn', oldC', cfg', held'.l, l) > 0 => lst'[l].port = lst[l].port
             /\ l \in ok => lst'[l].port = lst[l].port
  <2>1. CASE l \in ok
    <3>1. l \in cfg /\ One(l \in ok) = 1 /\ One(l \in cfg) = 1
      BY <2>1 DEF One
    <3>2. Use(cl', conn', oldC', cfg', held'.l, l) = Used(l) + 1
      BY <1>7, <3>1
    <3>3. lst'[l] = [port |-> lst[l].port, refs |-> lst[l].refs + 1]
      BY <1>4, <1>7, <2>1 DEF Entry
    <3>4. Good(lst[l], Used(l)) /\ Used(l) \in Nat /\ lst[l] \in Entry /\ Used(l) > 0
      BY <1>7, <3>1
    <3> QED
      BY <3>2, <3>3, <3>4 DEF Good, Entry
  <2>2. CASE l \in cfg /\ l \notin ok
    <3>1. One(l \in ok) = 0 /\ One(l \in cfg) = 1
      BY <2>2 DEF One
    <3>2. Use(cl', conn', oldC', cfg', held'.l, l) = Used(l) - 1
      BY <1>7, <3>1
    <3>3. lst'[l] = C!Cleared(lst[l])
      BY <1>4, <2>2
    <3>4. Good(lst[l], Used(l)) /\ Used(l) \in Nat /\ lst[l] \in Entry /\ Used(l) > 0
      BY <1>7, <2>2
    <3>5. /\ C!Cleared(lst[l]) \in Entry /\ Good(C!Cleared(lst[l]), Used(l) - 1)
          /\ Used(l) - 1 > 0 => C!Cleared(lst[l]).port = lst[l].port
      BY <3>4, ClearedGood
    <3> QED
      BY <2>2, <3>2, <3>3, <3>5
  <2>3. CASE l \notin cfg
    <3>1. l \notin ok /\ One(l \in ok) = 0 /\ One(l \in cfg) = 0
      BY <2>3 DEF One
    <3>2. Use(cl', conn', oldC', cfg', held'.l, l) = Used(l)
      BY <1>7, <3>1
    <3>3. lst'[l] = lst[l]
      BY <1>4, <2>3, <3>1
    <3> QED
      BY <1>7, <3>2, <3>3
  <2> QED
    BY <2>1, <2>2, <2>3
<1>9. lst' \in [Listener -> Entry]
  <2>1. \A l \in Listener : lst'[l] \in Entry
    BY <1>8
  <2>2. lst' = [l \in Listener |-> lst'[l]]
    BY <1>4
  <2> QED
    BY <2>1, <2>2
<1>10. /\ bound \in Seq(Port) /\ Len(bound) = Len(add)
       /\ \A i \in DOMAIN add : bound[i] = lst[add[i]].port
  <2>1. ASSUME NEW i \in DOMAIN add PROVE lst[add[i]].port \in Port
    <3>1. add[i] \in Listener /\ add[i] \in cfg
      BY <1>2, <1>5
    <3>2. Good(lst[add[i]], Used(add[i])) /\ Used(add[i]) > 0 /\ lst[add[i]] \in Entry
      BY <1>7, <3>1
    <3> QED
      BY <3>2 DEF Good, Entry
  <2>2. Len(add) \in Nat
    BY <1>5
  <2>3. bound \in [1 .. Len(add) -> Port]
    BY <1>5, <2>1
  <2>4. \A i \in DOMAIN add : bound[i] = lst[add[i]].port
    OBVIOUS
  <2> HIDE DEF bound
  <2> QED
    BY <2>2, <2>3, <2>4
<1> HIDE DEF bound
<1>11. ListenerTypes'
  <2>1. conn \o add \in Seq(Listener) /\ Len(conn \o add) = Len(conn) + Len(add)
    BY <1>1, <1>5, Concatenated
  <2>2. sock \o bound \in Seq(Port) /\ Len(sock \o bound) = Len(sock) + Len(bound)
    BY <1>1, <1>10, Concatenated
  <2>3. sock' \in Seq(Port) /\ conn' \in Seq(Listener) /\ Len(sock') = Len(conn')
    BY <1>1, <1>4, <1>10, <2>1, <2>2
  <2>4. cfg' \subseteq Listener
    BY <1>2, <1>4
  <2> QED
    BY <1>4, <1>9, <2>3, <2>4 DEF PortInv, ListenerTypes
<1>12. ThreadTypes'
  BY <1>4 DEF PortInv, ThreadTypes
<1>13. Phases'
  BY <1>4, SetupPhases
<1>14. Connected' /\ ListenersFew'
  BY <1>4 DEF PortInv, Connected, ListenersFew
<1>15. Counted'
  <2>1. held'.l = None
    BY <1>4, <1>6
  <2> QED
    BY <1>8, <2>1 DEF Counted, Used
<1>16. Ports'
  <2>1. \A d \in Client : cl'[d].st # "none" =>
           cl[d].st # "none" /\ cl'[d].l = cl[d].l /\ cl'[d].port = cl[d].port
    BY <1>4
  <2> DEFINE n == Len(conn)
  <2>2. /\ n \in Nat /\ DOMAIN conn = 1 .. n /\ DOMAIN sock = 1 .. n
        /\ DOMAIN conn' = 1 .. n + Len(add) /\ Len(add) \in Nat
        /\ \A i \in 1 .. n : conn'[i] = conn[i] /\ sock'[i] = sock[i]
        /\ \A i \in 1 .. Len(add) : conn'[n + i] = add[i] /\ sock'[n + i] = bound[i]
    BY <1>1, <1>4, <1>5, <1>10
  <2> HIDE DEF n
  <2>3. ASSUME NEW j \in DOMAIN conn'
        PROVE  \/ lst'[conn'[j]].port = sock'[j]
               \/ \E m \in DOMAIN conn : conn'[j] = conn[m] /\ sock'[j] = sock[m]
    <3>1. CASE j \in 1 .. n
      BY <2>2, <3>1
    <3>2. CASE j \notin 1 .. n
      <4>1. j - n \in 1 .. Len(add) /\ n + (j - n) = j
        BY <2>2, <2>3, <3>2
      <4>2. conn'[j] = add[j - n] /\ sock'[j] = bound[j - n]
        BY <2>2, <4>1
      <4>3. add[j - n] \in ok /\ bound[j - n] = lst[add[j - n]].port
        BY <1>5, <1>10, <4>1
      <4>4. lst'[add[j - n]].port = lst[add[j - n]].port
        BY <1>2, <1>8, <4>3
      <4> QED
        BY <4>2, <4>3, <4>4
    <3> QED
      BY <3>1, <3>2
  <2>4. \A l \in Listener : Use(cl', conn', oldC', cfg', held'.l, l) > 0 =>
            lst'[l].port = lst[l].port
    BY <1>8
  <2> QED
    BY <1>4, <1>11, <1>14, <2>1, <2>3, <2>4, PortsFollow DEF PortInv
<1> QED
  BY <1>11, <1>12, <1>13, <1>14, <1>15, <1>16 DEF PortInv

LEMMA SocketsSetUp ==
  ASSUME PortInv, NEW ok \in SUBSET cfg, C!SetupSockets(ok)
  PROVE  PortInv'
<1>1. CASE first
  <2>1. /\ UNCHANGED <<lst, cfg, oldC, held, sock, conn, failed, cl>>
        /\ thr = "new" /\ thr' = "ready" /\ first' = FALSE
        /\ UNCHANGED <<crun, polled, ctl, reloads, redo, early, runningC>>
    BY <1>1 DEF C!SetupSockets, C!kvars
  <2>2. ThreadTypes'
    BY <2>1 DEF PortInv, ThreadTypes
  <2>3. Phases'
    BY <2>1, SetupPhases
  <2> QED
    BY <2>1, <2>2, <2>3, OthersKeep
<1>2. CASE ~first
  BY <1>2, SocketsOpened
<1> QED
  BY <1>1, <1>2

LEMMA PortStart ==
  ASSUME C!Init PROVE PortInv
<1> DEFINE k == CHOOSE l \in Listener : TRUE
<1>1. PICK p \in Port :
         /\ lst = [x \in Listener |-> IF x = k THEN [port |-> p, refs |-> 2] ELSE C!NoListener]
         /\ cfg = {k} /\ sock = <<p>> /\ conn = <<k>>
  BY DEF C!Init
<1>2. /\ oldC = <<>> /\ held = [l |-> None, n |-> 0]
      /\ first = TRUE /\ failed = FALSE /\ thr = "none" /\ crun = FALSE /\ polled = None
      /\ ctl = "start" /\ reloads = 0 /\ redo = FALSE /\ early = FALSE /\ runningC = TRUE
      /\ cl = [c \in Client |-> [st |-> "none", l |-> None, port |-> None]]
  BY DEF C!Init, C!NoClient
<1>3. k \in Listener
  BY PortSettings
<1> HIDE DEF k
<1>4. ListenerTypes
  <2>1. lst \in [Listener -> Entry]
    BY <1>1 DEF Entry, C!NoListener
  <2>2. sock \in Seq(Port) /\ conn \in Seq(Listener) /\ Len(sock) = 1 /\ Len(conn) = 1
    BY <1>1, <1>3
  <2>3. cl \in [Client -> [st : C!Stages, l : Listener \cup {None}, port : Port \cup {None}]]
    BY <1>2 DEF C!Stages
  <2>4. /\ oldC \in Seq(Listener) /\ held \in [l : Listener \cup {None}, n : Nat]
        /\ cfg \subseteq Listener
    BY <1>1, <1>2, <1>3
  <2> QED
    BY <2>1, <2>2, <2>3, <2>4 DEF ListenerTypes
<1>5. ThreadTypes
  <2>1. 0 \in 0 .. MaxReloads
    BY PortSettings
  <2> QED
    BY <1>2, <2>1 DEF ThreadTypes
<1>6. Phases
  BY <1>2 DEF Phases
<1>7. Connected
  BY <1>2 DEF Connected
<1>8. ASSUME NEW l \in Listener PROVE Good(lst[l], Used(l))
  <2>1. On(cl, l) \in Nat /\ ~(On(cl, l) > 0)
    BY <1>2, OnTyped, PortSettings
  <2>2. In(conn, l) = One(k = l) /\ In(oldC, l) = 0
    BY <1>1, <1>2, InOne, InNone
  <2>3. One(l = held.l) = 0
    BY <1>2, PortSettings DEF One
  <2>4. Used(l) = On(cl, l) + In(conn, l) + In(oldC, l) + One(l \in cfg) + One(l = held.l)
    BY DEF Used, Use
  <2>5. CASE l = k
    <3>1. One(k = l) = 1 /\ One(l \in cfg) = 1
      BY <1>1, <2>5 DEF One
    <3>2. Used(l) = 2
      BY ONLY <2>1, <2>2, <2>3, <2>4, <3>1
    <3>3. lst[l] = [port |-> p, refs |-> 2] /\ p # None
      BY <1>1, <2>5, PortSettings
    <3> QED
      BY <3>2, <3>3 DEF Good
  <2>6. CASE l # k
    <3>1. One(k = l) = 0 /\ One(l \in cfg) = 0
      BY <1>1, <2>6 DEF One
    <3>2. Used(l) = 0
      BY ONLY <2>1, <2>2, <2>3, <2>4, <3>1
    <3> QED
      BY <3>2 DEF Good
  <2> QED
    BY <2>5, <2>6
<1>9. Counted
  BY <1>2, <1>8 DEF Counted
<1>10. Ports
  <2>1. \A c \in Client : cl[c].st = "none"
    BY <1>2
  <2>2. \A i \in DOMAIN conn : lst[conn[i]].port = sock[i]
    BY <1>1, <1>3
  <2> QED
    BY <2>1, <2>2 DEF Ports
<1>11. ListenersFew
  <2>1. {c \in Client : cl[c].st = "listen"} = {}
    BY <1>2
  <2>2. Cardinality({c \in Client : cl[c].st = "listen"}) = 0
    BY <2>1, FS_EmptySet
  <2> QED
    BY <2>2, PortSettings DEF ListenersFew
<1> QED
  BY <1>4, <1>5, <1>6, <1>7, <1>9, <1>10, <1>11 DEF PortInv

PortsInv == part = "connections" => PortInv

LEMMA ConnectionsSame ==
  ASSUME PortInv, UNCHANGED connectionsVars PROVE PortInv'
<1>1. UNCHANGED <<lst, cfg, oldC, held, sock, conn, failed, cl>>
  BY DEF connectionsVars
<1>2. UNCHANGED <<held, oldC, first, failed, thr, crun, polled, ctl, reloads, redo, early,
                  runningC>>
  BY DEF connectionsVars
<1> QED
  BY <1>1, <1>2, ThreadsSame, OthersKeep

LEMMA PortsStep ==
  ASSUME PortsInv, [MCNext]_allVars PROVE PortsInv'
<1> SUFFICES ASSUME part' = "connections" PROVE PortInv'
  BY DEF PortsInv
<1>1. CASE UNCHANGED allVars
  BY <1>1, ConnectionsSame DEF PortsInv, allVars
<1>2. CASE MCNext
  <2>1. part = "connections" /\ PortInv
    BY <1>2 DEF MCNext, OnlyFiles, OnlyConnections, OnlyRedirectors, PortsInv
  <2>2. \/ \/ C!Shutdown("reload", "join reload", "close") \/ C!Joined("join reload", "close")
           \/ C!Shutdown("halt", "join halt", "end") \/ C!Joined("join halt", "end")
           \/ C!Startup \/ C!Restart \/ C!Joined("join restart", "start")
           \/ C!ReloadEnds \/ C!Halt \/ C!SetRunning \/ C!LoopEnds \/ C!Signal
           \/ C!SignalFails \/ C!AcceptDrops \/ \E i \in DOMAIN sock : C!Poll(i)
        \/ C!ClearRead \/ C!ClearWrite
        \/ \E ports \in (SUBSET Port) \ {{}} :
              C!Reload(SetToSeq(ports), SetToSeq(Listener \ C!Referred))
        \/ C!CloseSockets
        \/ \E ok \in SUBSET cfg : C!SetupSockets(ok)
        \/ \E i \in DOMAIN sock : C!SocketFails(i)
        \/ \E c \in Client : C!AcceptClient(c)
        \/ \E c \in Client : C!Drop(c)
        \/ \E c \in Client : \/ C!IcyPassword(c) \/ C!IcyReply(c) \/ C!DispatchListen(c)
                             \/ C!DispatchOther(c) \/ C!KeepAlive(c)
    BY <1>2, <2>1 DEF MCNext
  <2> QED
    BY <2>1, <2>2, ThreadsGoOn, CountRead, CountWritten, ConfigurationRead, SocketsClosed,
       SocketsSetUp, SocketGone, ClientAccepted, ClientEnds, ClientsGoOn
<1> QED
  BY <1>1, <1>2

LEMMA PortsSound ==
  ASSUME PortsInv PROVE PortsKept
<1> SUFFICES ASSUME part = "connections", PortInv PROVE C!PortsKept
  BY DEF PortsInv, PortsKept
<1>1. C!TypeOK
  BY DEF PortInv, ListenerTypes, ThreadTypes, Entry, C!TypeOK
<1>2. ASSUME NEW l PROVE C!Uses(l) = Used(l)
  BY SameCount DEF C!Uses, Used, Use, On, In, One
<1>3. C!ListenerAlive
  BY <1>2 DEF C!ListenerAlive, PortInv, Counted, Good
<1>4. C!PortMatches
  BY DEF C!PortMatches, PortInv, Ports
<1>5. C!ListenBounded
  BY SameCount DEF C!ListenBounded, PortInv, ListenersFew
<1>6. C!StopHeard
  BY DEF C!StopHeard, PortInv, Phases
<1> QED
  BY <1>1, <1>3, <1>4, <1>5, <1>6 DEF C!PortsKept

(* Whatever the ports, structures, clients and limits, over reloads that keep some sockets and *)
(* close others, restarts and stops of the accepting thread, a socket that fails and clients   *)
(* that outlive theirs (connection.c): a listener_t in use is not freed although the reload    *)
(* counts it down without the lock, a client has the settings of the port it came to until a   *)
(* socket failed, the client limit holds, and a thread that is told to stop hears it.          *)
THEOREM PortsStayKept == MCSpec => []PortsKept
<1>1. MCInit => PortsInv
  BY PortStart DEF MCInit, PortsInv
<1>2. PortsInv /\ [MCNext]_allVars => PortsInv'
  BY PortsStep
<1>3. PortsInv => PortsKept
  BY PortsSound
<1> QED
  BY <1>1, <1>2, <1>3, PTL DEF MCSpec
=============================================================================
