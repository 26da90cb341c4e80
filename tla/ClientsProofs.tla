---------------------------- MODULE ClientsProofs ----------------------------
(***************************************************************************)
(* What a client is told when it comes: proofs of BansExact for every set  *)
(* of addresses, of files and of bans, and of AnswersOwn for every set of  *)
(* clients and of threads.                                                 *)
(*                                                                         *)
(* The tree of bans is related to the file and to the bans given address   *)
(* by address: unless it had two entries or the list lost a ban of it, an  *)
(* address has no entry and neither the file nor a ban has it, or it has   *)
(* one entry for just one reason: the file, one client that goes with its  *)
(* ban, or a timed ban with the time of the entry.  That lookups of other  *)
(* addresses throw out no entry that holds needs the two intervals of the  *)
(* code compared: the next look at the file is never more than Period      *)
(* ahead, and an entry is thrown out only Hold before it.                  *)
(*                                                                         *)
(* The threads of an authenticator are related to their clients: each has  *)
(* the client of its request until it answers, no two have the same, and   *)
(* the location, buffers and flags are those of the request it is at.      *)
(***************************************************************************)
EXTENDS MCClients, FiniteSetTheorems, FunctionTheorems, TLAPS

(***************************************************************************)
(* The ban list: the inductive invariant                                   *)
(***************************************************************************)
Clocks ==
    /\ recheck \in Nat /\ mtime \in Nat /\ time \in Nat /\ 2 <= time /\ time <= LastTime
    /\ recheck <= time + Period
    /\ named \in Nat /\ named <= time /\ (named = NotNamed => mtime = 0)
    /\ file \in [lines : Files, at : Nat, there : {"yes", "shut", "gone"}]
    /\ file.at >= 1

AnswerKinds == [banned : BOOLEAN, due : BOOLEAN, two : BOOLEAN, forgot : BOOLEAN]

Kinds ==
    /\ wildcards \in BOOLEAN /\ missed \in BOOLEAN /\ reused \in BOOLEAN
    /\ wildcards <=> WildLine \in loaded
    /\ asks \in Ip \cup {NoData}
    /\ answer \in AnswerKinds
    /\ ends \in [Ip -> Nat] /\ holders \in [Ip -> Nat]
    /\ twice \subseteq Ip /\ forgot \subseteq Ip /\ loaded \subseteq Ip \cup {WildLine}

Shape ==
    /\ tree = NoTree => loaded = {}
    /\ tree # NoTree => tree \subseteq Entries /\ IsFiniteSet(tree)

(* what address i has in tree t, when h clients go with a ban of it and the latest of its  *)
(* timed bans ends at u                                                                    *)
Agrees(t, i, h, u) ==
    LET own == {e \in t : e.ip = i} IN
    \/ own = {} /\ i \notin loaded /\ h = 0 /\ u <= time
    \/ \E e \in own :
          /\ own = {e}
          /\ \/ e.till = 0 /\ u <= time /\ i \in loaded /\ h = 0
             \/ e.till = 0 /\ u <= time /\ i \notin loaded /\ h = 1
             \/ e.till # 0 /\ e.till = u /\ i \notin loaded /\ h = 0

(* with no tree nothing holds; a tree has what holds *)
Matches ==
    \A i \in Ip : i \notin twice \cup forgot =>
        IF tree = NoTree THEN holders[i] = 0 /\ ends[i] <= time
        ELSE Agrees(tree, i, holders[i], ends[i])

(* a list that was read when the file last changed has its lines *)
Read == file.at = mtime /\ ~missed => loaded = file.lines

BanInv == Clocks /\ Kinds /\ Shape /\ Matches /\ AnswerExact /\ Read /\ FileHeeded

(***************************************************************************)
(* Entries                                                                 *)
(***************************************************************************)

\* add_banned_ip for the lines of a file: one entry for each address, without a timeout.
LEMMA ReadLines ==
  ASSUME Settings, NEW lines \in Files
  PROVE  LET t == FromFile(lines) IN
           /\ t \subseteq Entries /\ IsFiniteSet(t)
           /\ \A i \in Ip : LET own == {e \in t : e.ip = i} IN
                 IF i \in lines THEN \E e \in own : own = {e} /\ e.till = 0 ELSE own = {}
<1> DEFINE ips == lines \ {WildLine}
<1> DEFINE many == Cardinality(ips)
<1> DEFINE Numbers == {f \in [ips -> 1 .. many] : \A i, j \in ips : i # j => f[i] # f[j]}
<1> DEFINE num == CHOOSE f \in [ips -> 1 .. many] : \A i, j \in ips : i # j => f[i] # f[j]
<1> DEFINE entry == [i \in ips |-> Entry(i, 0, num[i])]
<1> DEFINE t == {Entry(i, 0, num[i]) : i \in ips}
<1>1. /\ IsFiniteSet(ips) /\ many \in Nat /\ many <= MaxEntries /\ ips \subseteq Ip
      /\ MaxEntries \in Nat
  <2>1. IsFiniteSet(lines) /\ Cardinality(lines) <= MaxEntries /\ ips \in SUBSET lines
    BY DEF Settings
  <2>2. /\ IsFiniteSet(ips) /\ many \in Nat /\ many <= Cardinality(lines)
        /\ Cardinality(lines) \in Nat
    BY <2>1, FS_Subset, FS_CardinalityType
  <2> QED
    BY <2>1, <2>2 DEF Settings
<1>2. \E f \in [ips -> 1 .. many] : \A i, j \in ips : i # j => f[i] # f[j]
  <2>1. PICK g \in Bijection(1 .. many, ips) : TRUE
    BY <1>1, FS_CardinalityType DEF ExistsBijection
  <2>2. Inverse(g, 1 .. many, ips) \in Bijection(ips, 1 .. many)
    BY <2>1, Fun_BijInverse
  <2> DEFINE f == Inverse(g, 1 .. many, ips)
  <2> HIDE DEF f
  <2>3. f \in Bijection(ips, 1 .. many)
    BY <2>2 DEF f
  <2> HIDE DEF ips, many
  <2>4. f \in [ips -> 1 .. many]
    BY <2>3, Fun_BijectionProperties
  <2>5. \A i, j \in ips : f[i] = f[j] => i = j
    BY <2>3, Fun_BijectionProperties
  <2> QED
    BY <2>4, <2>5
<1>3. num \in [ips -> 1 .. many] /\ \A i, j \in ips : i # j => num[i] # num[j]
  BY <1>2
<1> HIDE DEF num, many
<1>4. \A i \in ips : /\ Entry(i, 0, num[i]) \in Entries /\ Entry(i, 0, num[i]).ip = i
                    /\ Entry(i, 0, num[i]).till = 0
  BY <1>1, <1>3 DEF Entry, Entries
<1>5. t \subseteq Entries
  BY <1>4
<1>6. IsFiniteSet(t)
  <2>1. entry \in Surjection(ips, t)
    BY DEF Surjection
  <2> QED
    BY <2>1, <1>1, FS_Surjection
<1>7. ASSUME NEW i \in Ip
      PROVE  LET own == {e \in t : e.ip = i} IN
               IF i \in lines THEN \E e \in own : own = {e} /\ e.till = 0 ELSE own = {}
  <2> DEFINE own == {e \in t : e.ip = i}
  <2>1. i \in lines <=> i \in ips
    BY DEF Settings
  <2>2. CASE i \in ips
    <3>1. Entry(i, 0, num[i]) \in own /\ Entry(i, 0, num[i]).till = 0
      BY <2>2, <1>4
    <3>2. own = {Entry(i, 0, num[i])}
      BY <2>2, <1>4
    <3> QED
      BY <2>1, <2>2, <3>1, <3>2
  <2>3. CASE i \notin ips
    BY <2>1, <2>3, <1>4
  <2> QED
    BY <2>2, <2>3
<1>8. FromFile(lines) = t
  BY DEF FromFile, num, many
<1> HIDE DEF t
<1> QED
  BY <1>5, <1>6, <1>7, <1>8

\* While the tree has room there is a number that no entry has.
LEMMA Numbered ==
  ASSUME Settings, tree \subseteq Entries, IsFiniteSet(tree), Cardinality(tree) < MaxEntries
  PROVE  FreeNumber \in 1 .. MaxEntries
<1>1. \E n \in 1 .. MaxEntries : \A e \in tree : e.n # n
  <2> SUFFICES ASSUME \A n \in 1 .. MaxEntries : \E e \in tree : e.n = n PROVE FALSE
    OBVIOUS
  <2> DEFINE f == [n \in 1 .. MaxEntries |-> CHOOSE e \in tree : e.n = n]
  <2>1. \A n \in 1 .. MaxEntries : f[n] \in tree /\ f[n].n = n
    OBVIOUS
  <2>2. f \in [1 .. MaxEntries -> tree]
    BY <2>1
  <2>3. /\ IsFiniteSet(1 .. MaxEntries) /\ Cardinality(1 .. MaxEntries) = MaxEntries
        /\ MaxEntries \in Nat
    <3>1. MaxEntries \in Nat /\ MaxEntries \in Int /\ 1 \in Int
      BY DEF Settings
    <3>2. /\ IsFiniteSet(1 .. MaxEntries)
          /\ Cardinality(1 .. MaxEntries) = IF 1 > MaxEntries THEN 0 ELSE MaxEntries - 1 + 1
      BY <3>1, FS_Interval
    <3> QED
      BY <3>1, <3>2
  <2> HIDE DEF f
  <2>4. PICK m, n \in 1 .. MaxEntries : m # n /\ f[m] = f[n]
    BY <2>2, <2>3, FS_PigeonHole
  <2> QED
    BY <2>1, <2>4
<1> QED
  BY <1>1 DEF FreeNumber

\* The answer that a lookup leaves behind.
LEMMA Answered ==
  ASSUME NEW i, NEW banned \in BOOLEAN, Answer(i, banned),
         i \in twice \/ i \in forgot \/ (banned <=> IsDue(i))
  PROVE  answer' \in AnswerKinds /\ AnswerExact'
<1>1. IsDue(i) \in BOOLEAN /\ (i \in twice) \in BOOLEAN /\ (i \in forgot) \in BOOLEAN
  BY DEF IsDue
<1>2. answer' = [banned |-> banned, due |-> IsDue(i), two |-> i \in twice, forgot |-> i \in forgot]
  BY DEF Answer
<1>3. answer' \in AnswerKinds
  BY <1>1, <1>2 DEF AnswerKinds
<1>4. /\ answer'.two = (i \in twice) /\ answer'.forgot = (i \in forgot)
      /\ answer'.banned = banned /\ answer'.due = IsDue(i)
  BY <1>2
<1>5. AnswerExact'
  BY <1>1, <1>4 DEF AnswerExact
<1> QED
  BY <1>3, <1>5

\* A lookup throws out none of the bans that still hold, but for the exceptions.
LEMMA Thrown ==
  ASSUME Settings, BanInv, tree # NoTree, asks \in Ip,
         NEW noted \in SUBSET {e \in tree : e.ip # asks /\ Stale(e)},
         NEW gone \in Removals(noted)
  PROVE  /\ \A j \in Ip \ {asks} : j \notin twice \cup forgot =>
                 Agrees(tree \ gone, j, holders[j], ends[j])
         /\ {e \in tree \ gone : e.ip = asks} = Of(asks)
         /\ tree \ gone \subseteq Entries /\ IsFiniteSet(tree \ gone)
<1>1. gone \subseteq tree /\ \A e \in gone : \E s \in noted : s.ip = e.ip
  BY DEF Removals
<1>2. {e \in tree \ gone : e.ip = asks} = Of(asks)
  BY <1>1 DEF Of
<1>3. tree \subseteq Entries /\ IsFiniteSet(tree)
  BY DEF BanInv, Shape
<1>4. tree \ gone \subseteq Entries /\ IsFiniteSet(tree \ gone)
  BY <1>3, FS_Difference
<1>5. ASSUME NEW j \in Ip \ {asks}, j \notin twice \cup forgot
      PROVE  Agrees(tree \ gone, j, holders[j], ends[j])
  <2>1. Agrees(tree, j, holders[j], ends[j])
    BY <1>5 DEF BanInv, Matches
  <2>2. CASE {e \in tree : e.ip = j} = {}
    <3>1. {e \in tree \ gone : e.ip = j} = {}
      BY <2>2
    <3> QED
      BY <2>1, <2>2, <3>1 DEF Agrees
  <2>3. CASE {e \in tree : e.ip = j} # {}
    <3>1. PICK e \in tree : /\ e.ip = j /\ {x \in tree : x.ip = j} = {e}
                            /\ e.till # 0 => e.till = ends[j] /\ j \notin loaded /\ holders[j] = 0
      BY <2>1, <2>3 DEF Agrees
    <3>2. CASE e \notin gone
      <4>1. {x \in tree \ gone : x.ip = j} = {x \in tree : x.ip = j}
        BY <3>1, <3>2
      <4> QED
        BY <2>1, <4>1 DEF Agrees
    <3>3. CASE e \in gone
      <4>1. PICK s \in noted : s.ip = j
        BY <3>1, <3>3, <1>1
      <4>2. s = e /\ Stale(e)
        BY <3>1, <4>1
      <4>3. e.till # 0 /\ e.till < recheck - Hold /\ e.till \in Nat
        BY <4>2, <1>3, <3>1 DEF Stale, Entries
      <4>4. recheck \in Nat /\ time \in Nat /\ recheck <= time + Period
        BY DEF BanInv, Clocks
      <4>5. Period \in Nat /\ Hold \in Nat /\ Period <= Hold
        BY DEF Settings
      <4>6. ends[j] <= time
        BY <3>1, <4>3, <4>4, <4>5
      <4>7. {x \in tree \ gone : x.ip = j} = {}
        BY <3>1, <3>3
      <4> QED
        BY <3>1, <4>3, <4>6, <4>7 DEF Agrees
    <3> QED
      BY <3>2, <3>3
  <2> QED
    BY <2>2, <2>3
<1> QED
  BY <1>2, <1>4, <1>5

(***************************************************************************)
(* The actions                                                             *)
(***************************************************************************)

\* The list is thrown away, for nothing or for the lines of the file: the bans that run are
\* the ones it forgets.
LEMMA ListPruned ==
  ASSUME Settings, BanInv, UNCHANGED <<ends, holders, time>>,
         NEW t, NEW lines, Pruned(t, lines),
         (t = NoTree /\ lines = {}) \/ (t = FromFile(lines) /\ lines \in Files)
  PROVE  Shape' /\ Matches' /\ (wildcards' <=> WildLine \in loaded') /\ wildcards' \in BOOLEAN
         /\ twice' \subseteq Ip /\ forgot' \subseteq Ip /\ loaded' \subseteq Ip \cup {WildLine}
<1>1. /\ tree' = t /\ wildcards' = (WildLine \in lines) /\ loaded' = lines /\ twice' = {}
      /\ forgot' = {i \in Ip : Running(i)}
  BY DEF Pruned
<1>2. ends \in [Ip -> Nat] /\ holders \in [Ip -> Nat] /\ time \in Nat
  BY DEF BanInv, Kinds, Clocks
<1>3. \A i \in Ip : i \notin forgot' => holders'[i] = 0 /\ ends'[i] <= time'
  BY <1>1, <1>2 DEF Running
<1>4. /\ (wildcards' <=> WildLine \in loaded') /\ wildcards' \in BOOLEAN
      /\ twice' \subseteq Ip /\ forgot' \subseteq Ip
  <2>1. (WildLine \in lines) \in BOOLEAN
    OBVIOUS
  <2>2. wildcards' \in BOOLEAN /\ (wildcards' <=> WildLine \in loaded')
    BY <2>1, <1>1, Zenon
  <2> QED
    BY <2>2, <1>1
<1>5. CASE t = NoTree /\ lines = {}
  <2>1. Shape' /\ loaded' \subseteq Ip \cup {WildLine}
    BY <1>1, <1>5 DEF Shape
  <2>2. Matches'
    BY <1>1, <1>3, <1>5 DEF Matches
  <2> QED
    BY <1>4, <2>1, <2>2
<1>6. CASE t = FromFile(lines) /\ lines \in Files
  <2>1. /\ t \subseteq Entries /\ IsFiniteSet(t)
        /\ \A j \in Ip : LET own == {e \in t : e.ip = j} IN
              IF j \in lines THEN \E e \in own : own = {e} /\ e.till = 0 ELSE own = {}
    BY <1>6, ReadLines
  <2>2. t # NoTree
    BY <2>1 DEF NoTree, Settings
  <2>3. Shape' /\ loaded' \subseteq Ip \cup {WildLine}
    BY <1>1, <1>6, <2>1, <2>2 DEF Shape, Settings
  <2>4. ASSUME NEW j \in Ip, j \notin forgot'
        PROVE  Agrees(tree, j, holders[j], ends[j])'
    <3>1. holders'[j] = 0 /\ ends'[j] <= time'
      BY <1>3, <2>4
    <3>2. CASE j \in lines
      BY <1>1, <2>1, <3>1, <3>2 DEF Agrees
    <3>3. CASE j \notin lines
      BY <1>1, <2>1, <3>1, <3>3 DEF Agrees
    <3> QED
      BY <3>2, <3>3
  <2>5. Matches'
    BY <1>1, <2>2, <2>4 DEF Matches
  <2> QED
    BY <1>4, <2>3, <2>5
<1> QED
  BY <1>5, <1>6

\* cached_file_recheck reads the file again if its time has changed.
LEMMA Accepts ==
  ASSUME Settings, BanInv, NEW i \in Ip, AcceptIpAddress(i)
  PROVE  BanInv'
<1>1. /\ Clocks /\ Kinds /\ Shape /\ Matches /\ Read /\ FileHeeded
      /\ UNCHANGED <<named, ends, holders, file, edits, time, reused>>
      /\ asks' = i /\ answer' = Quiet /\ CachedFileRecheck
  BY DEF BanInv, AcceptIpAddress
<1>2. answer' \in AnswerKinds /\ AnswerExact'
  BY <1>1 DEF Quiet, AnswerExact, AnswerKinds
<1>3. CASE /\ UNCHANGED <<tree, wildcards, mtime, loaded, missed, twice, forgot>>
           /\ recheck' = recheck \/ (recheck' = NextRecheck(time) /\
                                      (file.there = "gone" \/ file.at = mtime))
  <2>1. recheck' \in Nat /\ recheck' <= time + Period
        /\ (recheck' = recheck \/ file.there = "gone" \/ file.at = mtime)
    BY <1>1, <1>3 DEF NextRecheck, Clocks, Settings
  <2>2. Clocks' /\ Kinds' /\ Shape'
    BY <2>1, <1>1, <1>2, <1>3 DEF Clocks, Kinds, Shape
  <2>3. Matches' /\ Read'
    BY <1>1, <1>3 DEF Matches, Read, Agrees
  <2>4. FileHeeded'
    BY <2>1, <1>1, <1>3 DEF FileHeeded, Read
  <2> QED
    BY <2>2, <2>3, <2>4, <1>2 DEF BanInv
<1>4. CASE /\ recheck' = NextRecheck(time) /\ mtime' = file.at /\ missed' = TRUE
           /\ named # NotNamed
           /\ UNCHANGED <<tree, wildcards, loaded, twice, forgot>>
  <2>1. Clocks' /\ Kinds' /\ Shape'
    BY <1>1, <1>2, <1>4 DEF Clocks, Kinds, Shape, NextRecheck, Settings
  <2>2. Matches' /\ Read' /\ FileHeeded'
    BY <1>1, <1>4 DEF Matches, Read, Agrees, FileHeeded
  <2> QED
    BY <2>1, <2>2, <1>2 DEF BanInv
<1>5. CASE /\ recheck' = NextRecheck(time) /\ mtime' = file.at /\ missed' = FALSE
           /\ named # NotNamed
           /\ Pruned(FromFile(file.lines), file.lines)
  <2>1. file.lines \in Files
    BY <1>1 DEF Clocks
  <2>2. /\ Shape' /\ Matches' /\ (wildcards' <=> WildLine \in loaded') /\ wildcards' \in BOOLEAN
        /\ twice' \subseteq Ip /\ forgot' \subseteq Ip /\ loaded' \subseteq Ip \cup {WildLine}
    BY <2>1, <1>1, <1>5, ListPruned
  <2>3. Clocks'
    BY <1>1, <1>5 DEF Clocks, NextRecheck, Settings
  <2>4. Kinds'
    BY <1>1, <1>2, <1>5, <2>2 DEF Kinds
  <2>5. Read' /\ FileHeeded'
    BY <1>1, <1>5 DEF Read, FileHeeded, Pruned
  <2> QED
    BY <2>2, <2>3, <2>4, <2>5, <1>2 DEF BanInv
<1>6. CASE /\ recheck' = NextRecheck(time) /\ named = NotNamed /\ Pruned(NoTree, {})
           /\ UNCHANGED <<mtime, missed>>
  <2>1. /\ Shape' /\ Matches' /\ (wildcards' <=> WildLine \in loaded') /\ wildcards' \in BOOLEAN
        /\ twice' \subseteq Ip /\ forgot' \subseteq Ip /\ loaded' \subseteq Ip \cup {WildLine}
    BY <1>1, <1>6, ListPruned
  <2>2. Clocks'
    BY <1>1, <1>6 DEF Clocks, NextRecheck, Settings
  <2>3. Kinds'
    BY <1>1, <1>2, <1>6, <2>1 DEF Kinds
  <2>4. Read' /\ FileHeeded'
    BY <1>1, <1>6 DEF Read, FileHeeded, Clocks
  <2> QED
    BY <2>1, <2>2, <2>3, <2>4, <1>2 DEF BanInv
<1> QED
  BY <1>1, <1>3, <1>4, <1>5, <1>6 DEF CachedFileRecheck

\* Lookups that do not come to the tree.
LEMMA SearchesElsewhere ==
  ASSUME Settings, BanInv, SearchWild \/ SearchNothing
  PROVE  BanInv'
<1>1. /\ Clocks /\ Kinds /\ Shape /\ Matches /\ Read /\ FileHeeded /\ asks' = NoData
      /\ UNCHANGED <<tree, wildcards, recheck, mtime, named, loaded, missed, ends, holders, twice,
                     forgot, file, edits, time, reused>>
  BY DEF BanInv, SearchWild, SearchNothing, listVars, givenVars
<1>2. answer' \in AnswerKinds /\ AnswerExact'
  <2>1. CASE SearchWild
    <3>1. Answer(asks, TRUE) /\ IsDue(asks)
      BY <2>1, <1>1 DEF SearchWild, IsDue, Listed, Kinds
    <3> QED
      BY <3>1, Answered
  <2>2. CASE SearchNothing
    <3>1. Answer(asks, FALSE) /\ asks \in Ip /\ tree = NoTree /\ loaded = {}
      BY <2>2, <1>1 DEF SearchNothing, Kinds, Shape
    <3>2. asks \in twice \/ asks \in forgot \/ ~IsDue(asks)
      <4>1. asks \in twice \/ asks \in forgot \/ (holders[asks] = 0 /\ ends[asks] <= time)
        BY <3>1, <1>1 DEF Matches
      <4>2. ends[asks] \in Nat /\ time \in Nat
        BY <3>1, <1>1 DEF Kinds, Clocks
      <4> QED
        BY <3>1, <4>1, <4>2 DEF IsDue, Listed, Running
    <3> QED
      BY <3>1, <3>2, Answered
  <2> QED
    BY <2>1, <2>2
<1>3. Clocks' /\ Kinds' /\ Shape' /\ Read' /\ FileHeeded'
  BY <1>1, <1>2 DEF Clocks, Kinds, Shape, Read, FileHeeded
<1>4. Matches'
  BY <1>1 DEF Matches, Agrees
<1> QED
  BY <1>2, <1>3, <1>4 DEF BanInv

\* What a lookup in the tree leaves of the entries of the address it is about.
LEMMA Searches ==
  ASSUME Settings, BanInv, Search
  PROVE  BanInv'
<1>1. /\ Clocks /\ Kinds /\ Shape /\ Matches /\ Read /\ FileHeeded
      /\ asks' = NoData /\ asks \in Ip /\ tree # NoTree
      /\ ~(wildcards /\ asks \in Wild)
      /\ UNCHANGED <<wildcards, recheck, mtime, named, loaded, missed, holders, twice, forgot,
                     file, edits, time>>
  BY DEF BanInv, Search, Kinds
<1> DEFINE Outcome(noted, gone) ==
          \/ /\ Of(asks) = {}
             /\ tree' = tree \ gone
             /\ Answer(asks, FALSE)
             /\ reused' \in NotedTwice(noted)
             /\ UNCHANGED ends
          \/ \E e \in Of(asks) :
             /\ Holds(e)
             /\ tree' = ((tree \ gone) \ {e}) \cup {[e EXCEPT !.till = Extended(@)]}
             /\ ends' = [ends EXCEPT ![asks] = IF @ > time THEN Extended(@) ELSE @]
             /\ Answer(asks, TRUE)
             /\ reused' \in NotedTwice(noted)
          \/ \E e \in Of(asks) :
             /\ ~Holds(e)
             /\ tree' = (tree \ gone) \ {e}
             /\ reused' = (noted # {})
             /\ Answer(asks, FALSE)
             /\ UNCHANGED ends
<1>2. PICK noted \in SUBSET {e \in tree : e.ip # asks /\ Stale(e)} :
         \E gone \in Removals(noted) : Outcome(noted, gone)
  BY DEF Search
<1>3. PICK gone \in Removals(noted) : Outcome(noted, gone)
  BY <1>2
<1>11. reused' \in BOOLEAN
  BY <1>3 DEF NotedTwice
<1> DEFINE others == tree \ gone
<1>4. /\ \A j \in Ip \ {asks} : j \notin twice \cup forgot =>
               Agrees(others, j, holders[j], ends[j])
      /\ {e \in others : e.ip = asks} = Of(asks)
      /\ others \subseteq Entries /\ IsFiniteSet(others)
  BY <1>1, <1>2, Thrown
<1> HIDE DEF others
<1> DEFINE odd == asks \in twice \/ asks \in forgot
<1>5. odd \/ Agrees(tree, asks, holders[asks], ends[asks])
  BY <1>1 DEF Matches
<1>12. /\ ends \in [Ip -> Nat] /\ holders \in [Ip -> Nat] /\ ends[asks] \in Nat
       /\ holders[asks] \in Nat /\ time \in Nat
  BY <1>1 DEF Kinds, Clocks
<1>13. IsDue(asks) <=> asks \in loaded \/ holders[asks] > 0 \/ ends[asks] > time
  BY <1>1 DEF Kinds, IsDue, Listed, Running
<1>6. Clocks' /\ Read' /\ FileHeeded'
  BY <1>1 DEF Clocks, Read, FileHeeded
<1>7. ASSUME answer' \in AnswerKinds, AnswerExact',
             ends' \in [Ip -> Nat], tree' \subseteq Entries, IsFiniteSet(tree'),
             \A j \in Ip \ {asks} : ends'[j] = ends[j],
             \A j \in Ip \ {asks} : {e \in tree' : e.ip = j} = {e \in others : e.ip = j},
             odd \/ Agrees(tree', asks, holders[asks], ends'[asks])
      PROVE  BanInv'
  <2>0. tree' # NoTree
    BY <1>7 DEF NoTree, Settings
  <2>1. Kinds' /\ Shape'
    BY <1>1, <1>7, <1>11, <2>0 DEF Kinds, Shape
  <2>2. Matches'
    <3> SUFFICES ASSUME NEW j \in Ip, j \notin twice, j \notin forgot
                 PROVE  Agrees(tree', j, holders[j], ends'[j])
      BY <2>0, <1>1 DEF Matches, Agrees
    <3>1. CASE j = asks
      BY <3>1, <1>7
    <3>2. CASE j # asks
      <4>1. Agrees(others, j, holders[j], ends[j])
        BY <3>2, <1>4
      <4>2. ends'[j] = ends[j] /\ {e \in tree' : e.ip = j} = {e \in others : e.ip = j}
        BY <3>2, <1>7
      <4> QED
        BY <4>1, <4>2 DEF Agrees
    <3> QED
      BY <3>1, <3>2
  <2> QED
    BY <2>1, <2>2, <1>6, <1>7 DEF BanInv
<1>8. CASE Of(asks) = {} /\ tree' = others /\ Answer(asks, FALSE) /\ UNCHANGED ends
  <2>1. odd \/ ~IsDue(asks)
    BY <1>5, <1>8, <1>12, <1>13 DEF Agrees, Of
  <2>2. answer' \in AnswerKinds /\ AnswerExact'
    BY <2>1, <1>8, Answered
  <2>3. odd \/ Agrees(others, asks, holders[asks], ends[asks])
    BY <2>1, <1>4, <1>8, <1>12, <1>13 DEF Agrees
  <2>4. ends' = ends /\ tree' = others
    BY <1>8
  <2> QED
    BY <2>2, <2>3, <2>4, <1>4, <1>7, <1>12
<1>9. ASSUME NEW e \in Of(asks), Holds(e),
             tree' = (others \ {e}) \cup {[e EXCEPT !.till = Extended(@)]},
             ends' = [ends EXCEPT ![asks] = IF @ > time THEN Extended(@) ELSE @],
             Answer(asks, TRUE)
      PROVE  BanInv'
  <2> DEFINE x == [e EXCEPT !.till = Extended(@)]
  <2>1. e \in Entries /\ e.ip = asks /\ e \in others
    BY <1>4, <1>9
  <2>2. \A d \in Nat : Extended(d) \in Nat
    BY <1>12 DEF Extended, Settings
  <2>3. x \in Entries /\ x.ip = asks /\ x.till = Extended(e.till) /\ e.till \in Nat
    BY <2>1, <2>2 DEF Entries
  <2> HIDE DEF x
  <2>4. tree' = (others \ {e}) \cup {x}
    BY <1>9 DEF x
  <2>5. tree' \subseteq Entries /\ IsFiniteSet(tree')
    BY <2>3, <2>4, <1>4, FS_RemoveElement, FS_AddElement
  <2>6. /\ ends' \in [Ip -> Nat] /\ \A j \in Ip \ {asks} : ends'[j] = ends[j]
        /\ ends'[asks] = IF ends[asks] > time THEN Extended(ends[asks]) ELSE ends[asks]
    BY <2>2, <1>1, <1>9, <1>12
  <2>7. \A j \in Ip \ {asks} : {y \in tree' : y.ip = j} = {y \in others : y.ip = j}
    BY <2>1, <2>3, <2>4
  <2>8. odd \/ ( /\ Of(asks) = {e}
                 /\ \/ e.till = 0 /\ ends[asks] <= time /\ asks \in loaded /\ holders[asks] = 0
                    \/ e.till = 0 /\ ends[asks] <= time /\ asks \notin loaded /\ holders[asks] = 1
                    \/ e.till # 0 /\ e.till = ends[asks] /\ asks \notin loaded /\ holders[asks] = 0 )
    BY <1>5, <1>9 DEF Agrees, Of
  <2>9. odd \/ Agrees(tree', asks, holders[asks], ends'[asks])
    <3> SUFFICES ASSUME ~odd PROVE Agrees(tree', asks, holders[asks], ends'[asks])
      OBVIOUS
    <3>1. {y \in tree' : y.ip = asks} = {x}
      BY <2>3, <2>4, <2>8, <1>4
    <3>2. CASE e.till = 0
      <4>1. x.till = 0 /\ ends'[asks] = ends[asks] /\ ends[asks] <= time
        BY <3>2, <2>3, <2>6, <2>8, <1>12 DEF Extended
      <4> QED
        BY <3>1, <3>2, <4>1, <2>8 DEF Agrees
    <3>3. CASE e.till # 0
      <4>1. /\ e.till = ends[asks] /\ e.till > time /\ asks \notin loaded /\ holders[asks] = 0
        BY <3>3, <2>8, <1>9 DEF Holds
      <4>2. x.till = ends'[asks]
        BY <4>1, <2>3, <2>6
      <4>3. x.till # 0
        BY <4>1, <2>3, <1>12 DEF Extended, Settings
      <4> QED
        BY <3>1, <4>1, <4>2, <4>3 DEF Agrees
    <3> QED
      BY <3>2, <3>3
  <2>10. odd \/ IsDue(asks)
    BY <2>8, <1>9, <1>12, <1>13 DEF Holds
  <2>11. answer' \in AnswerKinds /\ AnswerExact'
    BY <2>10, <1>9, Answered
  <2> QED
    BY <2>5, <2>6, <2>7, <2>9, <2>11, <1>7
<1>10. ASSUME NEW e \in Of(asks), ~Holds(e), tree' = others \ {e}, Answer(asks, FALSE),
              UNCHANGED ends
       PROVE  BanInv'
  <2>1. e \in Entries /\ e.ip = asks /\ e \in others /\ e.till \in Nat
    BY <1>4, <1>10 DEF Entries
  <2>2. tree' \subseteq Entries /\ IsFiniteSet(tree')
    BY <1>4, <1>10, FS_RemoveElement
  <2>3. \A j \in Ip \ {asks} : {y \in tree' : y.ip = j} = {y \in others : y.ip = j}
    BY <2>1, <1>10
  <2>4. odd \/ ( /\ Of(asks) = {e} /\ asks \notin loaded /\ holders[asks] = 0
                 /\ ends[asks] <= time )
    BY <1>5, <1>10, <1>12, <2>1 DEF Agrees, Of, Holds
  <2>5. odd \/ ~IsDue(asks)
    BY <2>4, <1>12, <1>13
  <2>6. answer' \in AnswerKinds /\ AnswerExact'
    BY <2>5, <1>10, Answered
  <2>7. odd \/ Agrees(tree', asks, holders[asks], ends[asks])
    <3> SUFFICES ASSUME ~odd PROVE Agrees(tree', asks, holders[asks], ends[asks])
      OBVIOUS
    <3>1. {y \in tree' : y.ip = asks} = {}
      BY <2>4, <1>4, <1>10
    <3> QED
      BY <3>1, <2>4 DEF Agrees
  <2> QED
    BY <2>2, <2>3, <2>6, <2>7, <1>7, <1>10, <1>12
<1> QED
  BY <1>3, <1>8, <1>9, <1>10 DEF others

\* A ban is given to an address, which may have one already, or there is no tree to put it in.
LEMMA Bans ==
  ASSUME Settings, BanInv, NEW i \in Ip, NEW d \in Duration, ConnectionAddBannedIp(i, d)
  PROVE  BanInv'
<1>1. /\ Clocks /\ Kinds /\ Shape /\ Matches /\ Read /\ FileHeeded /\ AnswerExact
      /\ UNCHANGED <<wildcards, recheck, mtime, named, loaded, missed, file, edits, time, asks,
                     answer, reused>>
  BY DEF BanInv, ConnectionAddBannedIp
<1>2. d \in Int /\ d # 0 /\ time \in Nat /\ time >= 2
  BY <1>1 DEF Settings, Clocks
<1>3. ends \in [Ip -> Nat] /\ holders \in [Ip -> Nat]
  BY <1>1 DEF Kinds
<1>4. /\ ends' \in [Ip -> Nat] /\ holders' \in [Ip -> Nat]
      /\ \A j \in Ip \ {i} : ends'[j] = ends[j] /\ holders'[j] = holders[j]
      /\ d > 0 => holders'[i] = holders[i] /\ (ends[i] <= time => ends'[i] = time + d)
      /\ ~(d > 0) => ends'[i] = ends[i] /\ holders'[i] = holders[i] + 1
  <2>1. Given(i, d)
    BY DEF ConnectionAddBannedIp
  <2>2. CASE d > 0
    <3>1. /\ ends' = [ends EXCEPT ![i] = IF @ > time + d THEN @ ELSE time + d]
          /\ holders' = holders
      BY <2>1, <2>2 DEF Given
    <3> QED
      BY <3>1, <2>2, <1>2, <1>3
  <2>3. CASE ~(d > 0)
    <3>1. holders' = [holders EXCEPT ![i] = @ + 1] /\ ends' = ends
      BY <2>1, <2>3 DEF Given
    <3> QED
      BY <3>1, <2>3, <1>2, <1>3
  <2> QED
    BY <2>2, <2>3
<1>5. CASE tree = NoTree /\ forgot' = forgot \cup {i} /\ UNCHANGED <<tree, twice>>
  <2>1. Kinds' /\ Shape' /\ Clocks' /\ Read' /\ FileHeeded' /\ AnswerExact'
    BY <1>1, <1>4, <1>5 DEF Kinds, Shape, Clocks, Read, FileHeeded, AnswerExact
  <2>2. Matches'
    BY <1>1, <1>4, <1>5 DEF Matches
  <2> QED
    BY <2>1, <2>2 DEF BanInv
<1>6. ASSUME tree # NoTree, Cardinality(tree) < MaxEntries,
             tree' = tree \cup {Entry(i, Timeout(d), FreeNumber)},
             twice' = IF Of(i) = {} THEN twice ELSE twice \cup {i},
             UNCHANGED forgot
      PROVE  BanInv'
  <2> DEFINE x == Entry(i, Timeout(d), FreeNumber)
  <2>1. /\ tree \subseteq Entries /\ IsFiniteSet(tree) /\ FreeNumber \in 1 .. MaxEntries
        /\ Timeout(d) \in Nat
    BY <1>1, <1>2, <1>6, Numbered DEF Shape, Timeout
  <2>2. x \in Entries /\ x.ip = i /\ x.till = Timeout(d)
    BY <2>1 DEF Entry, Entries
  <2> HIDE DEF x
  <2>3. tree' = tree \cup {x}
    BY <1>6 DEF x
  <2>4. tree' \subseteq Entries /\ IsFiniteSet(tree')
    BY <2>1, <2>2, <2>3, FS_AddElement
  <2>5. tree' # NoTree
    BY <2>4 DEF NoTree, Settings
  <2>6. twice' \subseteq Ip /\ twice \subseteq twice' /\ (i \notin twice' => Of(i) = {})
    BY <1>1, <1>6 DEF Kinds
  <2>7. Kinds' /\ Shape' /\ Clocks' /\ Read' /\ FileHeeded' /\ AnswerExact'
    BY <1>1, <1>4, <1>6, <2>4, <2>5, <2>6 DEF Kinds, Shape, Clocks, Read, FileHeeded, AnswerExact
  <2>8. Matches'
    <3> SUFFICES ASSUME NEW j \in Ip, j \notin twice', j \notin forgot
                 PROVE  Agrees(tree', j, holders'[j], ends'[j])
      <4>1. time' = time /\ loaded' = loaded /\ forgot' = forgot
        BY <1>1, <1>6
      <4> QED
        BY <2>5, <4>1 DEF Matches, Agrees
    <3>1. Agrees(tree, j, holders[j], ends[j])
      BY <1>1, <1>6, <2>6 DEF Matches
    <3>2. CASE j = i
      <4>1. {e \in tree' : e.ip = i} = {x}
        BY <3>2, <2>2, <2>3, <2>6 DEF Of
      <4>2. i \notin loaded /\ holders[i] = 0 /\ ends[i] <= time
        BY <3>1, <3>2, <2>6 DEF Agrees, Of
      <4>3. CASE d > 0
        <5>1. x.till = ends'[i] /\ x.till # 0 /\ holders'[i] = 0
          BY <4>2, <4>3, <1>2, <1>4, <2>2 DEF Timeout
        <5> QED
          BY <3>2, <4>1, <4>2, <5>1 DEF Agrees
      <4>4. CASE ~(d > 0)
        <5>1. x.till = 0 /\ ends'[i] <= time /\ holders'[i] = 1
          BY <4>2, <4>4, <1>2, <1>4, <2>2 DEF Timeout
        <5> QED
          BY <3>2, <4>1, <4>2, <5>1 DEF Agrees
      <4> QED
        BY <4>3, <4>4
    <3>3. CASE j # i
      <4>1. {e \in tree' : e.ip = j} = {e \in tree : e.ip = j}
        BY <3>3, <2>2, <2>3
      <4> QED
        BY <3>1, <3>3, <4>1, <1>4 DEF Agrees
    <3> QED
      BY <3>2, <3>3
  <2> QED
    BY <2>7, <2>8 DEF BanInv
<1> QED
  BY <1>5, <1>6 DEF ConnectionAddBannedIp

\* A client that goes with its ban leaves, and one of the entries of its address goes.
LEMMA Releases ==
  ASSUME Settings, BanInv, NEW i \in Ip, ConnectionReleaseBannedIp(i)
  PROVE  BanInv'
<1>1. /\ Clocks /\ Kinds /\ Shape /\ Matches /\ Read /\ FileHeeded /\ AnswerExact
      /\ holders[i] > 0 /\ holders' = [holders EXCEPT ![i] = @ - 1]
      /\ UNCHANGED <<wildcards, recheck, mtime, named, loaded, missed, ends, twice, forgot, file,
                     edits, time, asks, answer, reused>>
  BY DEF BanInv, ConnectionReleaseBannedIp
<1>2. holders \in [Ip -> Nat]
  BY <1>1 DEF Kinds
<1>3. /\ holders' \in [Ip -> Nat] /\ holders'[i] = holders[i] - 1
      /\ \A j \in Ip \ {i} : holders'[j] = holders[j]
  BY <1>1, <1>2
<1>4. CASE tree = NoTree /\ UNCHANGED tree
  <2>1. Kinds' /\ Shape' /\ Clocks' /\ Read' /\ FileHeeded' /\ AnswerExact'
    BY <1>1, <1>3, <1>4 DEF Kinds, Shape, Clocks, Read, FileHeeded, AnswerExact
  <2>2. i \in twice \/ i \in forgot
    BY <1>1, <1>4 DEF Matches
  <2>3. Matches'
    BY <1>1, <1>3, <1>4, <2>2 DEF Matches
  <2> QED
    BY <2>1, <2>3 DEF BanInv
<1>5. ASSUME tree # NoTree, tree' = tree \/ \E x \in Of(i) : tree' = tree \ {x},
             tree' = tree => Of(i) = {}
      PROVE  BanInv'
  <2>1. tree' \subseteq Entries /\ IsFiniteSet(tree')
    <3>1. CASE tree' = tree
      BY <1>1, <1>5, <3>1 DEF Shape
    <3>2. CASE tree' # tree
      BY <1>1, <1>5, <3>2, FS_RemoveElement DEF Shape
    <3> QED
      BY <3>1, <3>2
  <2>2. tree' # NoTree
    BY <2>1 DEF NoTree, Settings
  <2>3. Kinds' /\ Shape' /\ Clocks' /\ Read' /\ FileHeeded' /\ AnswerExact'
    BY <1>1, <1>3, <1>5, <2>1, <2>2 DEF Kinds, Shape, Clocks, Read, FileHeeded, AnswerExact
  <2>4. Matches'
    <3> SUFFICES ASSUME NEW j \in Ip, j \notin twice, j \notin forgot
                 PROVE  Agrees(tree', j, holders'[j], ends[j])
      BY <2>2, <1>1 DEF Matches, Agrees
    <3>1. Agrees(tree, j, holders[j], ends[j])
      BY <1>1, <1>5 DEF Matches
    <3>2. CASE j = i
      <4>1. PICK e \in Of(i) : /\ Of(i) = {e} /\ i \notin loaded /\ holders[i] = 1
                               /\ ends[i] <= time
        BY <3>1, <3>2, <1>1 DEF Agrees, Of
      <4>2. tree' = tree \ {e}
        BY <4>1, <1>5
      <4>3. {y \in tree' : y.ip = i} = {}
        BY <4>1, <4>2 DEF Of
      <4> QED
        BY <3>2, <4>1, <4>3, <1>3 DEF Agrees
    <3>3. CASE j # i
      <4>1. {e \in tree' : e.ip = j} = {e \in tree : e.ip = j}
        BY <3>3, <1>5 DEF Of
      <4> QED
        BY <3>1, <3>3, <4>1, <1>3 DEF Agrees
    <3> QED
      BY <3>2, <3>3
  <2> QED
    BY <2>3, <2>4 DEF BanInv
<1>6. ASSUME tree # NoTree, NEW e \in Of(i), tree' = tree \ {e} PROVE tree' # tree
  BY <1>6 DEF Of
<1> QED
  BY <1>4, <1>5, <1>6 DEF ConnectionReleaseBannedIp

\* The list is cleared, the file is named or changed, time goes on.
LEMMA Others ==
  ASSUME Settings, BanInv, CachedFileClear \/ CachedFileInit \/ Edit \/ Tick
  PROVE  BanInv'
<1>1. Clocks /\ Kinds /\ Shape /\ Matches /\ Read /\ FileHeeded /\ AnswerExact
  BY DEF BanInv
<1>2. CASE CachedFileClear
  <2>1. /\ Pruned(NoTree, {}) /\ recheck' = 0 /\ mtime' = 0 /\ named' = NotNamed
        /\ missed' = FALSE
        /\ UNCHANGED <<ends, holders, file, edits, time, asks, answer, reused>>
    BY <1>2 DEF CachedFileClear
  <2>2. /\ Shape' /\ Matches' /\ (wildcards' <=> WildLine \in loaded') /\ wildcards' \in BOOLEAN
        /\ twice' \subseteq Ip /\ forgot' \subseteq Ip /\ loaded' \subseteq Ip \cup {WildLine}
    BY <2>1, ListPruned
  <2>3. Clocks' /\ Read' /\ FileHeeded' /\ AnswerExact'
    BY <2>1, <1>1 DEF Clocks, Read, FileHeeded, AnswerExact, Settings, NotNamed
  <2>4. Kinds'
    BY <2>1, <2>2, <1>1 DEF Kinds
  <2> QED
    BY <2>2, <2>3, <2>4 DEF BanInv
<1>5. CASE CachedFileInit
  <2>1. /\ named = NotNamed /\ named' = time /\ mtime' = 0
        /\ UNCHANGED <<tree, wildcards, recheck, loaded, missed, ends, holders, twice, forgot,
                       file, edits, time, asks, answer, reused>>
    BY <1>5 DEF CachedFileInit, givenVars
  <2>2. Clocks' /\ Kinds' /\ Shape' /\ AnswerExact'
    BY <2>1, <1>1 DEF Clocks, Kinds, Shape, AnswerExact
  <2>3. Matches'
    BY <2>1, <1>1 DEF Matches, Agrees
  <2>4. Read'
    BY <2>1, <1>1 DEF Read, Clocks
  <2>5. FileHeeded'
    <3>1. recheck \in Nat /\ time \in Nat /\ file.at \in Nat /\ recheck <= time + Period
          /\ Period \in Nat
      BY <1>1 DEF Clocks, Settings
    <3>2. recheck <= (IF file.at > time THEN file.at ELSE time) + Period
      BY <3>1
    <3> QED
      BY <2>1, <3>2 DEF FileHeeded
  <2> QED
    BY <2>2, <2>3, <2>4, <2>5 DEF BanInv
<1>3. CASE Edit
  <2>1. PICK f \in Files, there \in {"yes", "shut", "gone"} :
           /\ file' = [lines |-> f, at |-> time, there |-> there]
           /\ missed' = (missed \/ time = mtime)
    BY <1>3 DEF Edit
  <2>2. UNCHANGED <<tree, wildcards, recheck, mtime, named, loaded, ends, holders, twice, forgot,
                    time, asks, answer, reused>>
    BY <1>3 DEF Edit, givenVars
  <2>3. /\ file' \in [lines : Files, at : Nat, there : {"yes", "shut", "gone"}]
        /\ file'.at = time /\ file'.lines = f /\ (missed' <=> missed \/ time = mtime)
        /\ missed' \in BOOLEAN
    BY <2>1, <1>1 DEF Clocks, Kinds
  <2>4. Clocks' /\ Kinds' /\ Shape' /\ AnswerExact'
    BY <2>2, <2>3, <1>1 DEF Clocks, Kinds, Shape, AnswerExact
  <2>5. Matches'
    BY <2>2, <1>1 DEF Matches, Agrees
  <2>6. Read'
    BY <2>2, <2>3, <1>1 DEF Read, Clocks
  <2>7. FileHeeded'
    <3>1. named <= time /\ time \in Nat /\ named \in Nat /\ recheck <= time + Period
      BY <1>1 DEF Clocks
    <3>2. (IF time > named THEN time ELSE named) = time
      BY <3>1
    <3> QED
      BY <2>2, <2>3, <3>1, <3>2 DEF FileHeeded
  <2> QED
    BY <2>4, <2>5, <2>6, <2>7 DEF BanInv
<1>4. CASE Tick
  <2>1. /\ time' = time + 1 /\ time < LastTime
        /\ UNCHANGED <<tree, wildcards, recheck, mtime, named, loaded, missed, ends, holders,
                       twice, forgot, file, edits, asks, answer, reused>>
    BY <1>4 DEF Tick, listVars, givenVars
  <2>2. Clocks' /\ Kinds' /\ Shape' /\ AnswerExact' /\ Read' /\ FileHeeded'
    BY <2>1, <1>1 DEF Clocks, Kinds, Shape, AnswerExact, Read, FileHeeded, Settings
  <2>3. \A i \in Ip : ends[i] <= time => ends[i] <= time'
    BY <2>1, <1>1 DEF Kinds, Clocks
  <2>4. ASSUME NEW i \in Ip, i \notin twice \cup forgot
        PROVE  IF tree = NoTree THEN holders[i] = 0 /\ ends[i] <= time'
               ELSE Agrees(tree, i, holders[i], ends[i])'
    <3>1. CASE tree = NoTree
      BY <3>1, <2>3, <2>4, <1>1 DEF Matches
    <3>2. CASE tree # NoTree
      BY <3>2, <2>1, <2>3, <2>4, <1>1 DEF Matches, Agrees
    <3> QED
      BY <3>1, <3>2
  <2>5. Matches'
    BY <2>1, <2>4 DEF Matches
  <2> QED
    BY <2>2, <2>5 DEF BanInv
<1> QED
  BY <1>2, <1>3, <1>4, <1>5

(***************************************************************************)
(* The theorem                                                             *)
(***************************************************************************)
LEMMA BansInductive ==
  ASSUME Settings
  PROVE  BanInv /\ [Next]_vars => BanInv'
<1> SUFFICES ASSUME BanInv, [Next]_vars PROVE BanInv'
  OBVIOUS
<1>1. ASSUME NEW i \in Ip, AcceptIpAddress(i) PROVE BanInv'
  BY <1>1, Accepts
<1>2. ASSUME NEW i \in Ip, ConnectionReleaseBannedIp(i) PROVE BanInv'
  BY <1>2, Releases
<1>3. CASE SearchWild \/ SearchNothing
  BY <1>3, SearchesElsewhere
<1>4. CASE Search
  BY <1>4, Searches
<1>5. ASSUME NEW i \in Ip, NEW d \in Duration, ConnectionAddBannedIp(i, d) PROVE BanInv'
  BY <1>5, Bans
<1>6. CASE CachedFileClear \/ CachedFileInit \/ Edit \/ Tick
  BY <1>6, Others
<1>7. CASE UNCHANGED vars
  BY <1>7 DEF vars, listVars, givenVars, BanInv, Clocks, Kinds, Shape, Matches, Agrees,
              AnswerExact, Read, FileHeeded
<1> QED
  BY <1>1, <1>2, <1>3, <1>4, <1>5, <1>6, <1>7 DEF Next

LEMMA BansStart ==
  ASSUME Settings
  PROVE  Init => BanInv
<1> SUFFICES ASSUME Init PROVE BanInv
  OBVIOUS
<1>1. PICK f \in Files : file = [lines |-> f, at |-> 1, there |-> "yes"]
  BY DEF Init
<1>2. Clocks
  BY <1>1 DEF Init, Clocks, Settings, NotNamed
<1>3. answer \in AnswerKinds /\ AnswerExact
  BY DEF Init, Quiet, AnswerExact, AnswerKinds
<1>4. ends \in [Ip -> Nat] /\ holders \in [Ip -> Nat]
      /\ \A i \in Ip : ends[i] = 0 /\ holders[i] = 0
  BY DEF Init
<1>5. wildcards \in BOOLEAN /\ missed \in BOOLEAN /\ reused \in BOOLEAN /\ ~wildcards
  BY DEF Init
<1>6. Kinds
  BY <1>3, <1>4, <1>5 DEF Init, Kinds
<1>7. Shape /\ Matches
  BY <1>2, <1>4 DEF Init, Shape, Matches, Clocks
<1>8. Read /\ FileHeeded
  BY <1>1, <1>2 DEF Init, Read, FileHeeded, Clocks, Settings
<1> QED
  BY <1>2, <1>3, <1>6, <1>7, <1>8 DEF BanInv

LEMMA BansSound ==
  ASSUME Settings
  PROVE  BanInv => BansExact
<1> SUFFICES ASSUME BanInv PROVE BansExact
  OBVIOUS
<1>1. TypeOK
  <2>1. time \in 0 .. LastTime
    BY DEF BanInv, Clocks, Settings
  <2> QED
    BY <2>1 DEF BanInv, TypeOK, Clocks, Kinds, Shape, AnswerKinds
<1>2. BansKept
  <2> SUFFICES ASSUME NEW i \in Ip, i \in loaded \/ Running(i), i \notin twice \cup forgot
               PROVE  tree # NoTree /\ Of(i) # {}
    BY DEF BansKept
  <2>1. /\ ends[i] \in Nat /\ holders[i] \in Nat /\ time \in Nat
        /\ tree = NoTree => loaded = {}
    BY DEF BanInv, Kinds, Clocks, Shape
  <2>2. IF tree = NoTree THEN holders[i] = 0 /\ ends[i] <= time
        ELSE Agrees(tree, i, holders[i], ends[i])
    BY DEF BanInv, Matches
  <2>3. tree # NoTree
    BY <2>1, <2>2 DEF Running
  <2> QED
    BY <2>1, <2>2, <2>3 DEF Agrees, Of, Running
<1> QED
  BY <1>1, <1>2 DEF BanInv, BansExact

(* Whatever the file, the bans of the mounts and the order of lookups, reads, releases, edits  *)
(* and reloads: an address is refused exactly while the file, as last read, lists it, a timed  *)
(* ban given to it runs or a client that goes with its ban is there, no lookup of another      *)
(* throws its ban out, and a change of the file is seen within a period; excepted are an       *)
(* address that had two entries and one with a ban that the list lost when it was read or      *)
(* cleared or could not take (banned_ip, search_banned_ip_locked, cached_file_recheck,         *)
(* connection_add_banned_ip, connection_release_banned_ip).                                    *)
THEOREM BansStayExact ==
  ASSUME Settings
  PROVE  Spec => []BansExact
  BY BansStart, BansInductive, BansSound, PTL DEF Spec

(***************************************************************************)
(* The authentication of listeners: the inductive invariant                *)
(***************************************************************************)
Steps == {"idle", "drop", "check", "clear", "request", "answer", "end", "post"}
Early == {"drop", "check", "clear", "request"}
Outcomes == {"waiting", "added", "moved", "started", "302", "403", "401", "leaving", "gone"}
Whose == Client \cup {None}

AuthTypes ==
    /\ backend \in {"url", "cmd"} /\ innocent \in BOOLEAN /\ elsewhere \in BOOLEAN
    /\ backend = "cmd" => ~innocent
    /\ events \in 0 .. MaxEvents /\ heard \in 0 .. MaxHeaders
    /\ pc \in [Handler -> Steps]
    /\ kind \in [Handler -> {"none", "add", "auth", "remove", "event"}]
    /\ job \in [Handler -> Whose] /\ owner \in [Handler -> Whose]
    /\ location \in [Handler -> SUBSET Whose] /\ message \in [Handler -> {"other", "403"}]
    /\ held \in [Handler -> {0, 1}]
    /\ outcome \in [Client -> Outcomes] /\ answers \in [Client -> Nat]
    /\ target \in [Client -> SUBSET Whose] /\ left \in BOOLEAN

FlagTypes ==
    /\ authed \in [Client -> BOOLEAN] /\ intro \in [Client -> BOOLEAN]
    /\ given \in [Client -> BOOLEAN] /\ granted \in [Client -> BOOLEAN]
    /\ slow \in [Client -> BOOLEAN]

(* a thread is at a step of the request it took, for the client of the request, which it *)
(* has until it passes it on *)
Fits(h) ==
    /\ pc[h] = "idle" => kind[h] = "none" /\ job[h] = None /\ owner[h] = None
    /\ pc[h] # "idle" => kind[h] # "none"
    /\ kind[h] = "event" => job[h] = None /\ owner[h] = None
                            /\ pc[h] \in {"request", "answer", "post"}
    /\ kind[h] \in {"add", "auth", "remove"} => job[h] \in Client
    /\ kind[h] \in {"auth", "remove"} => owner[h] = job[h]
    /\ kind[h] = "auth" => pc[h] \in {"request", "answer", "post"}
    /\ kind[h] = "remove" => pc[h] \in {"check", "clear", "request", "answer", "post"}
    /\ pc[h] \in {"clear", "request"} \/ kind[h] \in {"auth", "remove", "event"} => backend = "url"
    /\ pc[h] = "end" => backend = "cmd"

Has(h) ==
    /\ kind[h] = "add" /\ owner[h] = None => pc[h] = "post" /\ outcome[job[h]] \in {"302", "403"}
    /\ owner[h] # None => owner[h] = job[h]
                          /\ outcome[job[h]] = IF kind[h] = "remove" THEN "leaving" ELSE "waiting"

Alone == \A g, h \in Handler : job[g] = job[h] /\ job[g] # None => g = h

Collects == \A h \in Handler : held[h] = 1 => pc[h] = "answer" /\ kind[h] = "add"

(* the location a thread holds is the one its request was given *)
Placed(h) ==
    /\ backend = "url" /\ pc[h] = "answer" /\ kind[h] = "add" => location[h] \subseteq {job[h]}
    /\ backend = "cmd" =>
          left \/ (IF pc[h] \in {"answer", "end"} THEN location[h] \subseteq {job[h]}
                                                 ELSE location[h] = {})

(* intro content is not spoken of before the answer, and settled after it *)
Fresh == \A c \in Client :
    outcome[c] = "waiting" /\ (\A h \in Handler : job[h] = c => pc[h] \in Early)
       => ~intro[c] /\ ~given[c]
Settled(h) ==
    /\ pc[h] = "end" => kind[h] = "add"
    /\ pc[h] \in {"end", "post"} /\ kind[h] = "add" /\ authed[job[h]] /\ ~slow[job[h]]
       => (intro[job[h]] <=> given[job[h]])
Matched == \A c \in Client :
    outcome[c] \in {"added", "302", "403"} /\ authed[c] /\ ~slow[c] => (intro[c] <=> given[c])

(* who is let in when answered, unless presumed innocent, was granted it *)
Admitted == \A c \in Client :
    ~innocent => /\ outcome[c] = "waiting" /\ authed[c] => granted[c]
                 /\ outcome[c] \in {"added", "started"} => granted[c]

Backs ==
    /\ now \in 1 .. MaxTime /\ failed \in 0 .. MaxTime /\ raced \in BOOLEAN /\ until \in Nat
    /\ until <= MaxTime + Backoff
    /\ failed # 0 /\ until # 0 => until = failed + Backoff
    /\ failed # 0 /\ until = 0 => now >= failed + Backoff \/ raced

AuthInv ==
    /\ AuthTypes
    /\ FlagTypes
    /\ \A h \in Handler : Fits(h)
    /\ \A h \in Handler : Has(h)
    /\ Alone
    /\ Collects
    /\ U!AnsweredOnce
    /\ \A h \in Handler : Placed(h)
    /\ U!RedirectOwn
    /\ Fresh
    /\ \A h \in Handler : Settled(h)
    /\ Matched
    /\ Admitted
    /\ Backs

(* auth_release_listener: a client that leaves is not about to be let in. *)
LEMMA TakeLeavingKeeps ==
  ASSUME ListenerSettings, AuthInv, NEW h \in Handler, NEW c \in Client, U!TakeLeaving(h, c)
  PROVE  AuthInv'
<1>1. AuthTypes'
  BY ListenerSettings DEF AuthInv, AuthTypes, Fits, Has, U!Settings, Steps, Outcomes, Whose,
     U!TakeLeaving, U!Goes, U!settings, U!data, U!client, U!history
<1>2. FlagTypes'
  BY ListenerSettings DEF AuthInv, AuthTypes, FlagTypes, Fits, U!TakeLeaving, U!Goes,
     U!settings, U!data, U!client, U!history
<1>3. (\A x \in Handler : Fits(x))'
  BY ListenerSettings DEF AuthInv, AuthTypes, Fits, Has, U!Settings, U!TakeLeaving, U!Goes,
     U!settings, U!data, U!client, U!history
<1>4. (\A x \in Handler : Has(x))'
  BY ListenerSettings DEF AuthInv, AuthTypes, Fits, Has, Alone, U!TakeLeaving, U!Goes,
     U!settings, U!data, U!client, U!history
<1>5. Alone'
  BY ListenerSettings DEF AuthInv, AuthTypes, Fits, Alone, U!Settings, U!TakeLeaving,
     U!Goes, U!settings, U!data, U!client, U!history
<1>6. Collects'
  BY ListenerSettings DEF AuthInv, AuthTypes, Fits, Collects, U!TakeLeaving, U!Goes,
     U!settings, U!data, U!client, U!history
<1>7. U!AnsweredOnce'
  BY ListenerSettings DEF AuthInv, AuthTypes, Fits, Has, U!AnsweredOnce, U!TakeLeaving,
     U!Goes, U!settings, U!data, U!client, U!history
<1>8. (\A x \in Handler : Placed(x))'
  BY ListenerSettings DEF AuthInv, AuthTypes, Fits, Placed, U!TakeLeaving, U!Goes,
     U!settings, U!data, U!client, U!history
<1>9. U!RedirectOwn'
  BY ListenerSettings DEF AuthInv, AuthTypes, Fits, Has, Placed, U!RedirectOwn,
     U!TakeLeaving, U!Goes, U!settings, U!data, U!client, U!history
<1>10. Fresh'
  <2> SUFFICES ASSUME NEW x \in Client, outcome'[x] = "waiting",
                      \A g \in Handler : job'[g] = x => pc'[g] \in Early
               PROVE  ~intro'[x] /\ ~given'[x]
    BY DEF Fresh
  <2>1. outcome[x] = "waiting" /\ \A g \in Handler : job[g] = x => pc[g] \in Early
    BY ListenerSettings DEF AuthInv, AuthTypes, Fits, Has, Early, U!Settings,
       U!TakeLeaving, U!Goes, U!settings, U!data, U!client, U!history
  <2>2. ~intro[x] /\ ~given[x]
    BY <2>1 DEF AuthInv, Fresh
  <2> QED
    BY <2>1, <2>2 DEF AuthInv, AuthTypes, FlagTypes, Fits, Early, U!TakeLeaving, U!Goes,
       U!settings, U!data, U!client, U!history
<1>11. (\A x \in Handler : Settled(x))'
  BY ListenerSettings DEF AuthInv, AuthTypes, FlagTypes, Fits, Has, Alone, Collects, Fresh,
     Settled, Early, U!TakeLeaving, U!Goes, U!settings, U!data, U!client, U!history
<1>12. Matched'
  BY ListenerSettings DEF AuthInv, AuthTypes, FlagTypes, Fits, Has, Alone, Collects, Fresh,
     Settled, Matched, U!TakeLeaving, U!Goes, U!settings, U!data, U!client, U!history
<1>13. Admitted'
  BY ListenerSettings DEF AuthInv, AuthTypes, FlagTypes, Fits, Has, Admitted, U!TakeLeaving,
     U!Goes, U!settings, U!data, U!client, U!history
<1>14. Backs'
  BY ListenerSettings DEF AuthInv, AuthTypes, Fits, Backs, U!Settings, U!TakeLeaving,
     U!Goes, U!settings, U!data, U!client, U!history
<1> QED
  BY <1>1, <1>2, <1>3, <1>4, <1>5, <1>6, <1>7, <1>8, <1>9, <1>10, <1>11, <1>12, <1>13, <1>14
     DEF AuthInv

(* auth_run_thread: a client has no thread before this one, and nothing said about it. *)
LEMMA TakeKeeps ==
  ASSUME ListenerSettings, AuthInv, NEW h \in Handler, NEW c \in Client, NEW k \in {"add", "auth"},
         U!Take(h, c, k)
  PROVE  AuthInv'
<1>1. AuthTypes'
  BY ListenerSettings DEF AuthInv, AuthTypes, Fits, Has, U!Settings, Steps, Outcomes, Whose,
     U!Take, U!Goes, U!settings, U!data, U!client, U!history
<1>2. FlagTypes'
  BY ListenerSettings DEF AuthInv, AuthTypes, FlagTypes, Fits, U!Take, U!Goes, U!settings,
     U!data, U!client, U!history
<1>3. (\A x \in Handler : Fits(x))'
  BY ListenerSettings DEF AuthInv, AuthTypes, Fits, Has, U!Settings, U!Take, U!Goes,
     U!settings, U!data, U!client, U!history
<1>4. (\A x \in Handler : Has(x))'
  BY ListenerSettings DEF AuthInv, AuthTypes, Fits, Has, Alone, U!Take, U!Goes, U!settings,
     U!data, U!client, U!history
<1>5. Alone'
  BY ListenerSettings DEF AuthInv, AuthTypes, Fits, Alone, U!Settings, U!Take, U!Goes,
     U!settings, U!data, U!client, U!history
<1>6. Collects'
  BY ListenerSettings DEF AuthInv, AuthTypes, Fits, Collects, U!Take, U!Goes, U!settings,
     U!data, U!client, U!history
<1>7. U!AnsweredOnce'
  BY ListenerSettings DEF AuthInv, AuthTypes, Fits, Has, U!AnsweredOnce, U!Take, U!Goes,
     U!settings, U!data, U!client, U!history
<1>8. (\A x \in Handler : Placed(x))'
  BY ListenerSettings DEF AuthInv, AuthTypes, Fits, Placed, U!Take, U!Goes, U!settings,
     U!data, U!client, U!history
<1>9. U!RedirectOwn'
  BY ListenerSettings DEF AuthInv, AuthTypes, Fits, Has, Placed, U!RedirectOwn, U!Take,
     U!Goes, U!settings, U!data, U!client, U!history
<1>10. Fresh'
  <2> SUFFICES ASSUME NEW x \in Client, outcome'[x] = "waiting",
                      \A g \in Handler : job'[g] = x => pc'[g] \in Early
               PROVE  ~intro'[x] /\ ~given'[x]
    BY DEF Fresh
  <2>1. outcome[x] = "waiting" /\ \A g \in Handler : job[g] = x => pc[g] \in Early
    BY ListenerSettings DEF AuthInv, AuthTypes, Fits, Has, Early, U!Settings, U!Take,
       U!Goes, U!settings, U!data, U!client, U!history
  <2>2. ~intro[x] /\ ~given[x]
    BY <2>1 DEF AuthInv, Fresh
  <2> QED
    BY <2>1, <2>2 DEF AuthInv, AuthTypes, FlagTypes, Fits, Early, U!Take, U!Goes,
       U!settings, U!data, U!client, U!history
<1>11. (\A x \in Handler : Settled(x))'
  BY ListenerSettings DEF AuthInv, AuthTypes, FlagTypes, Fits, Has, Alone, Collects, Fresh,
     Settled, Early, U!Take, U!Goes, U!settings, U!data, U!client, U!history
<1>12. Matched'
  BY ListenerSettings DEF AuthInv, AuthTypes, FlagTypes, Fits, Has, Alone, Collects, Fresh,
     Settled, Matched, U!Take, U!Goes, U!settings, U!data, U!client, U!history
<1>13. Admitted'
  BY ListenerSettings DEF AuthInv, AuthTypes, FlagTypes, Fits, Has, Admitted, U!Take,
     U!Goes, U!settings, U!data, U!client, U!history
<1>14. Backs'
  BY ListenerSettings DEF AuthInv, AuthTypes, Fits, Backs, U!Settings, U!Take, U!Goes,
     U!settings, U!data, U!client, U!history
<1> QED
  BY <1>1, <1>2, <1>3, <1>4, <1>5, <1>6, <1>7, <1>8, <1>9, <1>10, <1>11, <1>12, <1>13, <1>14
     DEF AuthInv

(* stream_start and stream_end: the thread has no client. *)
LEMMA TakeEventKeeps ==
  ASSUME ListenerSettings, AuthInv, NEW h \in Handler, U!TakeEvent(h)
  PROVE  AuthInv'
<1>1. AuthTypes'
  BY ListenerSettings DEF AuthInv, AuthTypes, Fits, Has, U!Settings, Steps, Outcomes, Whose,
     U!TakeEvent, U!Goes, U!settings, U!data, U!client, U!history
<1>2. FlagTypes'
  BY ListenerSettings DEF AuthInv, AuthTypes, FlagTypes, Fits, U!TakeEvent, U!Goes,
     U!settings, U!data, U!client, U!history
<1>3. (\A x \in Handler : Fits(x))'
  BY ListenerSettings DEF AuthInv, AuthTypes, Fits, Has, U!Settings, U!TakeEvent, U!Goes,
     U!settings, U!data, U!client, U!history
<1>4. (\A x \in Handler : Has(x))'
  BY ListenerSettings DEF AuthInv, AuthTypes, Fits, Has, Alone, U!TakeEvent, U!Goes,
     U!settings, U!data, U!client, U!history
<1>5. Alone'
  BY ListenerSettings DEF AuthInv, AuthTypes, Fits, Alone, U!Settings, U!TakeEvent, U!Goes,
     U!settings, U!data, U!client, U!history
<1>6. Collects'
  BY ListenerSettings DEF AuthInv, AuthTypes, Fits, Collects, U!TakeEvent, U!Goes,
     U!settings, U!data, U!client, U!history
<1>7. U!AnsweredOnce'
  BY ListenerSettings DEF AuthInv, AuthTypes, Fits, Has, U!AnsweredOnce, U!TakeEvent,
     U!Goes, U!settings, U!data, U!client, U!history
<1>8. (\A x \in Handler : Placed(x))'
  BY ListenerSettings DEF AuthInv, AuthTypes, Fits, Placed, U!TakeEvent, U!Goes, U!settings,
     U!data, U!client, U!history
<1>9. U!RedirectOwn'
  BY ListenerSettings DEF AuthInv, AuthTypes, Fits, Has, Placed, U!RedirectOwn, U!TakeEvent,
     U!Goes, U!settings, U!data, U!client, U!history
<1>10. Fresh'
  <2> SUFFICES ASSUME NEW x \in Client, outcome'[x] = "waiting",
                      \A g \in Handler : job'[g] = x => pc'[g] \in Early
               PROVE  ~intro'[x] /\ ~given'[x]
    BY DEF Fresh
  <2>1. outcome[x] = "waiting" /\ \A g \in Handler : job[g] = x => pc[g] \in Early
    BY ListenerSettings DEF AuthInv, AuthTypes, Fits, Has, Early, U!Settings, U!TakeEvent,
       U!Goes, U!settings, U!data, U!client, U!history
  <2>2. ~intro[x] /\ ~given[x]
    BY <2>1 DEF AuthInv, Fresh
  <2> QED
    BY <2>1, <2>2 DEF AuthInv, AuthTypes, FlagTypes, Fits, Early, U!TakeEvent, U!Goes,
       U!settings, U!data, U!client, U!history
<1>11. (\A x \in Handler : Settled(x))'
  BY ListenerSettings DEF AuthInv, AuthTypes, FlagTypes, Fits, Has, Alone, Collects, Fresh,
     Settled, Early, U!TakeEvent, U!Goes, U!settings, U!data, U!client, U!history
<1>12. Matched'
  BY ListenerSettings DEF AuthInv, AuthTypes, FlagTypes, Fits, Has, Alone, Collects, Fresh,
     Settled, Matched, U!TakeEvent, U!Goes, U!settings, U!data, U!client, U!history
<1>13. Admitted'
  BY ListenerSettings DEF AuthInv, AuthTypes, FlagTypes, Fits, Has, Admitted, U!TakeEvent,
     U!Goes, U!settings, U!data, U!client, U!history
<1>14. Backs'
  BY ListenerSettings DEF AuthInv, AuthTypes, Fits, Backs, U!Settings, U!TakeEvent, U!Goes,
     U!settings, U!data, U!client, U!history
<1> QED
  BY <1>1, <1>2, <1>3, <1>4, <1>5, <1>6, <1>7, <1>8, <1>9, <1>10, <1>11, <1>12, <1>13, <1>14
     DEF AuthInv

(* While requests are held back a client is let in only if it is presumed innocent. *)
LEMMA UrlCheckKeeps ==
  ASSUME ListenerSettings, AuthInv, NEW h \in Handler, U!UrlCheck(h)
  PROVE  AuthInv'
<1>1. AuthTypes'
  BY ListenerSettings DEF AuthInv, AuthTypes, Fits, Has, U!Settings, Steps, Outcomes, Whose,
     U!UrlCheck, U!LetInUnasked, U!Goes, U!settings, U!data, U!client, U!history
<1>2. FlagTypes'
  BY ListenerSettings DEF AuthInv, AuthTypes, FlagTypes, Fits, U!UrlCheck, U!LetInUnasked,
     U!Goes, U!settings, U!data, U!client, U!history
<1>3. (\A x \in Handler : Fits(x))'
  BY ListenerSettings DEF AuthInv, AuthTypes, Fits, Has, U!Settings, U!UrlCheck,
     U!LetInUnasked, U!Goes, U!settings, U!data, U!client, U!history
<1>4. (\A x \in Handler : Has(x))'
  BY ListenerSettings DEF AuthInv, AuthTypes, Fits, Has, Alone, U!UrlCheck, U!LetInUnasked,
     U!Goes, U!settings, U!data, U!client, U!history
<1>5. Alone'
  BY ListenerSettings DEF AuthInv, AuthTypes, Fits, Alone, U!Settings, U!UrlCheck,
     U!LetInUnasked, U!Goes, U!settings, U!data, U!client, U!history
<1>6. Collects'
  BY ListenerSettings DEF AuthInv, AuthTypes, Fits, Collects, U!UrlCheck, U!LetInUnasked,
     U!Goes, U!settings, U!data, U!client, U!history
<1>7. U!AnsweredOnce'
  BY ListenerSettings DEF AuthInv, AuthTypes, Fits, Has, U!AnsweredOnce, U!UrlCheck,
     U!LetInUnasked, U!Goes, U!settings, U!data, U!client, U!history
<1>8. (\A x \in Handler : Placed(x))'
  BY ListenerSettings DEF AuthInv, AuthTypes, Fits, Placed, U!UrlCheck, U!LetInUnasked,
     U!Goes, U!settings, U!data, U!client, U!history
<1>9. U!RedirectOwn'
  BY ListenerSettings DEF AuthInv, AuthTypes, Fits, Has, Placed, U!RedirectOwn, U!UrlCheck,
     U!LetInUnasked, U!Goes, U!settings, U!data, U!client, U!history
<1>10. Fresh'
  <2> SUFFICES ASSUME NEW x \in Client, outcome'[x] = "waiting",
                      \A g \in Handler : job'[g] = x => pc'[g] \in Early
               PROVE  ~intro'[x] /\ ~given'[x]
    BY DEF Fresh
  <2>1. outcome[x] = "waiting" /\ \A g \in Handler : job[g] = x => pc[g] \in Early
    BY ListenerSettings DEF AuthInv, AuthTypes, Fits, Has, Early, U!Settings, U!UrlCheck,
       U!LetInUnasked, U!Goes, U!settings, U!data, U!client, U!history
  <2>2. ~intro[x] /\ ~given[x]
    BY <2>1 DEF AuthInv, Fresh
  <2> QED
    BY <2>1, <2>2 DEF AuthInv, AuthTypes, FlagTypes, Fits, Early, U!UrlCheck,
       U!LetInUnasked, U!Goes, U!settings, U!data, U!client, U!history
<1>11. (\A x \in Handler : Settled(x))'
  BY ListenerSettings DEF AuthInv, AuthTypes, FlagTypes, Fits, Has, Alone, Collects, Fresh,
     Settled, Early, U!UrlCheck, U!LetInUnasked, U!Goes, U!settings, U!data, U!client,
     U!history
<1>12. Matched'
  BY ListenerSettings DEF AuthInv, AuthTypes, FlagTypes, Fits, Has, Alone, Collects, Fresh,
     Settled, Matched, U!UrlCheck, U!LetInUnasked, U!Goes, U!settings, U!data, U!client,
     U!history
<1>13. Admitted'
  BY ListenerSettings DEF AuthInv, AuthTypes, FlagTypes, Fits, Has, Admitted, U!UrlCheck,
     U!LetInUnasked, U!Goes, U!settings, U!data, U!client, U!history
<1>14. Backs'
  BY ListenerSettings DEF AuthInv, AuthTypes, Fits, Backs, U!Settings, U!UrlCheck,
     U!LetInUnasked, U!Goes, U!settings, U!data, U!client, U!history
<1> QED
  BY <1>1, <1>2, <1>3, <1>4, <1>5, <1>6, <1>7, <1>8, <1>9, <1>10, <1>11, <1>12, <1>13, <1>14
     DEF AuthInv

(* A back-off that is cleared was over, or was another's. *)
LEMMA UrlClearKeeps ==
  ASSUME ListenerSettings, AuthInv, NEW h \in Handler, U!UrlClear(h)
  PROVE  AuthInv'
<1>1. AuthTypes'
  BY ListenerSettings DEF AuthInv, AuthTypes, Fits, Has, U!Settings, Steps, Outcomes, Whose,
     U!UrlClear, U!Expired, U!Goes, U!settings, U!data, U!client, U!history
<1>2. FlagTypes'
  BY ListenerSettings DEF AuthInv, AuthTypes, FlagTypes, Fits, U!UrlClear, U!Expired,
     U!Goes, U!settings, U!data, U!client, U!history
<1>3. (\A x \in Handler : Fits(x))'
  BY ListenerSettings DEF AuthInv, AuthTypes, Fits, Has, U!Settings, U!UrlClear, U!Expired,
     U!Goes, U!settings, U!data, U!client, U!history
<1>4. (\A x \in Handler : Has(x))'
  BY ListenerSettings DEF AuthInv, AuthTypes, Fits, Has, Alone, U!UrlClear, U!Expired,
     U!Goes, U!settings, U!data, U!client, U!history
<1>5. Alone'
  BY ListenerSettings DEF AuthInv, AuthTypes, Fits, Alone, U!Settings, U!UrlClear,
     U!Expired, U!Goes, U!settings, U!data, U!client, U!history
<1>6. Collects'
  BY ListenerSettings DEF AuthInv, AuthTypes, Fits, Collects, U!UrlClear, U!Expired, U!Goes,
     U!settings, U!data, U!client, U!history
<1>7. U!AnsweredOnce'
  BY ListenerSettings DEF AuthInv, AuthTypes, Fits, Has, U!AnsweredOnce, U!UrlClear,
     U!Expired, U!Goes, U!settings, U!data, U!client, U!history
<1>8. (\A x \in Handler : Placed(x))'
  BY ListenerSettings DEF AuthInv, AuthTypes, Fits, Placed, U!UrlClear, U!Expired, U!Goes,
     U!settings, U!data, U!client, U!history
<1>9. U!RedirectOwn'
  BY ListenerSettings DEF AuthInv, AuthTypes, Fits, Has, Placed, U!RedirectOwn, U!UrlClear,
     U!Expired, U!Goes, U!settings, U!data, U!client, U!history
<1>10. Fresh'
  <2> SUFFICES ASSUME NEW x \in Client, outcome'[x] = "waiting",
                      \A g \in Handler : job'[g] = x => pc'[g] \in Early
               PROVE  ~intro'[x] /\ ~given'[x]
    BY DEF Fresh
  <2>1. outcome[x] = "waiting" /\ \A g \in Handler : job[g] = x => pc[g] \in Early
    BY ListenerSettings DEF AuthInv, AuthTypes, Fits, Has, Early, U!Settings, U!UrlClear,
       U!Expired, U!Goes, U!settings, U!data, U!client, U!history
  <2>2. ~intro[x] /\ ~given[x]
    BY <2>1 DEF AuthInv, Fresh
  <2> QED
    BY <2>1, <2>2 DEF AuthInv, AuthTypes, FlagTypes, Fits, Early, U!UrlClear, U!Expired,
       U!Goes, U!settings, U!data, U!client, U!history
<1>11. (\A x \in Handler : Settled(x))'
  BY ListenerSettings DEF AuthInv, AuthTypes, FlagTypes, Fits, Has, Alone, Collects, Fresh,
     Settled, Early, U!UrlClear, U!Expired, U!Goes, U!settings, U!data, U!client, U!history
<1>12. Matched'
  BY ListenerSettings DEF AuthInv, AuthTypes, FlagTypes, Fits, Has, Alone, Collects, Fresh,
     Settled, Matched, U!UrlClear, U!Expired, U!Goes, U!settings, U!data, U!client,
     U!history
<1>13. Admitted'
  BY ListenerSettings DEF AuthInv, AuthTypes, FlagTypes, Fits, Has, Admitted, U!UrlClear,
     U!Expired, U!Goes, U!settings, U!data, U!client, U!history
<1>14. Backs'
  <2>1. CASE U!Expired(kind[h])
    <3>1. until <= now
      BY <2>1, ListenerSettings DEF AuthInv, Backs, U!Expired, U!Settings
    <3> QED
      BY <3>1, <2>1, ListenerSettings DEF AuthInv, Backs, U!Settings, U!UrlClear,
         U!Goes, U!settings, U!data, U!client, U!history
  <2>2. CASE ~U!Expired(kind[h])
    <3>1. raced' = TRUE
      BY <2>2 DEF U!UrlClear
    <3> QED
      BY <3>1, ListenerSettings DEF AuthInv, Backs, U!Settings, U!UrlClear, U!Goes,
         U!settings, U!data, U!client, U!history
  <2> QED
    BY <2>1, <2>2
<1> QED
  BY <1>1, <1>2, <1>3, <1>4, <1>5, <1>6, <1>7, <1>8, <1>9, <1>10, <1>11, <1>12, <1>13, <1>14
     DEF AuthInv

(* A request that cannot be made is answered at the end, with nothing said. *)
LEMMA RequestFailsKeeps ==
  ASSUME ListenerSettings, AuthInv, NEW h \in Handler, U!RequestFails(h)
  PROVE  AuthInv'
<1>1. AuthTypes'
  BY ListenerSettings DEF AuthInv, AuthTypes, Fits, Has, U!Settings, Steps, Outcomes, Whose,
     U!RequestFails, U!Goes, U!settings, U!data, U!client, U!history
<1>2. FlagTypes'
  BY ListenerSettings DEF AuthInv, AuthTypes, FlagTypes, Fits, U!RequestFails, U!Goes,
     U!settings, U!data, U!client, U!history
<1>3. (\A x \in Handler : Fits(x))'
  BY ListenerSettings DEF AuthInv, AuthTypes, Fits, Has, U!Settings, U!RequestFails, U!Goes,
     U!settings, U!data, U!client, U!history
<1>4. (\A x \in Handler : Has(x))'
  BY ListenerSettings DEF AuthInv, AuthTypes, Fits, Has, Alone, U!RequestFails, U!Goes,
     U!settings, U!data, U!client, U!history
<1>5. Alone'
  BY ListenerSettings DEF AuthInv, AuthTypes, Fits, Alone, U!Settings, U!RequestFails,
     U!Goes, U!settings, U!data, U!client, U!history
<1>6. Collects'
  BY ListenerSettings DEF AuthInv, AuthTypes, Fits, Collects, U!RequestFails, U!Goes,
     U!settings, U!data, U!client, U!history
<1>7. U!AnsweredOnce'
  BY ListenerSettings DEF AuthInv, AuthTypes, Fits, Has, U!AnsweredOnce, U!RequestFails,
     U!Goes, U!settings, U!data, U!client, U!history
<1>8. (\A x \in Handler : Placed(x))'
  BY ListenerSettings DEF AuthInv, AuthTypes, Fits, Placed, U!RequestFails, U!Goes,
     U!settings, U!data, U!client, U!history
<1>9. U!RedirectOwn'
  BY ListenerSettings DEF AuthInv, AuthTypes, Fits, Has, Placed, U!RedirectOwn,
     U!RequestFails, U!Goes, U!settings, U!data, U!client, U!history
<1>10. Fresh'
  <2> SUFFICES ASSUME NEW x \in Client, outcome'[x] = "waiting",
                      \A g \in Handler : job'[g] = x => pc'[g] \in Early
               PROVE  ~intro'[x] /\ ~given'[x]
    BY DEF Fresh
  <2>1. outcome[x] = "waiting" /\ \A g \in Handler : job[g] = x => pc[g] \in Early
    BY ListenerSettings DEF AuthInv, AuthTypes, Fits, Has, Early, U!Settings,
       U!RequestFails, U!Goes, U!settings, U!data, U!client, U!history
  <2>2. ~intro[x] /\ ~given[x]
    BY <2>1 DEF AuthInv, Fresh
  <2> QED
    BY <2>1, <2>2 DEF AuthInv, AuthTypes, FlagTypes, Fits, Early, U!RequestFails, U!Goes,
       U!settings, U!data, U!client, U!history
<1>11. (\A x \in Handler : Settled(x))'
  BY ListenerSettings DEF AuthInv, AuthTypes, FlagTypes, Fits, Has, Alone, Collects, Fresh,
     Settled, Early, U!RequestFails, U!Goes, U!settings, U!data, U!client, U!history
<1>12. Matched'
  BY ListenerSettings DEF AuthInv, AuthTypes, FlagTypes, Fits, Has, Alone, Collects, Fresh,
     Settled, Matched, U!RequestFails, U!Goes, U!settings, U!data, U!client, U!history
<1>13. Admitted'
  BY ListenerSettings DEF AuthInv, AuthTypes, FlagTypes, Fits, Has, Admitted,
     U!RequestFails, U!Goes, U!settings, U!data, U!client, U!history
<1>14. Backs'
  BY ListenerSettings DEF AuthInv, AuthTypes, Fits, Backs, U!Settings, U!RequestFails,
     U!Goes, U!settings, U!data, U!client, U!history
<1> QED
  BY <1>1, <1>2, <1>3, <1>4, <1>5, <1>6, <1>7, <1>8, <1>9, <1>10, <1>11, <1>12, <1>13, <1>14
     DEF AuthInv

(* An add request starts with no location. *)
LEMMA UrlRequestKeeps ==
  ASSUME ListenerSettings, AuthInv, NEW h \in Handler, U!UrlRequest(h)
  PROVE  AuthInv'
<1>1. AuthTypes'
  BY ListenerSettings DEF AuthInv, AuthTypes, Fits, Has, U!Settings, Steps, Outcomes, Whose,
     U!UrlRequest, U!StartLocation, U!Goes, U!settings, U!data, U!client, U!history
<1>2. FlagTypes'
  BY ListenerSettings DEF AuthInv, AuthTypes, FlagTypes, Fits, U!UrlRequest,
     U!StartLocation, U!Goes, U!settings, U!data, U!client, U!history
<1>3. (\A x \in Handler : Fits(x))'
  BY ListenerSettings DEF AuthInv, AuthTypes, Fits, Has, U!Settings, U!UrlRequest,
     U!StartLocation, U!Goes, U!settings, U!data, U!client, U!history
<1>4. (\A x \in Handler : Has(x))'
  BY ListenerSettings DEF AuthInv, AuthTypes, Fits, Has, Alone, U!UrlRequest,
     U!StartLocation, U!Goes, U!settings, U!data, U!client, U!history
<1>5. Alone'
  BY ListenerSettings DEF AuthInv, AuthTypes, Fits, Alone, U!Settings, U!UrlRequest,
     U!StartLocation, U!Goes, U!settings, U!data, U!client, U!history
<1>6. Collects'
  BY ListenerSettings DEF AuthInv, AuthTypes, Fits, Collects, U!UrlRequest, U!StartLocation,
     U!Goes, U!settings, U!data, U!client, U!history
<1>7. U!AnsweredOnce'
  BY ListenerSettings DEF AuthInv, AuthTypes, Fits, Has, U!AnsweredOnce, U!UrlRequest,
     U!StartLocation, U!Goes, U!settings, U!data, U!client, U!history
<1>8. (\A x \in Handler : Placed(x))'
  BY ListenerSettings DEF AuthInv, AuthTypes, Fits, Placed, U!UrlRequest, U!StartLocation,
     U!Goes, U!settings, U!data, U!client, U!history
<1>9. U!RedirectOwn'
  BY ListenerSettings DEF AuthInv, AuthTypes, Fits, Has, Placed, U!RedirectOwn,
     U!UrlRequest, U!StartLocation, U!Goes, U!settings, U!data, U!client, U!history
<1>10. Fresh'
  <2> SUFFICES ASSUME NEW x \in Client, outcome'[x] = "waiting",
                      \A g \in Handler : job'[g] = x => pc'[g] \in Early
               PROVE  ~intro'[x] /\ ~given'[x]
    BY DEF Fresh
  <2>1. outcome[x] = "waiting" /\ \A g \in Handler : job[g] = x => pc[g] \in Early
    BY ListenerSettings DEF AuthInv, AuthTypes, Fits, Has, Early, U!Settings,
       U!UrlRequest, U!StartLocation, U!Goes, U!settings, U!data, U!client, U!history
  <2>2. ~intro[x] /\ ~given[x]
    BY <2>1 DEF AuthInv, Fresh
  <2> QED
    BY <2>1, <2>2 DEF AuthInv, AuthTypes, FlagTypes, Fits, Early, U!UrlRequest,
       U!StartLocation, U!Goes, U!settings, U!data, U!client, U!history
<1>11. (\A x \in Handler : Settled(x))'
  BY ListenerSettings DEF AuthInv, AuthTypes, FlagTypes, Fits, Has, Alone, Collects, Fresh,
     Settled, Early, U!UrlRequest, U!StartLocation, U!Goes, U!settings, U!data, U!client,
     U!history
<1>12. Matched'
  BY ListenerSettings DEF AuthInv, AuthTypes, FlagTypes, Fits, Has, Alone, Collects, Fresh,
     Settled, Matched, U!UrlRequest, U!StartLocation, U!Goes, U!settings, U!data, U!client,
     U!history
<1>13. Admitted'
  BY ListenerSettings DEF AuthInv, AuthTypes, FlagTypes, Fits, Has, Admitted, U!UrlRequest,
     U!StartLocation, U!Goes, U!settings, U!data, U!client, U!history
<1>14. Backs'
  BY ListenerSettings DEF AuthInv, AuthTypes, Fits, Backs, U!Settings, U!UrlRequest,
     U!StartLocation, U!Goes, U!settings, U!data, U!client, U!history
<1> QED
  BY <1>1, <1>2, <1>3, <1>4, <1>5, <1>6, <1>7, <1>8, <1>9, <1>10, <1>11, <1>12, <1>13, <1>14
     DEF AuthInv

(* Intro content is collected for an add request only. *)
LEMMA BodyKeeps ==
  ASSUME ListenerSettings, AuthInv, NEW h \in Handler, U!Body(h)
  PROVE  AuthInv'
<1>1. AuthTypes'
  BY ListenerSettings DEF AuthInv, AuthTypes, Fits, Has, U!Settings, Steps, Outcomes, Whose,
     U!Body, U!Goes, U!settings, U!data, U!client, U!history
<1>2. FlagTypes'
  BY ListenerSettings DEF AuthInv, AuthTypes, FlagTypes, Fits, U!Body, U!Goes, U!settings,
     U!data, U!client, U!history
<1>3. (\A x \in Handler : Fits(x))'
  BY ListenerSettings DEF AuthInv, AuthTypes, Fits, Has, U!Settings, U!Body, U!Goes,
     U!settings, U!data, U!client, U!history
<1>4. (\A x \in Handler : Has(x))'
  BY ListenerSettings DEF AuthInv, AuthTypes, Fits, Has, Alone, U!Body, U!Goes, U!settings,
     U!data, U!client, U!history
<1>5. Alone'
  BY ListenerSettings DEF AuthInv, AuthTypes, Fits, Alone, U!Settings, U!Body, U!Goes,
     U!settings, U!data, U!client, U!history
<1>6. Collects'
  BY ListenerSettings DEF AuthInv, AuthTypes, Fits, Collects, U!Body, U!Goes, U!settings,
     U!data, U!client, U!history
<1>7. U!AnsweredOnce'
  BY ListenerSettings DEF AuthInv, AuthTypes, Fits, Has, U!AnsweredOnce, U!Body, U!Goes,
     U!settings, U!data, U!client, U!history
<1>8. (\A x \in Handler : Placed(x))'
  BY ListenerSettings DEF AuthInv, AuthTypes, Fits, Placed, U!Body, U!Goes, U!settings,
     U!data, U!client, U!history
<1>9. U!RedirectOwn'
  BY ListenerSettings DEF AuthInv, AuthTypes, Fits, Has, Placed, U!RedirectOwn, U!Body,
     U!Goes, U!settings, U!data, U!client, U!history
<1>10. Fresh'
  <2> SUFFICES ASSUME NEW x \in Client, outcome'[x] = "waiting",
                      \A g \in Handler : job'[g] = x => pc'[g] \in Early
               PROVE  ~intro'[x] /\ ~given'[x]
    BY DEF Fresh
  <2>1. outcome[x] = "waiting" /\ \A g \in Handler : job[g] = x => pc[g] \in Early
    BY ListenerSettings DEF AuthInv, AuthTypes, Fits, Has, Early, U!Settings, U!Body,
       U!Goes, U!settings, U!data, U!client, U!history
  <2>2. ~intro[x] /\ ~given[x]
    BY <2>1 DEF AuthInv, Fresh
  <2> QED
    BY <2>1, <2>2 DEF AuthInv, AuthTypes, FlagTypes, Fits, Early, U!Body, U!Goes,
       U!settings, U!data, U!client, U!history
<1>11. (\A x \in Handler : Settled(x))'
  BY ListenerSettings DEF AuthInv, AuthTypes, FlagTypes, Fits, Has, Alone, Collects, Fresh,
     Settled, Early, U!Body, U!Goes, U!settings, U!data, U!client, U!history
<1>12. Matched'
  BY ListenerSettings DEF AuthInv, AuthTypes, FlagTypes, Fits, Has, Alone, Collects, Fresh,
     Settled, Matched, U!Body, U!Goes, U!settings, U!data, U!client, U!history
<1>13. Admitted'
  BY ListenerSettings DEF AuthInv, AuthTypes, FlagTypes, Fits, Has, Admitted, U!Body,
     U!Goes, U!settings, U!data, U!client, U!history
<1>14. Backs'
  BY ListenerSettings DEF AuthInv, AuthTypes, Fits, Backs, U!Settings, U!Body, U!Goes,
     U!settings, U!data, U!client, U!history
<1> QED
  BY <1>1, <1>2, <1>3, <1>4, <1>5, <1>6, <1>7, <1>8, <1>9, <1>10, <1>11, <1>12, <1>13, <1>14
     DEF AuthInv

(* The location of a redirect is the one of the client, or was left with the thread. *)
LEMMA CmdRefusesKeeps ==
  ASSUME ListenerSettings, AuthInv, NEW h \in Handler, U!CmdRefuses(h)
  PROVE  AuthInv'
<1>1. AuthTypes'
  <2>1. job[h] \in Client /\ outcome \in [Client -> Outcomes]
    BY DEF AuthInv, AuthTypes, Fits, Settled, U!CmdRefuses
  <2>2. outcome' \in [Client -> Outcomes]
    <3>1. outcome' = outcome \/ \E o \in {"302", "403"} : outcome' = [outcome EXCEPT ![job[h]] = o]
      BY DEF U!CmdRefuses, U!Send
    <3> QED
      BY <2>1, <3>1 DEF Outcomes
  <2>3. /\ answers' \in [Client -> Nat] /\ owner' \in [Handler -> Whose]
        /\ location' \in [Handler -> SUBSET Whose] /\ target' \in [Client -> SUBSET Whose]
        /\ left' \in BOOLEAN
    <3>1. CASE message[h] = "403"
      BY <2>1, <3>1 DEF AuthInv, AuthTypes, Whose, U!CmdRefuses, U!Send
    <3>2. CASE message[h] # "403" /\ location[h] # {}
      BY <2>1, <3>2 DEF AuthInv, AuthTypes, Whose, U!CmdRefuses, U!Send
    <3>3. CASE message[h] # "403" /\ location[h] = {}
      BY <2>1, <3>3 DEF AuthInv, AuthTypes, Whose, U!CmdRefuses, U!Send
    <3> QED
      BY <3>1, <3>2, <3>3
  <2>4. pc' \in [Handler -> Steps]
    BY DEF AuthInv, AuthTypes, Steps, U!CmdRefuses, U!Goes
  <2> QED
    BY <2>2, <2>3, <2>4 DEF AuthInv, AuthTypes, U!CmdRefuses, U!Goes, U!settings, U!data,
       U!client, U!history
<1>2. FlagTypes'
  BY ListenerSettings DEF AuthInv, AuthTypes, FlagTypes, Fits, U!CmdRefuses, U!Send, U!Goes,
     U!settings, U!data, U!client, U!history
<1>3. (\A x \in Handler : Fits(x))'
  BY ListenerSettings DEF AuthInv, AuthTypes, Fits, Has, U!Settings, U!CmdRefuses, U!Send,
     U!Goes, U!settings, U!data, U!client, U!history
<1>4. (\A x \in Handler : Has(x))'
  BY ListenerSettings DEF AuthInv, AuthTypes, Fits, Has, Alone, U!CmdRefuses, U!Send,
     U!Goes, U!settings, U!data, U!client, U!history
<1>5. Alone'
  BY ListenerSettings DEF AuthInv, AuthTypes, Fits, Alone, U!Settings, U!CmdRefuses, U!Send,
     U!Goes, U!settings, U!data, U!client, U!history
<1>6. Collects'
  BY ListenerSettings DEF AuthInv, AuthTypes, Fits, Collects, U!CmdRefuses, U!Send, U!Goes,
     U!settings, U!data, U!client, U!history
<1>7. U!AnsweredOnce'
  BY ListenerSettings DEF AuthInv, AuthTypes, Fits, Has, U!AnsweredOnce, U!CmdRefuses,
     U!Send, U!Goes, U!settings, U!data, U!client, U!history
<1>8. (\A x \in Handler : Placed(x))'
  <2>1. backend = "cmd" /\ pc' = [pc EXCEPT ![h] = "post"] /\ UNCHANGED <<backend, job, kind>>
    BY DEF AuthInv, Fits, U!CmdRefuses, U!Goes, U!settings, U!data, U!client, U!history
  <2>2. /\ left' \/ location'[h] = {}
        /\ left => left'
        /\ \A g \in Handler : g # h => location'[g] = location[g]
    BY DEF AuthInv, AuthTypes, U!CmdRefuses
  <2>3. \A g \in Handler : pc'[g] = IF g = h THEN "post" ELSE pc[g]
    BY <2>1 DEF AuthInv, AuthTypes
  <2> QED
    BY <2>1, <2>2, <2>3 DEF AuthInv, Placed
<1>9. U!RedirectOwn'
  BY ListenerSettings DEF AuthInv, AuthTypes, Fits, Has, Placed, U!RedirectOwn,
     U!CmdRefuses, U!Send, U!Goes, U!settings, U!data, U!client, U!history
<1>10. Fresh'
  <2> SUFFICES ASSUME NEW x \in Client, outcome'[x] = "waiting",
                      \A g \in Handler : job'[g] = x => pc'[g] \in Early
               PROVE  ~intro'[x] /\ ~given'[x]
    BY DEF Fresh
  <2>1. outcome[x] = "waiting" /\ \A g \in Handler : job[g] = x => pc[g] \in Early
    BY ListenerSettings DEF AuthInv, AuthTypes, Fits, Has, Early, U!Settings,
       U!CmdRefuses, U!Send, U!Goes, U!settings, U!data, U!client, U!history
  <2>2. ~intro[x] /\ ~given[x]
    BY <2>1 DEF AuthInv, Fresh
  <2> QED
    BY <2>1, <2>2 DEF AuthInv, AuthTypes, FlagTypes, Fits, Early, U!CmdRefuses, U!Send,
       U!Goes, U!settings, U!data, U!client, U!history
<1>11. (\A x \in Handler : Settled(x))'
  BY ListenerSettings DEF AuthInv, AuthTypes, FlagTypes, Fits, Has, Alone, Collects, Fresh,
     Settled, Early, U!CmdRefuses, U!Send, U!Goes, U!settings, U!data, U!client, U!history
<1>12. Matched'
  BY ListenerSettings DEF AuthInv, AuthTypes, FlagTypes, Fits, Has, Alone, Collects, Fresh,
     Settled, Matched, U!CmdRefuses, U!Send, U!Goes, U!settings, U!data, U!client, U!history
<1>13. Admitted'
  BY ListenerSettings DEF AuthInv, AuthTypes, FlagTypes, Fits, Has, Admitted, U!CmdRefuses,
     U!Send, U!Goes, U!settings, U!data, U!client, U!history
<1>14. Backs'
  BY ListenerSettings DEF AuthInv, AuthTypes, Fits, Backs, U!Settings, U!CmdRefuses, U!Send,
     U!Goes, U!settings, U!data, U!client, U!history
<1> QED
  BY <1>1, <1>2, <1>3, <1>4, <1>5, <1>6, <1>7, <1>8, <1>9, <1>10, <1>11, <1>12, <1>13, <1>14
     DEF AuthInv

(* Who is still with its thread is answered, for the first time. *)
LEMMA PostKeeps ==
  ASSUME ListenerSettings, AuthInv, NEW h \in Handler, U!Post(h)
  PROVE  AuthInv'
<1>1. AuthTypes'
  BY ListenerSettings DEF AuthInv, AuthTypes, Fits, Has, U!Settings, Steps, Outcomes, Whose,
     U!Post, U!Answer, U!Send, U!Freed, U!Goes, U!settings, U!data, U!client, U!history
<1>2. FlagTypes'
  <2>1. authed' \in [Client -> BOOLEAN]
    BY DEF AuthInv, AuthTypes, FlagTypes, Fits, U!Post
  <2>2. job[h] \in Client
    BY DEF AuthInv, Fits, U!Post
  <2>3. U!Freed(job[h]) \/ UNCHANGED <<intro, given, granted, slow>>
    BY DEF U!Post
  <2> QED
    BY <2>1, <2>2, <2>3 DEF AuthInv, FlagTypes, U!Freed
<1>3. (\A x \in Handler : Fits(x))'
  BY ListenerSettings DEF AuthInv, AuthTypes, Fits, Has, U!Settings, U!Post, U!Answer,
     U!Send, U!Freed, U!Goes, U!settings, U!data, U!client, U!history
<1>4. (\A x \in Handler : Has(x))'
  BY ListenerSettings DEF AuthInv, AuthTypes, Fits, Has, Alone, U!Post, U!Answer, U!Send,
     U!Freed, U!Goes, U!settings, U!data, U!client, U!history
<1>5. Alone'
  BY ListenerSettings DEF AuthInv, AuthTypes, Fits, Alone, U!Settings, U!Post, U!Answer,
     U!Send, U!Freed, U!Goes, U!settings, U!data, U!client, U!history
<1>6. Collects'
  BY ListenerSettings DEF AuthInv, AuthTypes, Fits, Collects, U!Post, U!Answer, U!Send,
     U!Freed, U!Goes, U!settings, U!data, U!client, U!history
<1>7. U!AnsweredOnce'
  BY ListenerSettings DEF AuthInv, AuthTypes, Fits, Has, U!AnsweredOnce, U!Post, U!Answer,
     U!Send, U!Freed, U!Goes, U!settings, U!data, U!client, U!history
<1>8. (\A x \in Handler : Placed(x))'
  BY ListenerSettings DEF AuthInv, AuthTypes, Fits, Placed, U!Post, U!Answer, U!Send,
     U!Freed, U!Goes, U!settings, U!data, U!client, U!history
<1>9. U!RedirectOwn'
  BY ListenerSettings DEF AuthInv, AuthTypes, Fits, Has, Placed, U!RedirectOwn, U!Post,
     U!Answer, U!Send, U!Freed, U!Goes, U!settings, U!data, U!client, U!history
<1>10. Fresh'
  <2> SUFFICES ASSUME NEW x \in Client, outcome'[x] = "waiting",
                      \A g \in Handler : job'[g] = x => pc'[g] \in Early
               PROVE  ~intro'[x] /\ ~given'[x]
    BY DEF Fresh
  <2>1. outcome[x] = "waiting" /\ \A g \in Handler : job[g] = x => pc[g] \in Early
    BY ListenerSettings DEF AuthInv, AuthTypes, Fits, Has, Early, U!Settings, U!Post,
       U!Answer, U!Send, U!Freed, U!Goes, U!settings, U!data, U!client, U!history
  <2>2. ~intro[x] /\ ~given[x]
    BY <2>1 DEF AuthInv, Fresh
  <2> QED
    BY <2>1, <2>2 DEF AuthInv, AuthTypes, FlagTypes, Fits, Early, U!Post, U!Answer,
       U!Send, U!Freed, U!Goes, U!settings, U!data, U!client, U!history
<1>11. (\A x \in Handler : Settled(x))'
  BY ListenerSettings DEF AuthInv, AuthTypes, FlagTypes, Fits, Has, Alone, Collects, Fresh,
     Settled, Early, U!Post, U!Answer, U!Send, U!Freed, U!Goes, U!settings, U!data,
     U!client, U!history
<1>12. Matched'
  BY ListenerSettings DEF AuthInv, AuthTypes, FlagTypes, Fits, Has, Alone, Collects, Fresh,
     Settled, Matched, U!Post, U!Answer, U!Send, U!Freed, U!Goes, U!settings, U!data,
     U!client, U!history
<1>13. Admitted'
  BY ListenerSettings DEF AuthInv, AuthTypes, FlagTypes, Fits, Has, Admitted, U!Post,
     U!Answer, U!Send, U!Freed, U!Goes, U!settings, U!data, U!client, U!history
<1>14. Backs'
  BY ListenerSettings DEF AuthInv, AuthTypes, Fits, Backs, U!Settings, U!Post, U!Answer,
     U!Send, U!Freed, U!Goes, U!settings, U!data, U!client, U!history
<1> QED
  BY <1>1, <1>2, <1>3, <1>4, <1>5, <1>6, <1>7, <1>8, <1>9, <1>10, <1>11, <1>12, <1>13, <1>14
     DEF AuthInv

(* Who leaves or is dropped was not answered before. *)
LEMMA FinishKeeps ==
  ASSUME ListenerSettings, AuthInv, NEW h \in Handler, U!Finish(h)
  PROVE  AuthInv'
<1>1. AuthTypes'
  BY ListenerSettings DEF AuthInv, AuthTypes, Fits, Has, U!Settings, Steps, Outcomes, Whose,
     U!Finish, U!Send, U!Freed, U!Goes, U!settings, U!data, U!client, U!history
<1>2. FlagTypes'
  BY ListenerSettings DEF AuthInv, AuthTypes, FlagTypes, Fits, U!Finish, U!Send, U!Freed,
     U!Goes, U!settings, U!data, U!client, U!history
<1>3. (\A x \in Handler : Fits(x))'
  BY ListenerSettings DEF AuthInv, AuthTypes, Fits, Has, U!Settings, U!Finish, U!Send,
     U!Freed, U!Goes, U!settings, U!data, U!client, U!history
<1>4. (\A x \in Handler : Has(x))'
  <2>1. /\ job[h] \in Client /\ owner[h] = job[h] /\ answers \in [Client -> Nat]
        /\ outcome[job[h]] \in {"waiting", "leaving"}
    BY ListenerSettings DEF AuthInv, AuthTypes, Fits, Has, U!Finish, U!Settings
  <2>2. PICK o \in {"gone", "401"} : outcome' = [outcome EXCEPT ![job[h]] = o]
    BY DEF U!Finish, U!Send
  <2>3. /\ answers' = [answers EXCEPT ![job[h]] = @ + 1] /\ owner' = [owner EXCEPT ![h] = None]
        /\ kind' = [kind EXCEPT ![h] = "none"] /\ job' = [job EXCEPT ![h] = None]
        /\ pc' = [pc EXCEPT ![h] = "idle"]
    BY DEF U!Finish, U!Send, U!Goes
  <2>4. ASSUME NEW x \in Handler, x # h PROVE Has(x)'
    <3>1. /\ kind'[x] = kind[x] /\ job'[x] = job[x] /\ owner'[x] = owner[x] /\ pc'[x] = pc[x]
          /\ job[x] # job[h]
      BY <2>1, <2>3, <2>4, ListenerSettings DEF AuthInv, AuthTypes, Alone, U!Settings
    <3>2. job[x] \in Client => outcome'[job[x]] = outcome[job[x]]
      BY <2>2, <3>1 DEF AuthInv, AuthTypes
    <3> QED
      BY <3>1, <3>2, ListenerSettings DEF AuthInv, AuthTypes, Fits, Has, Whose, U!Settings
  <2>5. Has(h)'
    BY <2>3 DEF AuthInv, AuthTypes, Has
  <2> QED
    BY <2>4, <2>5
<1>5. Alone'
  BY ListenerSettings DEF AuthInv, AuthTypes, Fits, Alone, U!Settings, U!Finish, U!Send,
     U!Freed, U!Goes, U!settings, U!data, U!client, U!history
<1>6. Collects'
  BY ListenerSettings DEF AuthInv, AuthTypes, Fits, Collects, U!Finish, U!Send, U!Freed,
     U!Goes, U!settings, U!data, U!client, U!history
<1>7. U!AnsweredOnce'
  <2>1. /\ job[h] \in Client /\ owner[h] = job[h] /\ answers \in [Client -> Nat]
        /\ outcome[job[h]] \in {"waiting", "leaving"}
    BY ListenerSettings DEF AuthInv, AuthTypes, Fits, Has, U!Finish, U!Settings
  <2>2. PICK o \in {"gone", "401"} : outcome' = [outcome EXCEPT ![job[h]] = o]
    BY DEF U!Finish, U!Send
  <2>3. /\ answers' = [answers EXCEPT ![job[h]] = @ + 1] /\ owner' = [owner EXCEPT ![h] = None]
        /\ kind' = [kind EXCEPT ![h] = "none"] /\ job' = [job EXCEPT ![h] = None]
        /\ pc' = [pc EXCEPT ![h] = "idle"]
    BY DEF U!Finish, U!Send, U!Goes
  <2> QED
    BY <2>1, <2>2, <2>3 DEF AuthInv, AuthTypes, U!AnsweredOnce
<1>8. (\A x \in Handler : Placed(x))'
  BY ListenerSettings DEF AuthInv, AuthTypes, Fits, Placed, U!Finish, U!Send, U!Freed,
     U!Goes, U!settings, U!data, U!client, U!history
<1>9. U!RedirectOwn'
  BY ListenerSettings DEF AuthInv, AuthTypes, Fits, Has, Placed, U!RedirectOwn, U!Finish,
     U!Send, U!Freed, U!Goes, U!settings, U!data, U!client, U!history
<1>10. Fresh'
  <2> SUFFICES ASSUME NEW x \in Client, outcome'[x] = "waiting",
                      \A g \in Handler : job'[g] = x => pc'[g] \in Early
               PROVE  ~intro'[x] /\ ~given'[x]
    BY DEF Fresh
  <2>1. outcome[x] = "waiting" /\ \A g \in Handler : job[g] = x => pc[g] \in Early
    BY ListenerSettings DEF AuthInv, AuthTypes, Fits, Has, Early, U!Settings, U!Finish,
       U!Send, U!Freed, U!Goes, U!settings, U!data, U!client, U!history
  <2>2. ~intro[x] /\ ~given[x]
    BY <2>1 DEF AuthInv, Fresh
  <2> QED
    BY <2>1, <2>2 DEF AuthInv, AuthTypes, FlagTypes, Fits, Early, U!Finish, U!Send,
       U!Freed, U!Goes, U!settings, U!data, U!client, U!history
<1>11. (\A x \in Handler : Settled(x))'
  BY ListenerSettings DEF AuthInv, AuthTypes, FlagTypes, Fits, Has, Alone, Collects, Fresh,
     Settled, Early, U!Finish, U!Send, U!Freed, U!Goes, U!settings, U!data, U!client,
     U!history
<1>12. Matched'
  BY ListenerSettings DEF AuthInv, AuthTypes, FlagTypes, Fits, Has, Alone, Collects, Fresh,
     Settled, Matched, U!Finish, U!Send, U!Freed, U!Goes, U!settings, U!data, U!client,
     U!history
<1>13. Admitted'
  BY ListenerSettings DEF AuthInv, AuthTypes, FlagTypes, Fits, Has, Admitted, U!Finish,
     U!Send, U!Freed, U!Goes, U!settings, U!data, U!client, U!history
<1>14. Backs'
  BY ListenerSettings DEF AuthInv, AuthTypes, Fits, Backs, U!Settings, U!Finish, U!Send,
     U!Freed, U!Goes, U!settings, U!data, U!client, U!history
<1> QED
  BY <1>1, <1>2, <1>3, <1>4, <1>5, <1>6, <1>7, <1>8, <1>9, <1>10, <1>11, <1>12, <1>13, <1>14
     DEF AuthInv

(* auth_client_free of an event: no client is affected. *)
LEMMA EventEndsKeeps ==
  ASSUME ListenerSettings, AuthInv, NEW h \in Handler, U!EventEnds(h)
  PROVE  AuthInv'
<1>1. AuthTypes'
  BY ListenerSettings DEF AuthInv, AuthTypes, Fits, Has, U!Settings, Steps, Outcomes, Whose,
     U!EventEnds, U!Goes, U!settings, U!data, U!client, U!history
<1>2. FlagTypes'
  BY ListenerSettings DEF AuthInv, AuthTypes, FlagTypes, Fits, U!EventEnds, U!Goes,
     U!settings, U!data, U!client, U!history
<1>3. (\A x \in Handler : Fits(x))'
  BY ListenerSettings DEF AuthInv, AuthTypes, Fits, Has, U!Settings, U!EventEnds, U!Goes,
     U!settings, U!data, U!client, U!history
<1>4. (\A x \in Handler : Has(x))'
  BY ListenerSettings DEF AuthInv, AuthTypes, Fits, Has, Alone, U!EventEnds, U!Goes,
     U!settings, U!data, U!client, U!history
<1>5. Alone'
  BY ListenerSettings DEF AuthInv, AuthTypes, Fits, Alone, U!Settings, U!EventEnds, U!Goes,
     U!settings, U!data, U!client, U!history
<1>6. Collects'
  BY ListenerSettings DEF AuthInv, AuthTypes, Fits, Collects, U!EventEnds, U!Goes,
     U!settings, U!data, U!client, U!history
<1>7. U!AnsweredOnce'
  BY ListenerSettings DEF AuthInv, AuthTypes, Fits, Has, U!AnsweredOnce, U!EventEnds,
     U!Goes, U!settings, U!data, U!client, U!history
<1>8. (\A x \in Handler : Placed(x))'
  BY ListenerSettings DEF AuthInv, AuthTypes, Fits, Placed, U!EventEnds, U!Goes, U!settings,
     U!data, U!client, U!history
<1>9. U!RedirectOwn'
  BY ListenerSettings DEF AuthInv, AuthTypes, Fits, Has, Placed, U!RedirectOwn, U!EventEnds,
     U!Goes, U!settings, U!data, U!client, U!history
<1>10. Fresh'
  <2> SUFFICES ASSUME NEW x \in Client, outcome'[x] = "waiting",
                      \A g \in Handler : job'[g] = x => pc'[g] \in Early
               PROVE  ~intro'[x] /\ ~given'[x]
    BY DEF Fresh
  <2>1. outcome[x] = "waiting" /\ \A g \in Handler : job[g] = x => pc[g] \in Early
    BY ListenerSettings DEF AuthInv, AuthTypes, Fits, Has, Early, U!Settings, U!EventEnds,
       U!Goes, U!settings, U!data, U!client, U!history
  <2>2. ~intro[x] /\ ~given[x]
    BY <2>1 DEF AuthInv, Fresh
  <2> QED
    BY <2>1, <2>2 DEF AuthInv, AuthTypes, FlagTypes, Fits, Early, U!EventEnds, U!Goes,
       U!settings, U!data, U!client, U!history
<1>11. (\A x \in Handler : Settled(x))'
  BY ListenerSettings DEF AuthInv, AuthTypes, FlagTypes, Fits, Has, Alone, Collects, Fresh,
     Settled, Early, U!EventEnds, U!Goes, U!settings, U!data, U!client, U!history
<1>12. Matched'
  BY ListenerSettings DEF AuthInv, AuthTypes, FlagTypes, Fits, Has, Alone, Collects, Fresh,
     Settled, Matched, U!EventEnds, U!Goes, U!settings, U!data, U!client, U!history
<1>13. Admitted'
  BY ListenerSettings DEF AuthInv, AuthTypes, FlagTypes, Fits, Has, Admitted, U!EventEnds,
     U!Goes, U!settings, U!data, U!client, U!history
<1>14. Backs'
  BY ListenerSettings DEF AuthInv, AuthTypes, Fits, Backs, U!Settings, U!EventEnds, U!Goes,
     U!settings, U!data, U!client, U!history
<1> QED
  BY <1>1, <1>2, <1>3, <1>4, <1>5, <1>6, <1>7, <1>8, <1>9, <1>10, <1>11, <1>12, <1>13, <1>14
     DEF AuthInv

(* auth_cmd_client: without a child process nothing was said. *)
LEMMA CmdRequestKeeps ==
  ASSUME ListenerSettings, AuthInv, NEW h \in Handler, NEW b \in BOOLEAN,
         U!CmdRequest(h, b)
  PROVE  AuthInv'
<1>1. AuthTypes'
  BY ListenerSettings DEF AuthInv, AuthTypes, Fits, Has, U!Settings, Steps, Outcomes, Whose,
     U!CmdRequest, U!Goes, U!settings, U!data, U!client, U!history
<1>2. FlagTypes'
  BY ListenerSettings DEF AuthInv, AuthTypes, FlagTypes, Fits, U!CmdRequest, U!Goes,
     U!settings, U!data, U!client, U!history
<1>3. (\A x \in Handler : Fits(x))'
  BY ListenerSettings DEF AuthInv, AuthTypes, Fits, Has, U!Settings, U!CmdRequest, U!Goes,
     U!settings, U!data, U!client, U!history
<1>4. (\A x \in Handler : Has(x))'
  BY ListenerSettings DEF AuthInv, AuthTypes, Fits, Has, Alone, U!CmdRequest, U!Goes,
     U!settings, U!data, U!client, U!history
<1>5. Alone'
  BY ListenerSettings DEF AuthInv, AuthTypes, Fits, Alone, U!Settings, U!CmdRequest, U!Goes,
     U!settings, U!data, U!client, U!history
<1>6. Collects'
  BY ListenerSettings DEF AuthInv, AuthTypes, Fits, Collects, U!CmdRequest, U!Goes,
     U!settings, U!data, U!client, U!history
<1>7. U!AnsweredOnce'
  BY ListenerSettings DEF AuthInv, AuthTypes, Fits, Has, U!AnsweredOnce, U!CmdRequest,
     U!Goes, U!settings, U!data, U!client, U!history
<1>8. (\A x \in Handler : Placed(x))'
  BY ListenerSettings DEF AuthInv, AuthTypes, Fits, Placed, U!CmdRequest, U!Goes,
     U!settings, U!data, U!client, U!history
<1>9. U!RedirectOwn'
  BY ListenerSettings DEF AuthInv, AuthTypes, Fits, Has, Placed, U!RedirectOwn,
     U!CmdRequest, U!Goes, U!settings, U!data, U!client, U!history
<1>10. Fresh'
  <2> SUFFICES ASSUME NEW x \in Client, outcome'[x] = "waiting",
                      \A g \in Handler : job'[g] = x => pc'[g] \in Early
               PROVE  ~intro'[x] /\ ~given'[x]
    BY DEF Fresh
  <2>1. outcome[x] = "waiting" /\ \A g \in Handler : job[g] = x => pc[g] \in Early
    BY ListenerSettings DEF AuthInv, AuthTypes, Fits, Has, Early, U!Settings,
       U!CmdRequest, U!Goes, U!settings, U!data, U!client, U!history
  <2>2. ~intro[x] /\ ~given[x]
    BY <2>1 DEF AuthInv, Fresh
  <2> QED
    BY <2>1, <2>2 DEF AuthInv, AuthTypes, FlagTypes, Fits, Early, U!CmdRequest, U!Goes,
       U!settings, U!data, U!client, U!history
<1>11. (\A x \in Handler : Settled(x))'
  BY ListenerSettings DEF AuthInv, AuthTypes, FlagTypes, Fits, Has, Alone, Collects, Fresh,
     Settled, Early, U!CmdRequest, U!Goes, U!settings, U!data, U!client, U!history
<1>12. Matched'
  BY ListenerSettings DEF AuthInv, AuthTypes, FlagTypes, Fits, Has, Alone, Collects, Fresh,
     Settled, Matched, U!CmdRequest, U!Goes, U!settings, U!data, U!client, U!history
<1>13. Admitted'
  BY ListenerSettings DEF AuthInv, AuthTypes, FlagTypes, Fits, Has, Admitted, U!CmdRequest,
     U!Goes, U!settings, U!data, U!client, U!history
<1>14. Backs'
  BY ListenerSettings DEF AuthInv, AuthTypes, Fits, Backs, U!Settings, U!CmdRequest, U!Goes,
     U!settings, U!data, U!client, U!history
<1> QED
  BY <1>1, <1>2, <1>3, <1>4, <1>5, <1>6, <1>7, <1>8, <1>9, <1>10, <1>11, <1>12, <1>13, <1>14
     DEF AuthInv

(* url_add_listener: the intro is settled, and a redirect goes to the location of the request. *)
LEMMA UrlAddedKeeps ==
  ASSUME ListenerSettings, AuthInv, NEW h \in Handler, NEW b \in BOOLEAN,
         U!UrlAdded(h, b)
  PROVE  AuthInv'
<1>1. AuthTypes'
  <2>1. job[h] \in Client /\ outcome \in [Client -> Outcomes]
    BY DEF AuthInv, AuthTypes, Fits, U!UrlAdded
  <2>2. outcome' \in [Client -> Outcomes]
    <3>1. outcome' = outcome \/ \E o \in {"302", "403"} : outcome' = [outcome EXCEPT ![job[h]] = o]
      BY DEF U!UrlAdded, U!Send
    <3> QED
      BY <2>1, <3>1 DEF Outcomes
  <2>3. /\ answers' \in [Client -> Nat] /\ owner' \in [Handler -> Whose]
        /\ location' \in [Handler -> SUBSET Whose] /\ target' \in [Client -> SUBSET Whose]
        /\ message' \in [Handler -> {"other", "403"}]
    <3>1. CASE location[h] # {}
      <4>1. /\ answers' = [answers EXCEPT ![job[h]] = @ + 1] /\ owner' = [owner EXCEPT ![h] = None]
            /\ target' = [target EXCEPT ![job[h]] = location[h]]
            /\ location' = [location EXCEPT ![h] = {}]
            /\ message' = [message EXCEPT ![h] = IF b THEN message[h] ELSE "other"]
        BY <3>1 DEF U!UrlAdded, U!Send
      <4>2. /\ (IF b THEN message[h] ELSE "other") \in {"other", "403"}
            /\ location[h] \in SUBSET Whose
        BY DEF AuthInv, AuthTypes
      <4> QED
        BY <2>1, <4>1, <4>2 DEF AuthInv, AuthTypes, Whose
    <3>2. CASE location[h] = {} /\ (b /\ message[h] = "403")
      BY <2>1, <3>2 DEF AuthInv, AuthTypes, Whose, U!UrlAdded, U!Send
    <3>3. CASE location[h] = {} /\ ~(b /\ message[h] = "403")
      <4>1. /\ UNCHANGED <<owner, outcome, answers, target, location>>
            /\ message' = [message EXCEPT ![h] = IF b THEN message[h] ELSE "other"]
        BY <3>3 DEF U!UrlAdded
      <4>2. (IF b THEN message[h] ELSE "other") \in {"other", "403"}
        BY DEF AuthInv, AuthTypes
      <4> QED
        BY <4>1, <4>2 DEF AuthInv, AuthTypes
    <3> QED
      BY <3>1, <3>2, <3>3
  <2>4. pc' \in [Handler -> Steps] /\ held' \in [Handler -> {0, 1}]
    BY DEF AuthInv, AuthTypes, Steps, U!UrlAdded, U!Goes
  <2> QED
    BY <2>2, <2>3, <2>4 DEF AuthInv, AuthTypes, U!UrlAdded, U!Goes, U!settings, U!data,
       U!client, U!history
<1>2. FlagTypes'
  BY ListenerSettings DEF AuthInv, AuthTypes, FlagTypes, Fits, U!UrlAdded, U!Attached,
     U!BackoffSet, U!Send, U!Goes, U!settings, U!data, U!client, U!history
<1>3. (\A x \in Handler : Fits(x))'
  BY ListenerSettings DEF AuthInv, AuthTypes, Fits, Has, U!Settings, U!UrlAdded, U!Attached,
     U!BackoffSet, U!Send, U!Goes, U!settings, U!data, U!client, U!history
<1>4. (\A x \in Handler : Has(x))'
  BY ListenerSettings DEF AuthInv, AuthTypes, Fits, Has, Alone, U!UrlAdded, U!Attached,
     U!BackoffSet, U!Send, U!Goes, U!settings, U!data, U!client, U!history
<1>5. Alone'
  BY ListenerSettings DEF AuthInv, AuthTypes, Fits, Alone, U!Settings, U!UrlAdded,
     U!Attached, U!BackoffSet, U!Send, U!Goes, U!settings, U!data, U!client, U!history
<1>6. Collects'
  BY ListenerSettings DEF AuthInv, AuthTypes, Fits, Collects, U!UrlAdded, U!Attached,
     U!BackoffSet, U!Send, U!Goes, U!settings, U!data, U!client, U!history
<1>7. U!AnsweredOnce'
  BY ListenerSettings DEF AuthInv, AuthTypes, Fits, Has, U!AnsweredOnce, U!UrlAdded,
     U!Attached, U!BackoffSet, U!Send, U!Goes, U!settings, U!data, U!client, U!history
<1>8. (\A x \in Handler : Placed(x))'
  BY ListenerSettings DEF AuthInv, AuthTypes, Fits, Placed, U!UrlAdded, U!Attached,
     U!BackoffSet, U!Send, U!Goes, U!settings, U!data, U!client, U!history
<1>9. U!RedirectOwn'
  BY ListenerSettings DEF AuthInv, AuthTypes, Fits, Has, Placed, U!RedirectOwn, U!UrlAdded,
     U!Attached, U!BackoffSet, U!Send, U!Goes, U!settings, U!data, U!client, U!history
<1>10. Fresh'
  <2> SUFFICES ASSUME NEW x \in Client, outcome'[x] = "waiting",
                      \A g \in Handler : job'[g] = x => pc'[g] \in Early
               PROVE  ~intro'[x] /\ ~given'[x]
    BY DEF Fresh
  <2>1. outcome[x] = "waiting" /\ \A g \in Handler : job[g] = x => pc[g] \in Early
    BY ListenerSettings DEF AuthInv, AuthTypes, Fits, Has, Early, U!Settings, U!UrlAdded,
       U!Attached, U!BackoffSet, U!Send, U!Goes, U!settings, U!data, U!client, U!history
  <2>2. ~intro[x] /\ ~given[x]
    BY <2>1 DEF AuthInv, Fresh
  <2> QED
    BY <2>1, <2>2 DEF AuthInv, AuthTypes, FlagTypes, Fits, Early, U!UrlAdded, U!Attached,
       U!BackoffSet, U!Send, U!Goes, U!settings, U!data, U!client, U!history
<1>11. (\A x \in Handler : Settled(x))'
  BY ListenerSettings DEF AuthInv, AuthTypes, FlagTypes, Fits, Has, Alone, Collects, Fresh,
     Settled, Early, U!UrlAdded, U!Attached, U!BackoffSet, U!Send, U!Goes, U!settings,
     U!data, U!client, U!history
<1>12. Matched'
  BY ListenerSettings DEF AuthInv, AuthTypes, FlagTypes, Fits, Has, Alone, Collects, Fresh,
     Settled, Matched, U!UrlAdded, U!Attached, U!BackoffSet, U!Send, U!Goes, U!settings,
     U!data, U!client, U!history
<1>13. Admitted'
  BY ListenerSettings DEF AuthInv, AuthTypes, FlagTypes, Fits, Has, Admitted, U!UrlAdded,
     U!Attached, U!BackoffSet, U!Send, U!Goes, U!settings, U!data, U!client, U!history
<1>14. Backs'
  BY ListenerSettings DEF AuthInv, AuthTypes, Fits, Backs, U!Settings, U!UrlAdded,
     U!Attached, U!BackoffSet, U!Send, U!Goes, U!settings, U!data, U!client, U!history
<1> QED
  BY <1>1, <1>2, <1>3, <1>4, <1>5, <1>6, <1>7, <1>8, <1>9, <1>10, <1>11, <1>12, <1>13, <1>14
     DEF AuthInv

(* The back-off that starts is as long as it says. *)
LEMMA UrlReturnsKeeps ==
  ASSUME ListenerSettings, AuthInv, NEW h \in Handler, NEW b \in BOOLEAN,
         U!UrlReturns(h, b)
  PROVE  AuthInv'
<1>1. AuthTypes'
  BY ListenerSettings DEF AuthInv, AuthTypes, Fits, Has, U!Settings, Steps, Outcomes, Whose,
     U!UrlReturns, U!BackoffSet, U!Goes, U!settings, U!data, U!client, U!history
<1>2. FlagTypes'
  BY ListenerSettings DEF AuthInv, AuthTypes, FlagTypes, Fits, U!UrlReturns, U!BackoffSet,
     U!Goes, U!settings, U!data, U!client, U!history
<1>3. (\A x \in Handler : Fits(x))'
  BY ListenerSettings DEF AuthInv, AuthTypes, Fits, Has, U!Settings, U!UrlReturns,
     U!BackoffSet, U!Goes, U!settings, U!data, U!client, U!history
<1>4. (\A x \in Handler : Has(x))'
  BY ListenerSettings DEF AuthInv, AuthTypes, Fits, Has, Alone, U!UrlReturns, U!BackoffSet,
     U!Goes, U!settings, U!data, U!client, U!history
<1>5. Alone'
  BY ListenerSettings DEF AuthInv, AuthTypes, Fits, Alone, U!Settings, U!UrlReturns,
     U!BackoffSet, U!Goes, U!settings, U!data, U!client, U!history
<1>6. Collects'
  BY ListenerSettings DEF AuthInv, AuthTypes, Fits, Collects, U!UrlReturns, U!BackoffSet,
     U!Goes, U!settings, U!data, U!client, U!history
<1>7. U!AnsweredOnce'
  BY ListenerSettings DEF AuthInv, AuthTypes, Fits, Has, U!AnsweredOnce, U!UrlReturns,
     U!BackoffSet, U!Goes, U!settings, U!data, U!client, U!history
<1>8. (\A x \in Handler : Placed(x))'
  BY ListenerSettings DEF AuthInv, AuthTypes, Fits, Placed, U!UrlReturns, U!BackoffSet,
     U!Goes, U!settings, U!data, U!client, U!history
<1>9. U!RedirectOwn'
  BY ListenerSettings DEF AuthInv, AuthTypes, Fits, Has, Placed, U!RedirectOwn,
     U!UrlReturns, U!BackoffSet, U!Goes, U!settings, U!data, U!client, U!history
<1>10. Fresh'
  <2> SUFFICES ASSUME NEW x \in Client, outcome'[x] = "waiting",
                      \A g \in Handler : job'[g] = x => pc'[g] \in Early
               PROVE  ~intro'[x] /\ ~given'[x]
    BY DEF Fresh
  <2>1. outcome[x] = "waiting" /\ \A g \in Handler : job[g] = x => pc[g] \in Early
    BY ListenerSettings DEF AuthInv, AuthTypes, Fits, Has, Early, U!Settings,
       U!UrlReturns, U!BackoffSet, U!Goes, U!settings, U!data, U!client, U!history
  <2>2. ~intro[x] /\ ~given[x]
    BY <2>1 DEF AuthInv, Fresh
  <2> QED
    BY <2>1, <2>2 DEF AuthInv, AuthTypes, FlagTypes, Fits, Early, U!UrlReturns,
       U!BackoffSet, U!Goes, U!settings, U!data, U!client, U!history
<1>11. (\A x \in Handler : Settled(x))'
  BY ListenerSettings DEF AuthInv, AuthTypes, FlagTypes, Fits, Has, Alone, Collects, Fresh,
     Settled, Early, U!UrlReturns, U!BackoffSet, U!Goes, U!settings, U!data, U!client,
     U!history
<1>12. Matched'
  BY ListenerSettings DEF AuthInv, AuthTypes, FlagTypes, Fits, Has, Alone, Collects, Fresh,
     Settled, Matched, U!UrlReturns, U!BackoffSet, U!Goes, U!settings, U!data, U!client,
     U!history
<1>13. Admitted'
  BY ListenerSettings DEF AuthInv, AuthTypes, FlagTypes, Fits, Has, Admitted, U!UrlReturns,
     U!BackoffSet, U!Goes, U!settings, U!data, U!client, U!history
<1>14. Backs'
  BY ListenerSettings DEF AuthInv, AuthTypes, Fits, Backs, U!Settings, U!UrlReturns,
     U!BackoffSet, U!Goes, U!settings, U!data, U!client, U!history
<1> QED
  BY <1>1, <1>2, <1>3, <1>4, <1>5, <1>6, <1>7, <1>8, <1>9, <1>10, <1>11, <1>12, <1>13, <1>14
     DEF AuthInv

(* get_response: the intro is settled, and a location that is kept is noted. *)
LEMMA CmdEndsKeeps ==
  ASSUME ListenerSettings, AuthInv, NEW h \in Handler, NEW b \in BOOLEAN,
         U!CmdEnds(h, b)
  PROVE  AuthInv'
<1>1. AuthTypes'
  BY ListenerSettings DEF AuthInv, AuthTypes, Fits, Has, U!Settings, Steps, Outcomes, Whose,
     U!CmdEnds, U!Attached, U!Goes, U!settings, U!data, U!client, U!history
<1>2. FlagTypes'
  BY ListenerSettings DEF AuthInv, AuthTypes, FlagTypes, Fits, U!CmdEnds, U!Attached,
     U!Goes, U!settings, U!data, U!client, U!history
<1>3. (\A x \in Handler : Fits(x))'
  BY ListenerSettings DEF AuthInv, AuthTypes, Fits, Has, U!Settings, U!CmdEnds, U!Attached,
     U!Goes, U!settings, U!data, U!client, U!history
<1>4. (\A x \in Handler : Has(x))'
  BY ListenerSettings DEF AuthInv, AuthTypes, Fits, Has, Alone, U!CmdEnds, U!Attached,
     U!Goes, U!settings, U!data, U!client, U!history
<1>5. Alone'
  BY ListenerSettings DEF AuthInv, AuthTypes, Fits, Alone, U!Settings, U!CmdEnds,
     U!Attached, U!Goes, U!settings, U!data, U!client, U!history
<1>6. Collects'
  BY ListenerSettings DEF AuthInv, AuthTypes, Fits, Collects, U!CmdEnds, U!Attached, U!Goes,
     U!settings, U!data, U!client, U!history
<1>7. U!AnsweredOnce'
  BY ListenerSettings DEF AuthInv, AuthTypes, Fits, Has, U!AnsweredOnce, U!CmdEnds,
     U!Attached, U!Goes, U!settings, U!data, U!client, U!history
<1>8. (\A x \in Handler : Placed(x))'
  BY ListenerSettings DEF AuthInv, AuthTypes, Fits, Placed, U!CmdEnds, U!Attached, U!Goes,
     U!settings, U!data, U!client, U!history
<1>9. U!RedirectOwn'
  BY ListenerSettings DEF AuthInv, AuthTypes, Fits, Has, Placed, U!RedirectOwn, U!CmdEnds,
     U!Attached, U!Goes, U!settings, U!data, U!client, U!history
<1>10. Fresh'
  <2> SUFFICES ASSUME NEW x \in Client, outcome'[x] = "waiting",
                      \A g \in Handler : job'[g] = x => pc'[g] \in Early
               PROVE  ~intro'[x] /\ ~given'[x]
    BY DEF Fresh
  <2>1. outcome[x] = "waiting" /\ \A g \in Handler : job[g] = x => pc[g] \in Early
    BY ListenerSettings DEF AuthInv, AuthTypes, Fits, Has, Early, U!Settings, U!CmdEnds,
       U!Attached, U!Goes, U!settings, U!data, U!client, U!history
  <2>2. ~intro[x] /\ ~given[x]
    BY <2>1 DEF AuthInv, Fresh
  <2> QED
    BY <2>1, <2>2 DEF AuthInv, AuthTypes, FlagTypes, Fits, Early, U!CmdEnds, U!Attached,
       U!Goes, U!settings, U!data, U!client, U!history
<1>11. (\A x \in Handler : Settled(x))'
  BY ListenerSettings DEF AuthInv, AuthTypes, FlagTypes, Fits, Has, Alone, Collects, Fresh,
     Settled, Early, U!CmdEnds, U!Attached, U!Goes, U!settings, U!data, U!client, U!history
<1>12. Matched'
  BY ListenerSettings DEF AuthInv, AuthTypes, FlagTypes, Fits, Has, Alone, Collects, Fresh,
     Settled, Matched, U!CmdEnds, U!Attached, U!Goes, U!settings, U!data, U!client,
     U!history
<1>13. Admitted'
  BY ListenerSettings DEF AuthInv, AuthTypes, FlagTypes, Fits, Has, Admitted, U!CmdEnds,
     U!Attached, U!Goes, U!settings, U!data, U!client, U!history
<1>14. Backs'
  BY ListenerSettings DEF AuthInv, AuthTypes, Fits, Backs, U!Settings, U!CmdEnds,
     U!Attached, U!Goes, U!settings, U!data, U!client, U!history
<1> QED
  BY <1>1, <1>2, <1>3, <1>4, <1>5, <1>6, <1>7, <1>8, <1>9, <1>10, <1>11, <1>12, <1>13, <1>14
     DEF AuthInv

(* handle_returned_header: an error lets in those who are presumed innocent. *)
LEMMA StatusHeaderKeeps ==
  ASSUME ListenerSettings, AuthInv, NEW h \in Handler, NEW code \in {403, 500},
         U!StatusHeader(h, code)
  PROVE  AuthInv'
<1>1. AuthTypes'
  BY ListenerSettings DEF AuthInv, AuthTypes, Fits, Has, U!Settings, Steps, Outcomes, Whose,
     U!StatusHeader, U!Heard, U!Goes, U!settings, U!data, U!client, U!history
<1>2. FlagTypes'
  <2>1. authed' \in [Client -> BOOLEAN]
    <3>1. CASE code = 403
      BY <3>1 DEF AuthInv, FlagTypes, U!StatusHeader
    <3>2. CASE code # 403 /\ job[h] = None
      BY <3>2 DEF AuthInv, FlagTypes, U!StatusHeader
    <3>3. CASE code # 403 /\ job[h] # None
      <4>1. authed' = [authed EXCEPT ![job[h]] = TRUE]
        BY <3>3 DEF U!StatusHeader
      <4> QED
        BY <4>1 DEF AuthInv, FlagTypes
    <3> QED
      BY <3>1, <3>2, <3>3
  <2> QED
    BY <2>1 DEF AuthInv, FlagTypes, U!StatusHeader, U!Heard, U!Goes, U!settings, U!data,
       U!client, U!history
<1>3. (\A x \in Handler : Fits(x))'
  BY ListenerSettings DEF AuthInv, AuthTypes, Fits, Has, U!Settings, U!StatusHeader,
     U!Heard, U!Goes, U!settings, U!data, U!client, U!history
<1>4. (\A x \in Handler : Has(x))'
  BY ListenerSettings DEF AuthInv, AuthTypes, Fits, Has, Alone, U!StatusHeader, U!Heard,
     U!Goes, U!settings, U!data, U!client, U!history
<1>5. Alone'
  BY ListenerSettings DEF AuthInv, AuthTypes, Fits, Alone, U!Settings, U!StatusHeader,
     U!Heard, U!Goes, U!settings, U!data, U!client, U!history
<1>6. Collects'
  BY ListenerSettings DEF AuthInv, AuthTypes, Fits, Collects, U!StatusHeader, U!Heard,
     U!Goes, U!settings, U!data, U!client, U!history
<1>7. U!AnsweredOnce'
  BY ListenerSettings DEF AuthInv, AuthTypes, Fits, Has, U!AnsweredOnce, U!StatusHeader,
     U!Heard, U!Goes, U!settings, U!data, U!client, U!history
<1>8. (\A x \in Handler : Placed(x))'
  BY ListenerSettings DEF AuthInv, AuthTypes, Fits, Placed, U!StatusHeader, U!Heard, U!Goes,
     U!settings, U!data, U!client, U!history
<1>9. U!RedirectOwn'
  BY ListenerSettings DEF AuthInv, AuthTypes, Fits, Has, Placed, U!RedirectOwn,
     U!StatusHeader, U!Heard, U!Goes, U!settings, U!data, U!client, U!history
<1>10. Fresh'
  <2> SUFFICES ASSUME NEW x \in Client, outcome'[x] = "waiting",
                      \A g \in Handler : job'[g] = x => pc'[g] \in Early
               PROVE  ~intro'[x] /\ ~given'[x]
    BY DEF Fresh
  <2>1. outcome[x] = "waiting" /\ \A g \in Handler : job[g] = x => pc[g] \in Early
    BY ListenerSettings DEF AuthInv, AuthTypes, Fits, Has, Early, U!Settings,
       U!StatusHeader, U!Heard, U!Goes, U!settings, U!data, U!client, U!history
  <2>2. ~intro[x] /\ ~given[x]
    BY <2>1 DEF AuthInv, Fresh
  <2> QED
    BY <2>1, <2>2 DEF AuthInv, AuthTypes, FlagTypes, Fits, Early, U!StatusHeader, U!Heard,
       U!Goes, U!settings, U!data, U!client, U!history
<1>11. (\A x \in Handler : Settled(x))'
  BY ListenerSettings DEF AuthInv, AuthTypes, FlagTypes, Fits, Has, Alone, Collects, Fresh,
     Settled, Early, U!StatusHeader, U!Heard, U!Goes, U!settings, U!data, U!client,
     U!history
<1>12. Matched'
  BY ListenerSettings DEF AuthInv, AuthTypes, FlagTypes, Fits, Has, Alone, Collects, Fresh,
     Settled, Matched, U!StatusHeader, U!Heard, U!Goes, U!settings, U!data, U!client,
     U!history
<1>13. Admitted'
  BY ListenerSettings DEF AuthInv, AuthTypes, FlagTypes, Fits, Has, Admitted,
     U!StatusHeader, U!Heard, U!Goes, U!settings, U!data, U!client, U!history
<1>14. Backs'
  BY ListenerSettings DEF AuthInv, AuthTypes, Fits, Backs, U!Settings, U!StatusHeader,
     U!Heard, U!Goes, U!settings, U!data, U!client, U!history
<1> QED
  BY <1>1, <1>2, <1>3, <1>4, <1>5, <1>6, <1>7, <1>8, <1>9, <1>10, <1>11, <1>12, <1>13, <1>14
     DEF AuthInv

(* handle_returned_header: what it says of the flag is what was granted. *)
LEMMA AuthHeaderKeeps ==
  ASSUME ListenerSettings, AuthInv, NEW h \in Handler, NEW value \in {"1", "0", "withintro"},
         U!AuthHeader(h, value)
  PROVE  AuthInv'
<1>1. AuthTypes'
  BY ListenerSettings DEF AuthInv, AuthTypes, Fits, Has, U!Settings, Steps, Outcomes, Whose,
     U!AuthHeader, U!Heard, U!Goes, U!settings, U!data, U!client, U!history
<1>2. FlagTypes'
  BY ListenerSettings DEF AuthInv, AuthTypes, FlagTypes, Fits, U!AuthHeader, U!Heard,
     U!Goes, U!settings, U!data, U!client, U!history
<1>3. (\A x \in Handler : Fits(x))'
  BY ListenerSettings DEF AuthInv, AuthTypes, Fits, Has, U!Settings, U!AuthHeader, U!Heard,
     U!Goes, U!settings, U!data, U!client, U!history
<1>4. (\A x \in Handler : Has(x))'
  BY ListenerSettings DEF AuthInv, AuthTypes, Fits, Has, Alone, U!AuthHeader, U!Heard,
     U!Goes, U!settings, U!data, U!client, U!history
<1>5. Alone'
  BY ListenerSettings DEF AuthInv, AuthTypes, Fits, Alone, U!Settings, U!AuthHeader,
     U!Heard, U!Goes, U!settings, U!data, U!client, U!history
<1>6. Collects'
  BY ListenerSettings DEF AuthInv, AuthTypes, Fits, Collects, U!AuthHeader, U!Heard, U!Goes,
     U!settings, U!data, U!client, U!history
<1>7. U!AnsweredOnce'
  BY ListenerSettings DEF AuthInv, AuthTypes, Fits, Has, U!AnsweredOnce, U!AuthHeader,
     U!Heard, U!Goes, U!settings, U!data, U!client, U!history
<1>8. (\A x \in Handler : Placed(x))'
  BY ListenerSettings DEF AuthInv, AuthTypes, Fits, Placed, U!AuthHeader, U!Heard, U!Goes,
     U!settings, U!data, U!client, U!history
<1>9. U!RedirectOwn'
  BY ListenerSettings DEF AuthInv, AuthTypes, Fits, Has, Placed, U!RedirectOwn,
     U!AuthHeader, U!Heard, U!Goes, U!settings, U!data, U!client, U!history
<1>10. Fresh'
  <2> SUFFICES ASSUME NEW x \in Client, outcome'[x] = "waiting",
                      \A g \in Handler : job'[g] = x => pc'[g] \in Early
               PROVE  ~intro'[x] /\ ~given'[x]
    BY DEF Fresh
  <2>1. outcome[x] = "waiting" /\ \A g \in Handler : job[g] = x => pc[g] \in Early
    BY ListenerSettings DEF AuthInv, AuthTypes, Fits, Has, Early, U!Settings,
       U!AuthHeader, U!Heard, U!Goes, U!settings, U!data, U!client, U!history
  <2>2. ~intro[x] /\ ~given[x]
    BY <2>1 DEF AuthInv, Fresh
  <2> QED
    BY <2>1, <2>2 DEF AuthInv, AuthTypes, FlagTypes, Fits, Early, U!AuthHeader, U!Heard,
       U!Goes, U!settings, U!data, U!client, U!history
<1>11. (\A x \in Handler : Settled(x))'
  BY ListenerSettings DEF AuthInv, AuthTypes, FlagTypes, Fits, Has, Alone, Collects, Fresh,
     Settled, Early, U!AuthHeader, U!Heard, U!Goes, U!settings, U!data, U!client, U!history
<1>12. Matched'
  BY ListenerSettings DEF AuthInv, AuthTypes, FlagTypes, Fits, Has, Alone, Collects, Fresh,
     Settled, Matched, U!AuthHeader, U!Heard, U!Goes, U!settings, U!data, U!client,
     U!history
<1>13. Admitted'
  BY ListenerSettings DEF AuthInv, AuthTypes, FlagTypes, Fits, Has, Admitted, U!AuthHeader,
     U!Heard, U!Goes, U!settings, U!data, U!client, U!history
<1>14. Backs'
  BY ListenerSettings DEF AuthInv, AuthTypes, Fits, Backs, U!Settings, U!AuthHeader,
     U!Heard, U!Goes, U!settings, U!data, U!client, U!history
<1> QED
  BY <1>1, <1>2, <1>3, <1>4, <1>5, <1>6, <1>7, <1>8, <1>9, <1>10, <1>11, <1>12, <1>13, <1>14
     DEF AuthInv

(* handle_returned_header: a location is the one of the client of the thread. *)
LEMMA TextHeaderKeeps ==
  ASSUME ListenerSettings, AuthInv, NEW h \in Handler, NEW txt \in {"Location", "other", "403"},
         U!TextHeader(h, txt)
  PROVE  AuthInv'
<1>1. AuthTypes'
  BY ListenerSettings DEF AuthInv, AuthTypes, Fits, Has, U!Settings, Steps, Outcomes, Whose,
     U!TextHeader, U!Heard, U!Goes, U!settings, U!data, U!client, U!history
<1>2. FlagTypes'
  BY ListenerSettings DEF AuthInv, AuthTypes, FlagTypes, Fits, U!TextHeader, U!Heard,
     U!Goes, U!settings, U!data, U!client, U!history
<1>3. (\A x \in Handler : Fits(x))'
  BY ListenerSettings DEF AuthInv, AuthTypes, Fits, Has, U!Settings, U!TextHeader, U!Heard,
     U!Goes, U!settings, U!data, U!client, U!history
<1>4. (\A x \in Handler : Has(x))'
  BY ListenerSettings DEF AuthInv, AuthTypes, Fits, Has, Alone, U!TextHeader, U!Heard,
     U!Goes, U!settings, U!data, U!client, U!history
<1>5. Alone'
  BY ListenerSettings DEF AuthInv, AuthTypes, Fits, Alone, U!Settings, U!TextHeader,
     U!Heard, U!Goes, U!settings, U!data, U!client, U!history
<1>6. Collects'
  BY ListenerSettings DEF AuthInv, AuthTypes, Fits, Collects, U!TextHeader, U!Heard, U!Goes,
     U!settings, U!data, U!client, U!history
<1>7. U!AnsweredOnce'
  BY ListenerSettings DEF AuthInv, AuthTypes, Fits, Has, U!AnsweredOnce, U!TextHeader,
     U!Heard, U!Goes, U!settings, U!data, U!client, U!history
<1>8. (\A x \in Handler : Placed(x))'
  BY ListenerSettings DEF AuthInv, AuthTypes, Fits, Placed, U!TextHeader, U!Heard, U!Goes,
     U!settings, U!data, U!client, U!history
<1>9. U!RedirectOwn'
  BY ListenerSettings DEF AuthInv, AuthTypes, Fits, Has, Placed, U!RedirectOwn,
     U!TextHeader, U!Heard, U!Goes, U!settings, U!data, U!client, U!history
<1>10. Fresh'
  <2> SUFFICES ASSUME NEW x \in Client, outcome'[x] = "waiting",
                      \A g \in Handler : job'[g] = x => pc'[g] \in Early
               PROVE  ~intro'[x] /\ ~given'[x]
    BY DEF Fresh
  <2>1. outcome[x] = "waiting" /\ \A g \in Handler : job[g] = x => pc[g] \in Early
    BY ListenerSettings DEF AuthInv, AuthTypes, Fits, Has, Early, U!Settings,
       U!TextHeader, U!Heard, U!Goes, U!settings, U!data, U!client, U!history
  <2>2. ~intro[x] /\ ~given[x]
    BY <2>1 DEF AuthInv, Fresh
  <2> QED
    BY <2>1, <2>2 DEF AuthInv, AuthTypes, FlagTypes, Fits, Early, U!TextHeader, U!Heard,
       U!Goes, U!settings, U!data, U!client, U!history
<1>11. (\A x \in Handler : Settled(x))'
  BY ListenerSettings DEF AuthInv, AuthTypes, FlagTypes, Fits, Has, Alone, Collects, Fresh,
     Settled, Early, U!TextHeader, U!Heard, U!Goes, U!settings, U!data, U!client, U!history
<1>12. Matched'
  BY ListenerSettings DEF AuthInv, AuthTypes, FlagTypes, Fits, Has, Alone, Collects, Fresh,
     Settled, Matched, U!TextHeader, U!Heard, U!Goes, U!settings, U!data, U!client,
     U!history
<1>13. Admitted'
  BY ListenerSettings DEF AuthInv, AuthTypes, FlagTypes, Fits, Has, Admitted, U!TextHeader,
     U!Heard, U!Goes, U!settings, U!data, U!client, U!history
<1>14. Backs'
  BY ListenerSettings DEF AuthInv, AuthTypes, Fits, Backs, U!Settings, U!TextHeader,
     U!Heard, U!Goes, U!settings, U!data, U!client, U!history
<1> QED
  BY <1>1, <1>2, <1>3, <1>4, <1>5, <1>6, <1>7, <1>8, <1>9, <1>10, <1>11, <1>12, <1>13, <1>14
     DEF AuthInv

(* Time only ends a back-off. *)
LEMMA TickKeeps ==
  ASSUME ListenerSettings, AuthInv, U!Tick
  PROVE  AuthInv'
<1>1. AuthTypes'
  BY ListenerSettings DEF AuthInv, AuthTypes, Fits, Has, U!Settings, Steps, Outcomes, Whose,
     U!Tick, U!Goes, U!settings, U!data, U!client, U!history
<1>2. FlagTypes'
  BY ListenerSettings DEF AuthInv, AuthTypes, FlagTypes, Fits, U!Tick, U!Goes, U!settings,
     U!data, U!client, U!history
<1>3. (\A x \in Handler : Fits(x))'
  BY ListenerSettings DEF AuthInv, AuthTypes, Fits, Has, U!Settings, U!Tick, U!Goes,
     U!settings, U!data, U!client, U!history
<1>4. (\A x \in Handler : Has(x))'
  BY ListenerSettings DEF AuthInv, AuthTypes, Fits, Has, Alone, U!Tick, U!Goes, U!settings,
     U!data, U!client, U!history
<1>5. Alone'
  BY ListenerSettings DEF AuthInv, AuthTypes, Fits, Alone, U!Settings, U!Tick, U!Goes,
     U!settings, U!data, U!client, U!history
<1>6. Collects'
  BY ListenerSettings DEF AuthInv, AuthTypes, Fits, Collects, U!Tick, U!Goes, U!settings,
     U!data, U!client, U!history
<1>7. U!AnsweredOnce'
  BY ListenerSettings DEF AuthInv, AuthTypes, Fits, Has, U!AnsweredOnce, U!Tick, U!Goes,
     U!settings, U!data, U!client, U!history
<1>8. (\A x \in Handler : Placed(x))'
  BY ListenerSettings DEF AuthInv, AuthTypes, Fits, Placed, U!Tick, U!Goes, U!settings,
     U!data, U!client, U!history
<1>9. U!RedirectOwn'
  BY ListenerSettings DEF AuthInv, AuthTypes, Fits, Has, Placed, U!RedirectOwn, U!Tick,
     U!Goes, U!settings, U!data, U!client, U!history
<1>10. Fresh'
  <2> SUFFICES ASSUME NEW x \in Client, outcome'[x] = "waiting",
                      \A g \in Handler : job'[g] = x => pc'[g] \in Early
               PROVE  ~intro'[x] /\ ~given'[x]
    BY DEF Fresh
  <2>1. outcome[x] = "waiting" /\ \A g \in Handler : job[g] = x => pc[g] \in Early
    BY ListenerSettings DEF AuthInv, AuthTypes, Fits, Has, Early, U!Settings, U!Tick,
       U!Goes, U!settings, U!data, U!client, U!history
  <2>2. ~intro[x] /\ ~given[x]
    BY <2>1 DEF AuthInv, Fresh
  <2> QED
    BY <2>1, <2>2 DEF AuthInv, AuthTypes, FlagTypes, Fits, Early, U!Tick, U!Goes,
       U!settings, U!data, U!client, U!history
<1>11. (\A x \in Handler : Settled(x))'
  BY ListenerSettings DEF AuthInv, AuthTypes, FlagTypes, Fits, Has, Alone, Collects, Fresh,
     Settled, Early, U!Tick, U!Goes, U!settings, U!data, U!client, U!history
<1>12. Matched'
  BY ListenerSettings DEF AuthInv, AuthTypes, FlagTypes, Fits, Has, Alone, Collects, Fresh,
     Settled, Matched, U!Tick, U!Goes, U!settings, U!data, U!client, U!history
<1>13. Admitted'
  BY ListenerSettings DEF AuthInv, AuthTypes, FlagTypes, Fits, Has, Admitted, U!Tick,
     U!Goes, U!settings, U!data, U!client, U!history
<1>14. Backs'
  BY ListenerSettings DEF AuthInv, AuthTypes, Fits, Backs, U!Settings, U!Tick, U!Goes,
     U!settings, U!data, U!client, U!history
<1> QED
  BY <1>1, <1>2, <1>3, <1>4, <1>5, <1>6, <1>7, <1>8, <1>9, <1>10, <1>11, <1>12, <1>13, <1>14
     DEF AuthInv

(* auth_get_authenticator: nobody is asked about yet. *)
LEMMA AuthStart ==
  ASSUME ListenerSettings, U!Init
  PROVE  AuthInv
<1>0. Backoff \in Nat /\ MaxHeaders \in Nat /\ MaxEvents \in Nat /\ MaxTime \in Nat /\ MaxTime >= 1
  BY ListenerSettings DEF U!Settings
<1>1. AuthTypes /\ FlagTypes
  <2>1. AuthTypes
    <3>1. left \in BOOLEAN /\ (backend = "cmd" => ~innocent)
      BY Zenon DEF U!Init
    <3>2. events \in 0 .. MaxEvents /\ heard \in 0 .. MaxHeaders
      BY <1>0 DEF U!Init
    <3> QED
      BY <3>1, <3>2 DEF U!Init, AuthTypes, Steps, Outcomes, Whose
  <2> QED
    BY <2>1 DEF U!Init, FlagTypes
<1>2. (\A h \in Handler : Fits(h) /\ Has(h) /\ Placed(h) /\ Settled(h)) /\ Alone /\ Collects
  BY ListenerSettings DEF U!Init, Fits, Has, Placed, Settled, Alone, Collects, U!Settings
<1>3. U!AnsweredOnce /\ U!RedirectOwn /\ Fresh /\ Matched /\ Admitted
  BY DEF U!Init, U!AnsweredOnce, U!RedirectOwn, Fresh, Matched, Admitted
<1>4. Backs
  <2>1. raced \in BOOLEAN
    BY Zenon DEF U!Init
  <2>2. now = 1 /\ failed = 0 /\ until = 0
    BY DEF U!Init
  <2> QED
    BY <1>0, <2>1, <2>2 DEF Backs
<1> QED
  BY <1>1, <1>2, <1>3, <1>4 DEF AuthInv

(* What clients are promised follows. *)
LEMMA AuthSound ==
  ASSUME ListenerSettings, AuthInv
  PROVE  U!AnswersOwn
<1>1. U!TypeOK
  <2>1. \A c \in Client : answers[c] \in 0 .. 2
    BY DEF AuthInv, AuthTypes, U!AnsweredOnce
  <2>2. answers \in [Client -> 0 .. 2]
    BY <2>1 DEF AuthInv, AuthTypes
  <2>3. until \in 0 .. (MaxTime + Backoff) /\ {now, failed} \subseteq 0 .. MaxTime
    BY ListenerSettings DEF AuthInv, Backs, U!Settings
  <2>4. held \in [Handler -> 0 .. 1]
    BY DEF AuthInv, AuthTypes
  <2>5. {authed, intro, given, granted, slow} \subseteq [Client -> BOOLEAN]
    BY DEF AuthInv, FlagTypes
  <2>6. {innocent, elsewhere, raced, left} \subseteq BOOLEAN
    BY DEF AuthInv, AuthTypes, Backs
  <2> QED
    BY <2>2, <2>3, <2>4, <2>5, <2>6 DEF AuthInv, AuthTypes, Steps, Outcomes, Whose, U!TypeOK
<1>2. U!LetInByAnswer
  BY DEF AuthInv, Admitted, U!LetInByAnswer
<1>3. U!IntroOwned
  <2>1. \A h \in Handler : pc[h] \in {"idle", "post"} => held[h] = 0
    BY DEF AuthInv, AuthTypes, Collects
  <2> QED
    BY <2>1 DEF AuthInv, Matched, U!IntroOwned
<1>4. U!BackoffKept
  BY DEF AuthInv, Backs, U!BackoffKept
<1> QED
  BY <1>1, <1>2, <1>3, <1>4 DEF AuthInv, U!AnswersOwn

(* a step of a thread, a client or the clock *)
ListenerStep ==
    \/ \E h \in Handler, c \in Client : U!TakeLeaving(h, c)
    \/ \E h \in Handler, c \in Client, k \in {"add", "auth"} : U!Take(h, c, k)
    \/ \E h \in Handler : U!TakeEvent(h)
    \/ \E h \in Handler : U!UrlCheck(h)
    \/ \E h \in Handler : U!UrlClear(h)
    \/ \E h \in Handler : U!RequestFails(h)
    \/ \E h \in Handler : U!UrlRequest(h)
    \/ \E h \in Handler : U!Body(h)
    \/ \E h \in Handler : U!CmdRefuses(h)
    \/ \E h \in Handler : U!Post(h)
    \/ \E h \in Handler : U!Finish(h)
    \/ \E h \in Handler : U!EventEnds(h)
    \/ \E h \in Handler, b \in BOOLEAN : U!CmdRequest(h, b)
    \/ \E h \in Handler, b \in BOOLEAN : U!UrlAdded(h, b)
    \/ \E h \in Handler, b \in BOOLEAN : U!UrlReturns(h, b)
    \/ \E h \in Handler, b \in BOOLEAN : U!CmdEnds(h, b)
    \/ \E h \in Handler, code \in {403, 500} : U!StatusHeader(h, code)
    \/ \E h \in Handler, value \in {"1", "0", "withintro"} : U!AuthHeader(h, value)
    \/ \E h \in Handler, txt \in {"Location", "other", "403"} : U!TextHeader(h, txt)
    \/ U!Tick

(* Every step preserves the invariant. *)
LEMMA AuthKept ==
  ASSUME ListenerSettings, AuthInv, ListenerStep
  PROVE  AuthInv'
  BY TakeLeavingKeeps, TakeKeeps, TakeEventKeeps, UrlCheckKeeps, UrlClearKeeps,
     RequestFailsKeeps, UrlRequestKeeps, BodyKeeps, CmdRefusesKeeps, PostKeeps, FinishKeeps,
     EventEndsKeeps, CmdRequestKeeps, UrlAddedKeeps, UrlReturnsKeeps, CmdEndsKeeps,
     StatusHeaderKeeps, AuthHeaderKeeps, TextHeaderKeeps, TickKeeps
     DEF ListenerStep

(* A step of another part preserves it. *)
LEMMA AuthSame ==
  ASSUME AuthInv, UNCHANGED listenerVars
  PROVE  AuthInv'
<1>1. AuthTypes' /\ FlagTypes' /\ Backs'
  BY DEF AuthInv, AuthTypes, FlagTypes, Backs, listenerVars
<1>2. (\A h \in Handler : Fits(h) /\ Has(h) /\ Placed(h) /\ Settled(h))' /\ Alone' /\ Collects'
  BY DEF AuthInv, Fits, Has, Placed, Settled, Alone, Collects, listenerVars
<1>3. U!AnsweredOnce' /\ U!RedirectOwn' /\ Fresh' /\ Matched' /\ Admitted'
  BY DEF AuthInv, U!AnsweredOnce, U!RedirectOwn, Fresh, Matched, Admitted, listenerVars
<1> QED
  BY <1>1, <1>2, <1>3 DEF AuthInv

(* the invariant over the behaviours of all parts *)
ListenerInv == part = "listener" => AuthInv

(* What a thread leaves behind from one request and what others do meanwhile do not reach the *)
(* answer of a client: it is answered once, let in by its own header only, sent where its own *)
(* request was, with its own intro, and the back-off holds (auth_url.c, auth_cmd.c, auth.c),   *)
(* for any numbers of clients, threads, headers and any duration.                              *)
THEOREM AnswersStayOwn == MCSpec => []AnswersOwn
<1>1. MCInit => ListenerInv
  BY ListenerSettings, AuthStart DEF MCInit, ListenerInv
<1>2. ASSUME ListenerInv, [MCNext]_allVars PROVE ListenerInv'
  <2>1. SUFFICES ASSUME part' = "listener" PROVE AuthInv'
    BY DEF ListenerInv
  <2>2. part = "listener"
    BY <1>2, <2>1, Zenon DEF MCNext, OnlyBans, OnlyListener, OnlyIcy, OnlyFilter,
       OnlyRates, allVars
  <2>3. AuthInv
    BY <1>2, <2>2 DEF ListenerInv
  <2>4. CASE MCNext
    <3>1. ListenerStep
      BY <2>2, <2>4, Zenon DEF MCNext, ListenerStep
    <3> QED
      BY <2>3, <3>1, ListenerSettings, AuthKept
  <2>5. CASE UNCHANGED allVars
    BY <2>3, <2>5, AuthSame DEF allVars
  <2> QED
    BY <1>2, <2>4, <2>5
<1>3. ListenerInv => AnswersOwn
  BY ListenerSettings, AuthSound DEF ListenerInv, AnswersOwn
<1> QED
  BY <1>1, <1>2, <1>3, PTL DEF MCSpec
=============================================================================
