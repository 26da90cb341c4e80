------------------------- MODULE StylesheetsProofs --------------------------
(***************************************************************************)
(* Proofs about the cache of stylesheets, for any number of requests,      *)
(* sheets, slots and update threads, and any changes to the files.         *)
(*                                                                         *)
(* A sheet is put into the cache with nobody at another one (Install), so  *)
(* a slot keeps its sheet for as long as a request is at it (AtSlot).  A   *)
(* change is found out because no time that a sheet is known by is later   *)
(* than that of its file, nor that than the clock (TimesOrdered): the time *)
(* of the change is a new one, unless there was one before in the second.  *)
(***************************************************************************)
EXTENDS Stylesheets, FiniteSetTheorems, WellFoundedInduction, TLAPS

\* The whole state, where TypeOK says what a lookup relies on.
Steps == {"idle", "stat", "send", "delayed", "parse", "parsed", "ending"}

Asked == [pc : Steps, fn : Sheet \cup {None}, idx : 0 .. CacheSize, at : Nat,
          req : Request \cup {None}, content : Nat, lost : BOOLEAN]

Types ==
  /\ cache \in [Place -> Entry \cup {None}]
  /\ updating \in Nat
  /\ writer \in Asker \cup {None}
  /\ ask \in [Asker -> Asked]
  /\ file \in [Sheet -> [there : BOOLEAN, content : Nat, mtime : Nat]]
  /\ clock \in 0 .. EndTime
  /\ blurred \subseteq Sheet

\* What is loaded into place i is sheet f.
Filled(i, f) == i \in Place /\ cache[i] # None /\ cache[i].filename = f

\* Where request r is: at a slot that holds its sheet, or without one on the
\* way to have it loaded.
AtSlot(r) ==
  /\ ~r.lost
  /\ r.pc \in {"idle", "ending"} => r.req = None
  /\ r.pc \in {"stat", "send", "parse", "parsed", "delayed"} => r.fn \in Sheet
  /\ r.pc = "stat" => r.idx = 0 \/ Filled(r.idx, r.fn)
  /\ r.pc = "send" => Filled(r.idx, r.fn)
  /\ r.pc \in {"delayed", "parse", "parsed"} => r.req # None
  /\ r.req # None => r.req.filename = r.fn

\* The one who has the lock for writing is about to apply what it loaded.
WriterSends == writer # None => ask[writer].pc = "send"

\* No time that a sheet is known by lies after that of the file, which lies
\* not after the clock.
TimesOrdered ==
  /\ \A f \in Sheet : file[f].mtime <= clock
  /\ \A i \in Place : cache[i] # None =>
       cache[i].last_modified <= file[cache[i].filename].mtime
  /\ \A a \in Asker : ask[a].req # None =>
       ask[a].req.last_modified <= file[ask[a].req.filename].mtime

\* Requests with an update thread.
Updaters ==
  {a \in Asker : ask[a].pc \in {"parse", "parsed", "ending"} \/ writer = a}

Counted == updating = Cardinality(Updaters) /\ updating <= MaxUpdating

IInv ==
  /\ Types
  /\ \A a \in Asker : AtSlot(ask[a])
  /\ WriterSends
  /\ TimesOrdered
  /\ StaleFound
  /\ CachedOnce
  /\ Counted
-----------------------------------------------------------------------------
(* Lookups.                                                                *)

\* A set of numbers has a least one.
LEMMA Least ==
  ASSUME NEW S \in SUBSET Nat, S # {}
  PROVE  \E m \in S : \A k \in S : m <= k
<1>1. PICK m \in S : \A k \in S : <<k, m>> \notin OpToRel(<, Nat)
  BY NatLessThanWellFounded, WFMin
<1>2. ASSUME NEW k \in S PROVE m <= k
  <2>1. k \in Nat /\ m \in Nat
    OBVIOUS
  <2>2. ~(k < m)
    BY <1>1, <2>1 DEF OpToRel
  <2> QED
    BY <2>1, <2>2
<1> QED
  BY <1>2

\* First gives one of the slots.
LEMMA FirstOf ==
  ASSUME NEW S \in SUBSET Place, S # {}
  PROVE  First(S) \in S
<1>1. S \in SUBSET Nat
  BY DEF Place
<1>2. \E m \in S : \A k \in S : m <= k
  BY <1>1, Least
<1> QED
  BY <1>2 DEF First

\* A lookup gives a slot that holds the sheet, or 0.
LEMMA CachedFills ==
  ASSUME Settings, Types, NEW f
  PROVE  /\ Cached(f) \in 0 .. CacheSize
         /\ Cached(f) # 0 => Filled(Cached(f), f)
         /\ Cached(f) = 0 => Holds(f) = {}
<1>1. Holds(f) \in SUBSET Place
  BY DEF Holds
<1>2. 0 \notin Place /\ Place \subseteq 0 .. CacheSize /\ 0 \in 0 .. CacheSize
  BY DEF Place, Settings
<1>3. CASE Holds(f) = {}
  BY <1>2, <1>3 DEF Cached
<1>4. CASE Holds(f) # {}
  <2>1. Cached(f) \in Holds(f)
    BY <1>1, <1>4, FirstOf DEF Cached
  <2> QED
    BY <2>1, <1>1, <1>2, <1>4 DEF Holds, Filled
<1> QED
  BY <1>3, <1>4

\* A sheet gets a slot: its own when it has one.
LEMMA EvictFills ==
  ASSUME Settings, Types, NEW f
  PROVE  Evict(f) \in Place /\ (Holds(f) # {} => Evict(f) \in Holds(f))
<1>1. CASE Holds(f) # {}
  <2>1. Cached(f) \in Holds(f)
    BY <1>1, FirstOf DEF Cached, Holds
  <2> QED
    BY <2>1, <1>1 DEF Evict, Holds
<1>2. CASE Holds(f) = {}
  <2> DEFINE free == {i \in Place : cache[i] = None}
  <2>1. Evict(f) = First(IF free # {} THEN free ELSE Oldest)
    BY <1>2 DEF Evict
  <2>2. free = {} => Oldest # {}
    <3>1. SUFFICES ASSUME free = {} PROVE Oldest # {}
      OBVIOUS
    <3>2. \A i \in Place : cache[i] \in Entry
      BY <3>1 DEF Types
    <3> DEFINE ages == {cache[i].cache_age : i \in Place}
    <3>3. ages \in SUBSET Nat
      BY <3>2 DEF Entry
    <3>4. 1 \in Place
      BY DEF Settings, Place
    <3>5. PICK m \in ages : \A k \in ages : m <= k
      <4>1. cache[1].cache_age \in ages
        BY <3>4
      <4> HIDE DEF ages
      <4> QED
        BY <3>3, <4>1, Least
    <3>6. PICK i \in Place : m = cache[i].cache_age
      OBVIOUS
    <3>7. i \in Oldest
      BY <3>5, <3>6 DEF Oldest
    <3> QED
      BY <3>7
  <2>3. free \in SUBSET Place /\ Oldest \in SUBSET Place
    BY DEF Oldest
  <2>4. First(IF free # {} THEN free ELSE Oldest) \in Place
    BY <2>2, <2>3, FirstOf
  <2> QED
    BY <2>1, <2>4, <1>2
<1> QED
  BY <1>1, <1>2

\* Slots keep their sheets; when they are looked at again may change.
CacheKept ==
  /\ cache' \in [Place -> Entry \cup {None}]
  /\ \A i \in Place :
       /\ cache'[i] = None <=> cache[i] = None
       /\ cache[i] # None => /\ cache'[i].filename = cache[i].filename
                             /\ cache'[i].last_modified = cache[i].last_modified
                             /\ cache'[i].content = cache[i].content

\* What puts off the next look at a slot.
LEMMA PutOffKeeps ==
  ASSUME Settings, Types, NEW i, i # 0 => i \in Place /\ cache[i] # None,
         NEW t \in Nat, cache' = PutOff(i, t)
  PROVE  CacheKept
<1>1. CASE i = 0
  BY <1>1 DEF PutOff, CacheKept, Types
<1>2. CASE i # 0
  <2> DEFINE e == [cache[i] EXCEPT !.next_check = t + Recheck]
  <2>1. cache[i] \in Entry
    BY <1>2 DEF Types
  <2>2. t + Recheck \in Nat
    BY DEF Settings
  <2>3. /\ e \in Entry
        /\ e.filename = cache[i].filename
        /\ e.last_modified = cache[i].last_modified
        /\ e.content = cache[i].content
    BY <2>1, <2>2 DEF Entry
  <2>4. e # None
    BY <2>3 DEF Settings
  <2>5. cache' = [cache EXCEPT ![i] = e]
    BY <1>2 DEF PutOff
  <2> HIDE DEF e
  <2>6. cache' \in [Place -> Entry \cup {None}]
    BY <2>3, <2>5 DEF Types
  <2>7. cache'[i] = e /\ \A j \in Place : j # i => cache'[j] = cache[j]
    BY <1>2, <2>5 DEF Types
  <2> QED
    BY <1>2, <2>3, <2>4, <2>6, <2>7 DEF CacheKept
<1> QED
  BY <1>1, <1>2

-----------------------------------------------------------------------------
(* A request goes on.                                                      *)

\* All of the inductive invariant but the count of the update threads.
Core ==
  /\ Types
  /\ \A a \in Asker : AtSlot(ask[a])
  /\ WriterSends
  /\ TimesOrdered
  /\ StaleFound
  /\ CachedOnce

\* A request may have this in hand: it is at a slot or on the way, and what
\* it knows its sheet by is no later than the file and tells it apart.
Fits(r) ==
  /\ r \in Asked
  /\ AtSlot(r)
  /\ r.req # None => r.req.last_modified <= file[r.req.filename].mtime
  /\ r.pc = "parsed" => ToldApart(r.fn, r.content, r.req.last_modified)

\* Every request fits.
LEMMA AllFit ==
  ASSUME Core, NEW a \in Asker
  PROVE  Fits(ask[a])
<1>1. ask[a] \in Asked /\ AtSlot(ask[a])
  BY DEF Core, Types
<1>2. ask[a].req # None =>
        ask[a].req.last_modified <= file[ask[a].req.filename].mtime
  BY DEF Core, TimesOrdered
<1>3. ask[a].pc = "parsed" =>
        ToldApart(ask[a].fn, ask[a].content, ask[a].req.last_modified)
  BY DEF Core, StaleFound
<1> QED
  BY <1>1, <1>2, <1>3 DEF Fits

\* One request goes on, to what fits; the files and the slots stay.
LEMMA Goes ==
  ASSUME Core, NEW a \in Asker, NEW r, Fits(r),
         ask' = [ask EXCEPT ![a] = r], CacheKept,
         UNCHANGED <<file, clock, blurred>>, updating' \in Nat,
         writer' \in {writer, None}, writer' = a => r.pc = "send"
  PROVE  Core'
<1>1. /\ cache \in [Place -> Entry \cup {None}] /\ ask \in [Asker -> Asked]
      /\ writer \in Asker \cup {None}
  BY DEF Core, Types
<1>2. \A i \in Place :
        /\ cache'[i] = None <=> cache[i] = None
        /\ cache[i] # None => /\ cache'[i].filename = cache[i].filename
                              /\ cache'[i].last_modified = cache[i].last_modified
                              /\ cache'[i].content = cache[i].content
  BY DEF CacheKept
<1>3. ask' \in [Asker -> Asked] /\ ask'[a] = r
      /\ \A b \in Asker : b # a => ask'[b] = ask[b]
  BY <1>1 DEF Fits
<1>4. \A b \in Asker : Fits(ask'[b])
  BY <1>3, AllFit
<1>5. Types'
  BY <1>1, <1>3 DEF Core, Types, CacheKept
<1>6. \A i, f : Filled(i, f)' <=> Filled(i, f)
  BY <1>2 DEF Filled
<1>7. \A b \in Asker : AtSlot(ask[b])'
  <2> TAKE b \in Asker
  <2>1. AtSlot(ask'[b])
    BY <1>4 DEF Fits
  <2> QED
    BY <2>1, <1>6 DEF AtSlot
<1>8. WriterSends'
  BY <1>1, <1>3 DEF Core, WriterSends
<1>9. TimesOrdered'
  <2>1. \A f \in Sheet : file'[f].mtime <= clock'
    BY DEF Core, TimesOrdered
  <2>2. \A i \in Place : cache'[i] # None =>
          cache'[i].last_modified <= file'[cache'[i].filename].mtime
    BY <1>2 DEF Core, TimesOrdered
  <2>3. \A b \in Asker : ask'[b].req # None =>
          ask'[b].req.last_modified <= file'[ask'[b].req.filename].mtime
    BY <1>4 DEF Fits
  <2> QED
    BY <2>1, <2>2, <2>3 DEF TimesOrdered
<1>10. \A f, c, t : ToldApart(f, c, t)' <=> ToldApart(f, c, t)
  BY DEF ToldApart
<1>11. StaleFound'
  <2>1. \A i \in Place : cache'[i] = None
          \/ ToldApart(cache'[i].filename, cache'[i].content,
                       cache'[i].last_modified)
    BY <1>2 DEF Core, StaleFound
  <2>2. \A b \in Asker : ask'[b].pc # "parsed"
          \/ ToldApart(ask'[b].fn, ask'[b].content, ask'[b].req.last_modified)
    BY <1>4 DEF Fits
  <2> QED
    BY <2>1, <2>2 DEF StaleFound, ToldApart
<1>12. CachedOnce'
  BY <1>2 DEF Core, CachedOnce
<1> QED
  BY <1>5, <1>7, <1>8, <1>9, <1>11, <1>12 DEF Core
-----------------------------------------------------------------------------
(* The update threads.                                                     *)

\* There are finitely many, counted by a number.
LEMMA UpdatersFinite ==
  ASSUME Settings
  PROVE  IsFiniteSet(Updaters) /\ Cardinality(Updaters) \in Nat
         /\ IsFiniteSet(Updaters') /\ Cardinality(Updaters') \in Nat
<1>1. IsFiniteSet(Asker)
  BY FS_Interval DEF Settings, Asker
<1>2. Updaters \subseteq Asker /\ Updaters' \subseteq Asker
  BY DEF Updaters
<1> QED
  BY <1>1, <1>2, FS_Subset, FS_CardinalityType

\* Those who have a thread keep it.
LEMMA CountKept ==
  ASSUME Counted, Updaters' = Updaters, updating' = updating
  PROVE  Counted'
<1> QED
  BY DEF Counted

\* Of one request it depends whether it has a thread.
LEMMA UpdatersSplit ==
  ASSUME Core, NEW a \in Asker, NEW r, ask' = [ask EXCEPT ![a] = r],
         \A b \in Asker \ {a} : writer' = b <=> writer = b
  PROVE  Updaters' = (Updaters \ {a}) \cup
           (IF r.pc \in {"parse", "parsed", "ending"} \/ writer' = a
              THEN {a} ELSE {})
<1>1. ask'[a] = r /\ \A b \in Asker : b # a => ask'[b] = ask[b]
  BY DEF Core, Types
<1> QED
  BY <1>1 DEF Updaters

\* The thread of a request, if it has one, stays.
LEMMA CountGoes ==
  ASSUME Core, Counted, NEW a \in Asker, NEW r, ask' = [ask EXCEPT ![a] = r],
         \A b \in Asker \ {a} : writer' = b <=> writer = b,
         a \in Updaters <=>
           r.pc \in {"parse", "parsed", "ending"} \/ writer' = a,
         updating' = updating
  PROVE  Counted'
<1>1. Updaters' = (Updaters \ {a}) \cup
           (IF r.pc \in {"parse", "parsed", "ending"} \/ writer' = a
              THEN {a} ELSE {})
  BY UpdatersSplit
<1>2. Updaters' = Updaters
  <2>1. CASE a \in Updaters
    BY <1>1, <2>1
  <2>2. CASE a \notin Updaters
    BY <1>1, <2>2
  <2> QED
    BY <2>1, <2>2
<1> QED
  BY <1>2, CountKept
-----------------------------------------------------------------------------
(* The steps of a request.                                                 *)

\* What is known of a request that asks for sheet f.
LEMMA AskerFits ==
  ASSUME Settings, IInv, NEW a \in Asker, NEW f \in Sheet, Asks(a, f)
  PROVE  /\ ask[a].req # None => ask[a].req.filename = f
         /\ ~ask[a].lost /\ writer = None
         /\ a \notin Updaters
<1>1. AtSlot(ask[a]) /\ a # None
  BY DEF IInv, Settings
<1>2. ask[a].pc = "idle" \/ (ask[a].pc = "delayed" /\ f = ask[a].req.filename)
  BY DEF Asks
<1> QED
  BY <1>1, <1>2 DEF AtSlot, Asks, Updaters

\* A request that uses or looks at the slot of its sheet.
LEMMA LooksUp ==
  ASSUME Settings, IInv, NEW a \in Asker, NEW f \in Sheet,
         UseCached(a, f) \/ TakeCheck(a, f)
  PROVE  IInv'
<1> DEFINE i == Cached(f)
           use(p) == [ask[a] EXCEPT !.pc = p, !.fn = f, !.idx = i, !.at = clock]
<1>1. Types /\ Core /\ Counted
  BY DEF IInv, Core
<1>2. Asks(a, f)
  BY DEF UseCached, TakeCheck
<1>3. /\ ask[a].req # None => ask[a].req.filename = f
      /\ ~ask[a].lost /\ writer = None
      /\ a \notin Updaters
  BY <1>2, AskerFits
<1>4. i \in 0 .. CacheSize /\ (i # 0 => Filled(i, f))
  BY <1>1, CachedFills
<1>5. clock \in Nat
  BY <1>1 DEF Types, Settings
<1>6. ASSUME NEW p \in {"send", "stat"}, p = "send" => i # 0
      PROVE  Fits(use(p)) /\ use(p).pc = p
  <2>1. Fits(ask[a]) /\ ask[a] \in Asked
    BY <1>1, AllFit DEF Fits
  <2> HIDE DEF i
  <2>2. /\ use(p) \in Asked /\ use(p).pc = p /\ use(p).fn = f
        /\ use(p).idx = i /\ use(p).req = ask[a].req
        /\ use(p).lost = ask[a].lost
    BY <2>1, <1>4, <1>5 DEF Asked, Steps
  <2> HIDE DEF use
  <2>3. AtSlot(use(p))
    BY <2>2, <1>3, <1>4, <1>6 DEF AtSlot
  <2> QED
    BY <2>1, <2>2, <2>3 DEF Fits
<1>7. CASE UseCached(a, f)
  <2>1. ask' = [ask EXCEPT ![a] = use("send")] /\ i # 0
        /\ UNCHANGED <<cache, updating, writer, file, clock, blurred>>
    BY <1>7 DEF UseCached
  <2>2. Fits(use("send")) /\ use("send").pc = "send"
    BY <2>1, <1>6
  <2>3. CacheKept
    BY <2>1, <1>1 DEF CacheKept, Types
  <2>4. a # None /\ updating \in Nat
    BY <1>1 DEF Settings, Types
  <2> HIDE DEF use, i
  <2>5. Core'
    BY <2>1, <2>2, <2>3, <2>4, <1>1, <1>3, Goes
  <2>6. Counted'
    BY <2>1, <2>2, <2>4, <1>1, <1>3, CountGoes
  <2> QED
    BY <2>5, <2>6 DEF Core, IInv
<1>8. CASE TakeCheck(a, f)
  <2>1. ask' = [ask EXCEPT ![a] = use("stat")]
        /\ UNCHANGED <<updating, writer, file, clock, blurred>>
        /\ (cache' = cache \/ cache' = PutOff(i, clock))
    BY <1>8 DEF TakeCheck
  <2>2. Fits(use("stat")) /\ use("stat").pc = "stat"
    BY <1>6
  <2>3. CacheKept
    <3>1. CASE cache' = cache
      BY <3>1, <1>1 DEF CacheKept, Types
    <3>2. CASE cache' = PutOff(i, clock)
      <4> HIDE DEF i
      <4> QED
        BY <3>2, <1>1, <1>4, <1>5, PutOffKeeps DEF Filled
    <3> QED
      BY <2>1, <3>1, <3>2
  <2>4. a # None /\ updating \in Nat
    BY <1>1 DEF Settings, Types
  <2> HIDE DEF use, i
  <2>5. Core'
    BY <2>1, <2>2, <2>3, <2>4, <1>1, <1>3, Goes
  <2>6. Counted'
    BY <2>1, <2>2, <2>4, <1>1, <1>3, CountGoes
  <2> QED
    BY <2>5, <2>6 DEF Core, IInv
<1> QED
  BY <1>7, <1>8

\* A request that is over.
LEMMA NothingFits ==
  ASSUME Settings, NEW p \in {"idle", "ending"}
  PROVE  LET r == [NoRequest EXCEPT !.pc = p] IN Fits(r) /\ r.pc = p
<1> DEFINE r == [NoRequest EXCEPT !.pc = p]
<1>1. /\ r.pc = p /\ r.fn = None /\ r.idx = 0 /\ r.at = 0 /\ r.req = None
      /\ r.content = 0 /\ r.lost = FALSE
  BY DEF NoRequest
<1>2. NoRequest \in Asked
  BY DEF NoRequest, Asked, Steps, Settings
<1>3. r \in Asked
  BY <1>2 DEF Asked, Steps
<1> HIDE DEF r
<1> QED
  BY <1>1, <1>3 DEF Fits, AtSlot, r

\* The file is not there, or the slot is up to date.
LEMMA LookEnds ==
  ASSUME Settings, IInv, NEW a \in Asker, StatFails(a) \/ NotModified(a)
  PROVE  IInv'
<1>1. Types /\ Core /\ Counted /\ a # None /\ updating \in Nat
      /\ Fits(ask[a]) /\ AtSlot(ask[a]) /\ ask[a] \in Asked
  BY AllFit DEF IInv, Core, Types, Settings, Fits
<1>2. /\ ask[a].pc = "stat" /\ writer # a /\ a \notin Updaters
      /\ UNCHANGED <<updating, writer, file, clock, blurred>>
  BY <1>1 DEF StatFails, NotModified, Core, WriterSends, Updaters
<1>3. CASE StatFails(a)
  <2> DEFINE r == [NoRequest EXCEPT !.pc = "idle"]
  <2>1. Fits(r) /\ r.pc = "idle"
    BY NothingFits
  <2>2. ask' = [ask EXCEPT ![a] = r] /\ cache' = cache
    BY <1>3 DEF StatFails, NoRequest
  <2>3. CacheKept
    BY <2>2, <1>1 DEF CacheKept, Types
  <2> HIDE DEF r
  <2>4. Core'
    BY <2>1, <2>2, <2>3, <1>1, <1>2, Goes
  <2>5. Counted'
    BY <2>1, <2>2, <1>1, <1>2, CountGoes
  <2> QED
    BY <2>4, <2>5 DEF Core, IInv
<1>4. CASE NotModified(a)
  <2> DEFINE r == [ask[a] EXCEPT !.pc = "send"]
  <2>1. ask[a].idx # 0 /\ Filled(ask[a].idx, ask[a].fn)
    BY <1>1, <1>4 DEF NotModified, Modified, AtSlot
  <2>2. ask' = [ask EXCEPT ![a] = r]
        /\ cache' = PutOff(ask[a].idx, ask[a].at)
    BY <1>4 DEF NotModified
  <2>3. CacheKept
    BY <2>1, <2>2, <1>1, PutOffKeeps DEF Filled, Asked
  <2>4. /\ r \in Asked /\ r.pc = "send" /\ r.fn = ask[a].fn
        /\ r.idx = ask[a].idx /\ r.req = ask[a].req /\ r.lost = ask[a].lost
    BY <1>1 DEF Asked, Steps
  <2> HIDE DEF r
  <2>5. Fits(r)
    BY <2>1, <2>4, <1>1, <1>2 DEF Fits, AtSlot
  <2>6. Core'
    BY <2>2, <2>3, <2>4, <2>5, <1>1, <1>2, Goes
  <2>7. Counted'
    BY <2>2, <2>4, <1>1, <1>2, CountGoes
  <2> QED
    BY <2>6, <2>7 DEF Core, IInv
<1> QED
  BY <1>3, <1>4
\* The sheet is to be loaded: by a thread now, or later.
LEMMA LoadAsked ==
  ASSUME Settings, IInv, NEW a \in Asker, ReqSheet(a)
  PROVE  IInv'
<1>1. Types /\ Core /\ Counted /\ a # None /\ updating \in Nat
      /\ Fits(ask[a]) /\ AtSlot(ask[a]) /\ ask[a] \in Asked
  BY AllFit DEF IInv, Core, Types, Settings, Fits
<1>2. /\ ask[a].pc = "stat" /\ writer # a /\ a \notin Updaters
      /\ ask[a].fn \in Sheet
      /\ UNCHANGED <<writer, file, clock, blurred>>
      /\ cache' = PutOff(ask[a].idx, ask[a].at)
  BY <1>1 DEF ReqSheet, Core, WriterSends, Updaters, AtSlot
<1>3. CacheKept
  BY <1>1, <1>2, PutOffKeeps DEF Filled, AtSlot, Asked
<1>4. /\ Req(a) \in Request /\ Req(a) # None /\ Req(a).filename = ask[a].fn
      /\ Req(a).last_modified <= file[ask[a].fn].mtime
  <2>1. CASE ask[a].req # None
    BY <2>1, <1>1 DEF Req, Fits, AtSlot, Asked
  <2>2. CASE ask[a].req = None
    <3> DEFINE q == [filename |-> ask[a].fn,
                     last_modified |-> file[ask[a].fn].mtime,
                     cache_age |-> ask[a].at, next_check |-> ask[a].at + Recheck]
    <3>1. file[ask[a].fn].mtime \in Nat /\ ask[a].at \in Nat
          /\ ask[a].at + Recheck \in Nat
      BY <1>1, <1>2 DEF Types, Asked, Settings
    <3>2. q \in Request
      BY <3>1, <1>2 DEF Request
    <3>3. q.last_modified <= file[ask[a].fn].mtime
      BY <3>1
    <3> QED
      BY <3>2, <3>3, <2>2 DEF Req, Settings
  <2> QED
    BY <2>1, <2>2
<1>5. ASSUME NEW p \in {"parse", "delayed"}
      PROVE  LET r == [ask[a] EXCEPT !.req = Req(a), !.pc = p]
             IN  Fits(r) /\ r.pc = p
  <2> DEFINE r == [ask[a] EXCEPT !.req = Req(a), !.pc = p]
  <2>1. /\ r \in Asked /\ r.pc = p /\ r.fn = ask[a].fn
        /\ r.req = Req(a) /\ r.lost = ask[a].lost
    BY <1>1, <1>4 DEF Asked, Steps
  <2> HIDE DEF r
  <2>2. Fits(r)
    BY <2>1, <1>1, <1>2, <1>4 DEF Fits, AtSlot
  <2> QED
    BY <2>1, <2>2 DEF r
<1>6. CASE updating < MaxUpdating
  <2> DEFINE r == [ask[a] EXCEPT !.req = Req(a), !.pc = "parse"]
  <2>1. ask' = [ask EXCEPT ![a] = r] /\ updating' = updating + 1
        /\ updating' \in Nat
    BY <1>6, <1>1 DEF ReqSheet, Settings
  <2>2. Fits(r) /\ r.pc = "parse"
    BY <1>5
  <2> HIDE DEF r
  <2>3. Core'
    BY <2>1, <2>2, <1>1, <1>2, <1>3, Goes
  <2>4. Updaters' = Updaters \cup {a}
    <3>1. Updaters' = (Updaters \ {a}) \cup
            (IF r.pc \in {"parse", "parsed", "ending"} \/ writer' = a
               THEN {a} ELSE {})
      BY <2>1, <1>1, <1>2, UpdatersSplit
    <3> QED
      BY <3>1, <2>2
  <2>5. Cardinality(Updaters') = Cardinality(Updaters) + 1
    BY <2>4, <1>2, UpdatersFinite, FS_AddElement
  <2>6. Counted'
    BY <2>1, <2>5, <1>1, <1>6 DEF Counted, Settings
  <2> QED
    BY <2>3, <2>6 DEF Core, IInv
<1>7. CASE updating >= MaxUpdating
  <2> DEFINE r == [ask[a] EXCEPT !.req = Req(a), !.pc = "delayed"]
  <2>1. ask' = [ask EXCEPT ![a] = r] /\ updating' = updating
    BY <1>7, <1>1 DEF ReqSheet, Settings
  <2>2. Fits(r) /\ r.pc = "delayed"
    BY <1>5
  <2> HIDE DEF r
  <2>3. Core'
    BY <2>1, <2>2, <1>1, <1>2, <1>3, Goes
  <2>4. Counted'
    BY <2>1, <2>2, <1>1, <1>2, CountGoes
  <2> QED
    BY <2>3, <2>4 DEF Core, IInv
<1> QED
  BY <1>1, <1>6, <1>7 DEF Settings

\* A thread reads the file, or cannot.
LEMMA ParseEnds ==
  ASSUME Settings, IInv, NEW a \in Asker, Parse(a) \/ ParseFails(a)
  PROVE  IInv'
<1>1. Types /\ Core /\ Counted /\ a # None /\ updating \in Nat
      /\ Fits(ask[a]) /\ AtSlot(ask[a]) /\ ask[a] \in Asked
  BY AllFit DEF IInv, Core, Types, Settings, Fits
<1>2. /\ ask[a].pc = "parse" /\ writer # a /\ a \in Updaters
      /\ ask[a].fn \in Sheet
      /\ UNCHANGED <<cache, updating, writer, file, clock, blurred>>
  BY <1>1 DEF Parse, ParseFails, Core, WriterSends, Updaters, AtSlot
<1>3. CacheKept
  BY <1>1, <1>2 DEF CacheKept, Types
<1>4. \E r : Fits(r) /\ r.pc \in {"parsed", "ending"} /\ ask' = [ask EXCEPT ![a] = r]
  <2>1. CASE Parse(a)
    <3> DEFINE r == [ask[a] EXCEPT !.pc = "parsed",
                                   !.content = file[ask[a].fn].content]
    <3>1. ask' = [ask EXCEPT ![a] = r]
      BY <2>1 DEF Parse
    <3>2. /\ r \in Asked /\ r.pc = "parsed" /\ r.fn = ask[a].fn
          /\ r.req = ask[a].req /\ r.lost = ask[a].lost
          /\ r.content = file[ask[a].fn].content
      BY <1>1, <1>2 DEF Asked, Steps, Types
    <3> HIDE DEF r
    <3>3. Fits(r)
      BY <3>2, <1>1, <1>2 DEF Fits, AtSlot, ToldApart
    <3> QED
      BY <3>1, <3>2, <3>3
  <2>2. CASE ParseFails(a)
    <3> DEFINE r == [NoRequest EXCEPT !.pc = "ending"]
    <3>1. ask' = [ask EXCEPT ![a] = r]
      BY <2>2 DEF ParseFails
    <3>2. Fits(r) /\ r.pc = "ending"
      BY NothingFits
    <3> HIDE DEF r
    <3> QED
      BY <3>1, <3>2
  <2> QED
    BY <2>1, <2>2
<1>5. PICK r : Fits(r) /\ r.pc \in {"parsed", "ending"}
               /\ ask' = [ask EXCEPT ![a] = r]
  BY <1>4
<1>6. Core'
  BY <1>1, <1>2, <1>3, <1>5, Goes
<1>7. Counted'
  BY <1>1, <1>2, <1>5, CountGoes
<1> QED
  BY <1>6, <1>7 DEF Core, IInv
\* The page is sent and the lock given up.
LEMMA PageSent ==
  ASSUME Settings, IInv, NEW a \in Asker, SendSheet(a)
  PROVE  IInv'
<1>1. Types /\ Core /\ Counted /\ a # None /\ updating \in Nat
  BY DEF IInv, Core, Types, Settings
<1>2. /\ ask[a].pc = "send"
      /\ UNCHANGED <<cache, updating, file, clock, blurred>>
  BY DEF SendSheet
<1>3. CacheKept
  BY <1>1, <1>2 DEF CacheKept, Types
<1> DEFINE r == [NoRequest EXCEPT !.pc = IF writer = a THEN "ending" ELSE "idle"]
<1>4. ask' = [ask EXCEPT ![a] = r]
  BY DEF SendSheet, NoRequest
<1>5. Fits(r) /\ r.pc = IF writer = a THEN "ending" ELSE "idle"
  BY NothingFits
<1> HIDE DEF r
<1>6. writer' = IF writer = a THEN None ELSE writer
  BY DEF SendSheet
<1>7. writer' \in {writer, None} /\ writer' # a
      /\ \A b \in Asker \ {a} : writer' = b <=> writer = b
  BY <1>1, <1>6 DEF Settings
<1>8. Core'
  BY <1>1, <1>2, <1>3, <1>4, <1>5, <1>7, Goes
<1>9. a \in Updaters <=> r.pc \in {"parse", "parsed", "ending"} \/ writer' = a
  BY <1>2, <1>5, <1>7 DEF Updaters
<1>10. Counted'
  BY <1>1, <1>2, <1>4, <1>7, <1>9, CountGoes
<1> QED
  BY <1>8, <1>10 DEF Core, IInv

\* An update thread ends.
LEMMA ThreadOver ==
  ASSUME Settings, IInv, NEW a \in Asker, ThreadEnds(a)
  PROVE  IInv'
<1>1. Types /\ Core /\ Counted /\ a # None /\ updating \in Nat
  BY DEF IInv, Core, Types, Settings
<1>2. /\ ask[a].pc = "ending" /\ writer # a /\ a \in Updaters
      /\ UNCHANGED <<cache, writer, file, clock, blurred>>
  BY <1>1 DEF ThreadEnds, Core, WriterSends, Updaters
<1>3. CacheKept
  BY <1>1, <1>2 DEF CacheKept, Types
<1> DEFINE r == [NoRequest EXCEPT !.pc = "idle"]
<1>4. ask' = [ask EXCEPT ![a] = r] /\ updating' = updating - 1
  BY DEF ThreadEnds, NoRequest
<1>5. Fits(r) /\ r.pc = "idle"
  BY NothingFits
<1> HIDE DEF r
<1>6. Updaters' = Updaters \ {a}
  <2>1. Updaters' = (Updaters \ {a}) \cup
          (IF r.pc \in {"parse", "parsed", "ending"} \/ writer' = a
             THEN {a} ELSE {})
    BY <1>1, <1>2, <1>4, UpdatersSplit
  <2> QED
    BY <2>1, <1>2, <1>5
<1>7. Cardinality(Updaters') = Cardinality(Updaters) - 1
  BY <1>2, <1>6, UpdatersFinite, FS_RemoveElement
<1>8. Counted' /\ updating' \in Nat
  BY <1>1, <1>4, <1>7, UpdatersFinite DEF Counted, Settings
<1>9. Core'
  BY <1>1, <1>2, <1>3, <1>4, <1>5, <1>8, Goes
<1> QED
  BY <1>8, <1>9 DEF Core, IInv

\* What was loaded gets a slot, with nobody else at one.
LEMMA Installed ==
  ASSUME Settings, IInv, NEW a \in Asker, Install(a)
  PROVE  IInv'
<1>1. Types /\ Core /\ Counted /\ a # None /\ updating \in Nat
      /\ Fits(ask[a]) /\ AtSlot(ask[a]) /\ ask[a] \in Asked
  BY AllFit DEF IInv, Core, Types, Settings, Fits
<1>2. /\ ask[a].pc = "parsed" /\ writer = None /\ Readers = {} /\ writer' = a
      /\ ask[a].fn \in Sheet /\ ask[a].req # None
      /\ ask[a].req \in Request /\ ask[a].req.filename = ask[a].fn
      /\ UNCHANGED <<updating, file, clock, blurred>>
  BY <1>1 DEF Install, Exclusive, AtSlot, Asked
<1> DEFINE i == Evict(ask[a].fn)
           e == Loaded(a)
           r == [ask[a] EXCEPT !.idx = i, !.req = None, !.pc = "send"]
<1>3. i \in Place /\ (Holds(ask[a].fn) # {} => i \in Holds(ask[a].fn))
  BY <1>1, EvictFills
<1>4. \A b \in Asker : ask[b].pc \notin {"stat", "send"}
  BY <1>2 DEF Readers, Settings
<1>5. cache' = [cache EXCEPT ![i] = e] /\ ask' = [ask EXCEPT ![a] = r]
  <2>1. ask' = [b \in Asker |->
          IF b = a THEN r
          ELSE IF b \in Readers /\ ask[b].idx = i THEN [ask[b] EXCEPT !.lost = TRUE]
          ELSE ask[b]]
    BY DEF Install
  <2>2. ask' = [b \in Asker |-> IF b = a THEN r ELSE ask[b]]
    BY <2>1, <1>2
  <2> QED
    BY <2>2, <1>1 DEF Install, Types
<1>6. /\ e \in Entry /\ e # None
      /\ e.filename = ask[a].fn /\ e.content = ask[a].content
      /\ e.last_modified = ask[a].req.last_modified
  <2>1. e = [filename |-> ask[a].fn, last_modified |-> ask[a].req.last_modified,
             content |-> ask[a].content, cache_age |-> ask[a].req.cache_age,
             next_check |-> ask[a].req.next_check]
    BY DEF Loaded
  <2>2. ask[a].content \in Nat
    BY <1>1 DEF Asked
  <2>3. e \in Entry
    BY <2>1, <2>2, <1>2 DEF Entry, Request
  <2> QED
    BY <2>1, <2>3 DEF Settings
<1>7. i \in 0 .. CacheSize
  BY <1>3 DEF Place
<1> HIDE DEF i, e
<1>8. /\ r \in Asked /\ r.pc = "send" /\ r.idx = i /\ r.req = None
      /\ r.fn = ask[a].fn /\ r.lost = ask[a].lost
  BY <1>1, <1>7 DEF Asked, Steps
<1> HIDE DEF r
<1>9. /\ cache' \in [Place -> Entry \cup {None}]
      /\ cache'[i] = e /\ \A j \in Place : j # i => cache'[j] = cache[j]
      /\ ask' \in [Asker -> Asked]
      /\ ask'[a] = r /\ \A b \in Asker : b # a => ask'[b] = ask[b]
  BY <1>1, <1>3, <1>5, <1>6, <1>8 DEF Types
<1>10. Types'
  BY <1>1, <1>2, <1>9 DEF Types
<1>11. \A b \in Asker : AtSlot(ask[b])'
  <2> TAKE b \in Asker
  <2>1. CASE b = a
    BY <2>1, <1>1, <1>2, <1>3, <1>6, <1>8, <1>9 DEF AtSlot, Filled
  <2>2. CASE b # a
    <3>1. AtSlot(ask[b]) /\ ask'[b] = ask[b] /\ ask[b].pc \notin {"stat", "send"}
      BY <2>2, <1>1, <1>4, <1>9 DEF Core
    <3> QED
      BY <3>1 DEF AtSlot
  <2> QED
    BY <2>1, <2>2
<1>12. WriterSends'
  BY <1>2, <1>8, <1>9 DEF WriterSends
<1>13. TimesOrdered'
  <2>1. \A f \in Sheet : file'[f].mtime <= clock'
    BY <1>1, <1>2 DEF Core, TimesOrdered
  <2>2. ask[a].req.last_modified <= file[ask[a].fn].mtime
    BY <1>1, <1>2 DEF Fits
  <2>3. \A j \in Place : cache'[j] # None =>
          cache'[j].last_modified <= file'[cache'[j].filename].mtime
    BY <2>2, <1>1, <1>2, <1>6, <1>9 DEF Core, TimesOrdered
  <2>4. \A b \in Asker : ask'[b].req # None =>
          ask'[b].req.last_modified <= file'[ask'[b].req.filename].mtime
    BY <1>1, <1>2, <1>8, <1>9 DEF Core, TimesOrdered
  <2> QED
    BY <2>1, <2>3, <2>4 DEF TimesOrdered
<1>14. StaleFound'
  <2>1. \A f, c, t : ToldApart(f, c, t)' <=> ToldApart(f, c, t)
    BY <1>2 DEF ToldApart
  <2>2. ToldApart(e.filename, e.content, e.last_modified)
    BY <1>1, <1>2, <1>6 DEF Fits
  <2>3. \A j \in Place : cache'[j] = None
          \/ ToldApart(cache'[j].filename, cache'[j].content,
                       cache'[j].last_modified)
    BY <2>2, <1>1, <1>9 DEF Core, StaleFound
  <2>4. \A b \in Asker : ask'[b].pc # "parsed"
          \/ ToldApart(ask'[b].fn, ask'[b].content, ask'[b].req.last_modified)
    BY <1>1, <1>8, <1>9 DEF Core, StaleFound
  <2> QED
    BY <2>3, <2>4, <1>2 DEF StaleFound, ToldApart
<1>15. CachedOnce'
  <2>1. \A j \in Place : j # i /\ cache[j] # None => cache[j].filename # ask[a].fn
    BY <1>1, <1>3 DEF Core, CachedOnce, Holds
  <2> QED
    BY <2>1, <1>1, <1>6, <1>9 DEF Core, CachedOnce
<1>16. Core'
  BY <1>10, <1>11, <1>12, <1>13, <1>14, <1>15 DEF Core
<1>17. Counted'
  <2>1. a \in Updaters
    BY <1>2 DEF Updaters
  <2>2. \A b \in Asker \ {a} : writer' = b <=> writer = b
    BY <1>2 DEF Settings
  <2> QED
    BY <2>1, <2>2, <1>1, <1>2, <1>5, CountGoes
<1> QED
  BY <1>16, <1>17 DEF Core, IInv
-----------------------------------------------------------------------------
(* The files and the clock.                                                *)

\* What that does to the files and the clock.
Moved ==
  /\ file' \in [Sheet -> [there : BOOLEAN, content : Nat, mtime : Nat]]
  /\ clock' \in 0 .. EndTime /\ clock' >= clock
  /\ blurred' \subseteq Sheet /\ blurred \subseteq blurred'
  /\ \A f \in Sheet :
       \/ file'[f].mtime = file[f].mtime /\ file'[f].content = file[f].content
          /\ (file'[f].there => file[f].there)
       \/ file'[f].mtime = clock
          /\ (file[f].mtime = clock => f \in blurred')
  /\ \A f \in Sheet : file'[f].mtime <= clock'

\* A file is changed or removed, or time passes: the cache and the requests
\* stay, and no time is later than it was but that of a file changed now.
LEMMA WorldGoes ==
  ASSUME Settings, IInv,
         \/ \E f \in Edited : Change(f) \/ Remove(f)
         \/ Tick
  PROVE  IInv'
<1>1. Types /\ Core /\ Counted /\ clock \in Nat
      /\ file \in [Sheet -> [there : BOOLEAN, content : Nat, mtime : Nat]]
  BY DEF IInv, Core, Types, Settings
<1>2. UNCHANGED <<cache, updating, writer, ask>>
  BY DEF Change, Remove, Tick
<1>3. Moved
  <2>1. \A f \in Sheet : file[f].mtime <= clock /\ file[f].mtime \in Nat
                         /\ file[f].content \in Nat
    BY <1>1 DEF Core, TimesOrdered
  <2>2. ASSUME NEW g \in Edited, Change(g)
        PROVE  Moved
    <3> DEFINE e == [there |-> TRUE, content |-> file[g].content + 1,
                     mtime |-> clock]
    <3>1. g \in Sheet
      BY DEF Settings
    <3>2. file' = [file EXCEPT ![g] = e] /\ clock' = clock
          /\ blurred' = IF file[g].mtime = clock THEN blurred \cup {g} ELSE blurred
      BY <2>2 DEF Change
    <3>3. e \in [there : BOOLEAN, content : Nat, mtime : Nat] /\ e.mtime = clock
      BY <2>1, <3>1, <1>1
    <3> HIDE DEF e
    <3>4. file' \in [Sheet -> [there : BOOLEAN, content : Nat, mtime : Nat]]
          /\ file'[g] = e /\ \A f \in Sheet : f # g => file'[f] = file[f]
      BY <3>1, <3>2, <3>3, <1>1
    <3> QED
      BY <2>1, <3>1, <3>2, <3>3, <3>4, <1>1 DEF Types, Moved
  <2>3. ASSUME NEW g \in Edited, Remove(g)
        PROVE  Moved
    <3> DEFINE e == [file[g] EXCEPT !.there = FALSE]
    <3>1. g \in Sheet
      BY DEF Settings
    <3>2. file' = [file EXCEPT ![g] = e] /\ clock' = clock /\ blurred' = blurred
      BY <2>3 DEF Remove
    <3>3. /\ e \in [there : BOOLEAN, content : Nat, mtime : Nat]
          /\ e.mtime = file[g].mtime /\ e.content = file[g].content
          /\ e.there = FALSE
      BY <3>1, <1>1
    <3> HIDE DEF e
    <3>4. file' \in [Sheet -> [there : BOOLEAN, content : Nat, mtime : Nat]]
          /\ file'[g] = e /\ \A f \in Sheet : f # g => file'[f] = file[f]
      BY <3>1, <3>2, <3>3, <1>1
    <3> QED
      BY <2>1, <3>1, <3>2, <3>3, <3>4, <1>1 DEF Types, Moved
  <2>4. CASE Tick
    <3>1. file' = file /\ clock' = clock + 1 /\ clock < EndTime /\ blurred' = blurred
      BY <2>4 DEF Tick
    <3> QED
      BY <2>1, <3>1, <1>1 DEF Types, Settings, Moved
  <2> QED
    BY <2>2, <2>3, <2>4
<1>4. Types'
  BY <1>1, <1>2, <1>3 DEF Types, Moved
<1>5. \A a \in Asker : AtSlot(ask[a])'
  BY <1>1, <1>2 DEF Core, AtSlot, Filled
<1>6. WriterSends'
  BY <1>1, <1>2 DEF Core, WriterSends
<1>7. ASSUME NEW f \in Sheet, NEW t \in Nat, t <= file[f].mtime
      PROVE  t <= file'[f].mtime
  BY <1>1, <1>3, <1>7 DEF Core, TimesOrdered, Moved
<1>8. \A i \in Place : cache[i] # None =>
        /\ cache[i].filename \in Sheet /\ cache[i].last_modified \in Nat
        /\ cache[i].content \in Nat
  BY <1>1 DEF Types, Entry
<1>9. \A a \in Asker : ask[a].req # None =>
        /\ ask[a].req.filename \in Sheet /\ ask[a].req.last_modified \in Nat
        /\ ask[a].content \in Nat
  BY <1>1 DEF Types, Asked, Request
<1>10. TimesOrdered'
  <2>1. \A i \in Place : cache[i] # None =>
          cache[i].last_modified <= file'[cache[i].filename].mtime
    BY <1>1, <1>7, <1>8 DEF Core, TimesOrdered
  <2>2. \A a \in Asker : ask[a].req # None =>
          ask[a].req.last_modified <= file'[ask[a].req.filename].mtime
    BY <1>1, <1>7, <1>9 DEF Core, TimesOrdered
  <2> QED
    BY <2>1, <2>2, <1>2, <1>3 DEF TimesOrdered, Moved
<1>11. ASSUME NEW f \in Sheet, NEW c, NEW t \in Nat, t <= file[f].mtime,
              ToldApart(f, c, t)
       PROVE  ToldApart(f, c, t)'
  <2>1. file[f].mtime \in Nat /\ file[f].mtime <= clock
    BY <1>1 DEF Core, TimesOrdered
  <2>2. CASE /\ file'[f].mtime = file[f].mtime
             /\ file'[f].content = file[f].content
             /\ file'[f].there => file[f].there
    BY <2>2, <1>3, <1>11 DEF ToldApart, Moved
  <2>3. CASE /\ file'[f].mtime = clock
             /\ file[f].mtime = clock => f \in blurred'
    <3>1. CASE file[f].mtime = clock
      BY <2>3, <3>1 DEF ToldApart
    <3>2. CASE file[f].mtime # clock
      BY <2>1, <2>3, <3>2, <1>1, <1>11 DEF ToldApart
    <3> QED
      BY <3>1, <3>2
  <2> QED
    BY <2>2, <2>3, <1>3 DEF Moved
<1>12. StaleFound'
  <2>1. ASSUME NEW i \in Place, cache'[i] # None
        PROVE  ToldApart(cache[i].filename, cache[i].content,
                         cache[i].last_modified)'
    <3>1. /\ cache[i] # None /\ cache' = cache
          /\ ToldApart(cache[i].filename, cache[i].content, cache[i].last_modified)
          /\ cache[i].last_modified <= file[cache[i].filename].mtime
      BY <2>1, <1>1, <1>2 DEF Core, StaleFound, TimesOrdered
    <3>2. PICK f \in Sheet, c, t \in Nat :
            f = cache[i].filename /\ c = cache[i].content
            /\ t = cache[i].last_modified
      BY <3>1, <1>8
    <3>3. ToldApart(f, c, t)'
      BY <3>1, <3>2, <1>11
    <3> QED
      BY <3>1, <3>2, <3>3 DEF ToldApart
  <2>2. ASSUME NEW a \in Asker, ask'[a].pc = "parsed"
        PROVE  ToldApart(ask[a].fn, ask[a].content, ask[a].req.last_modified)'
    <3>1. /\ ask[a].pc = "parsed" /\ ask' = ask
          /\ ToldApart(ask[a].fn, ask[a].content, ask[a].req.last_modified)
          /\ ask[a].req # None /\ ask[a].req.filename = ask[a].fn
          /\ ask[a].req.last_modified <= file[ask[a].fn].mtime
      BY <2>2, <1>1, <1>2 DEF Core, StaleFound, TimesOrdered, AtSlot
    <3>2. PICK f \in Sheet, c, t \in Nat :
            f = ask[a].fn /\ c = ask[a].content
            /\ t = ask[a].req.last_modified
      BY <3>1, <1>9
    <3>3. ToldApart(f, c, t)'
      BY <3>1, <3>2, <1>11
    <3> QED
      BY <3>1, <3>2, <3>3 DEF ToldApart
  <2> QED
    BY <2>1, <2>2 DEF StaleFound
<1>13. CachedOnce'
  BY <1>1, <1>2 DEF Core, CachedOnce
<1>14. Counted'
  <2>1. Updaters' = Updaters
    BY <1>2 DEF Updaters
  <2> QED
    BY <2>1, <1>1, <1>2, CountKept
<1> QED
  BY <1>4, <1>5, <1>6, <1>10, <1>12, <1>13, <1>14 DEF IInv

-----------------------------------------------------------------------------
\* Every step keeps the inductive invariant.
LEMMA Inductive ==
  ASSUME Settings
  PROVE  IInv /\ [Next]_vars => IInv'
<1> SUFFICES ASSUME IInv, [Next]_vars PROVE IInv'
  OBVIOUS
<1>1. ASSUME NEW a \in Asker, NEW f \in Sheet, UseCached(a, f) \/ TakeCheck(a, f)
      PROVE  IInv'
  BY <1>1, LooksUp
<1>2. ASSUME NEW a \in Asker, StatFails(a) \/ NotModified(a) PROVE IInv'
  BY <1>2, LookEnds
<1>3. ASSUME NEW a \in Asker, ReqSheet(a) PROVE IInv'
  BY <1>3, LoadAsked
<1>4. ASSUME NEW a \in Asker, Parse(a) \/ ParseFails(a) PROVE IInv'
  BY <1>4, ParseEnds
<1>5. ASSUME NEW a \in Asker, Install(a) PROVE IInv'
  BY <1>5, Installed
<1>6. ASSUME NEW a \in Asker, SendSheet(a) PROVE IInv'
  BY <1>6, PageSent
<1>7. ASSUME NEW a \in Asker, ThreadEnds(a) PROVE IInv'
  BY <1>7, ThreadOver
<1>8. CASE \/ \E f \in Edited : Change(f) \/ Remove(f)
           \/ Tick
  BY <1>8, WorldGoes
<1>9. CASE UNCHANGED vars
  <2>1. Updaters' = Updaters
    BY <1>9 DEF vars, Updaters
  <2> QED
    BY <2>1, <1>9 DEF vars, IInv, Types, AtSlot, Filled, WriterSends,
       TimesOrdered, StaleFound, ToldApart, CachedOnce, Counted
<1> QED
  BY <1>1, <1>2, <1>3, <1>4, <1>5, <1>6, <1>7, <1>8, <1>9 DEF Next

\* An empty cache and no request.
LEMMA Start ==
  ASSUME Settings
  PROVE  Init => IInv
<1> SUFFICES ASSUME Init PROVE IInv
  OBVIOUS
<1> DEFINE r == NoRequest
<1>1. Fits(r) /\ r.pc = "idle"
  <2>1. /\ r.pc = "idle" /\ r.fn = None /\ r.idx = 0 /\ r.at = 0 /\ r.req = None
        /\ r.content = 0 /\ r.lost = FALSE
    BY DEF NoRequest
  <2>2. r \in Asked
    BY DEF NoRequest, Asked, Steps, Settings
  <2> HIDE DEF r
  <2> QED
    BY <2>1, <2>2 DEF Fits, AtSlot
<1>2. \A a \in Asker : ask[a] = NoRequest
  BY DEF Init
<1>3. \A a \in Asker : ask[a] = r
  BY <1>2
<1> HIDE DEF r
<1>4. \A i \in Place : cache[i] = None
  BY DEF Init
<1>5. Types
  BY <1>1, <1>3 DEF Init, Types, Fits, Settings
<1>6. \A a \in Asker : AtSlot(ask[a]) /\ ask[a].pc = "idle" /\ ask[a].req = None
  BY <1>1, <1>3 DEF Fits, AtSlot
<1>7. WriterSends /\ writer \notin Asker /\ updating = 0
  BY DEF Init, WriterSends, Settings
<1>8. TimesOrdered
  BY <1>4, <1>6 DEF TimesOrdered, Init
<1>9. StaleFound /\ CachedOnce
  BY <1>4, <1>6 DEF StaleFound, CachedOnce
<1>10. Counted
  <2>1. Updaters = {}
    BY <1>6, <1>7 DEF Updaters
  <2> QED
    BY <2>1, <1>7, FS_EmptySet DEF Counted, Settings
<1> QED
  BY <1>5, <1>6, <1>7, <1>8, <1>9, <1>10 DEF IInv

\* What the property says follows from the inductive invariant.
LEMMA Consequences ==
  ASSUME Settings
  PROVE  IInv => SheetsCurrent
<1> SUFFICES ASSUME IInv PROVE SheetsCurrent
  OBVIOUS
<1>1. TypeOK
  BY DEF IInv, Types, Counted, TypeOK, Entry, Asked, Settings
<1>2. SheetAlive
  BY DEF IInv, SheetAlive, AtSlot, Filled
<1>3. UpdatersCounted
  BY DEF IInv, Counted, Updaters, UpdatersCounted
<1> QED
  BY <1>1, <1>2, <1>3 DEF IInv, SheetsCurrent

\* A stylesheet is not freed in use, one that its file has left behind is found
\* out, each is cached once, and the places for update threads come back.
THEOREM SheetsStayCurrent ==
  ASSUME Settings
  PROVE  Spec => []SheetsCurrent
<1> QED
  BY Start, Inductive, Consequences, PTL DEF Spec
=============================================================================
