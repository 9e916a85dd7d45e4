------------------------ MODULE BufferPoolRefinement ------------------------
(***************************************************************************)
(* A bufferpool that one thread uses, whose users mark the pages they      *)
(* write, implements the page store: for every pool size, any files and    *)
(* any number of users.                                                    *)
(***************************************************************************)
EXTENDS BufferPoolProofs

\* One thread, and no user that writes without mark_dirty.
SingleThread == (\A s, t \in Thread : s = t) /\ Unmarked = {}

\* At most one user is in the middle of an operation.
OneBusy == \A u, w \in User : at[u] \in Busy /\ at[w] \in Busy => u = w

\* A user with a pointer for an operation has it into the slot of its page,
\* and the page is marked before the user writes.
Holds ==
    \A u \in User : at[u] \in {"loaded", "marked"} =>
       /\ page[u] \in Cached
       /\ ptable[page[u]].pos = pos[u]
       /\ at[u] = "marked" => ptable[page[u]].dirty

\* The pages whose bit is set are pages of the file.
BitsInFile == \A f \in File : file[f].slots \subseteq 1 .. file[f].npages

Rest == OneBusy /\ Holds /\ CleanCoherent /\ BitsInFile
CohInv == PoolInv /\ Rest

\* View and CleanCoherent for a page table, files and a buffer that are not
\* (yet) those of the pool.
Look(pt, fl, bf, p) ==
    IF ~ is_valid(fl[p[1]], p[2]) THEN NoPage
    ELSE IF p \in DOMAIN pt THEN bf[pt[p].pos]
    ELSE fl[p[1]].data[p[2]]

Coherent(pt, fl, bf) ==
    \A p \in DOMAIN pt : ~ pt[p].dirty => bf[pt[p].pos] = fl[p[1]].data[p[2]]

\* View and CleanCoherent are these.
LEMMA LookIsView ==
    /\ \A p \in Page : View(p) = Look(ptable, file, buffer, p)
    /\ CleanCoherent <=> Coherent(ptable, file, buffer)
  BY Zenon DEF View, Look, CleanCoherent, Coherent, Cached, DirtyPages

\* What a client sees stays as it is.
Same == \A p \in Page : View(p)' = View(p)

\* The room r is made without any effect on what clients see.
RoomSame(r) ==
    /\ \A p \in Page : Look(r.ptable, r.file, buffer, p) = View(p)
    /\ Coherent(r.ptable, r.file, buffer)

\* In a program with one thread no other user is busy.
LEMMA Alone ==
    ASSUME SingleThread, NEW u \in User, Running(u)
    PROVE  \A w \in User : at[w] \in Busy => w = u
  BY PoolAssumption, SMTT(30) DEF SingleThread, Running, Between

\* The flush functions are called between two operations.
LEMMA NoneBusy ==
    ASSUME SingleThread, NEW t \in Thread, Between(t, {})
    PROVE  \A w \in User : at[w] \notin Busy
  BY PoolAssumption, Zenon DEF SingleThread, Between

\* The step of a user: only its own pointer has to be looked at.
LEMMA UserHolds ==
    ASSUME SingleThread, PoolInv, NEW u \in User, Running(u), NEW STATE a,
           at' = [at EXCEPT ![u] = a],
           a \in {"loaded", "marked"} =>
              /\ page'[u] \in Cached'
              /\ ptable'[page'[u]].pos = pos'[u]
              /\ a = "marked" => ptable'[page'[u]].dirty
    PROVE  OneBusy' /\ Holds'
<1>1. \A w \in User : w # u => at'[w] = at[w] /\ at[w] \notin Busy
  BY Alone, Zenon DEF PoolInv, TypeOK
<1>2. at'[u] = a
  BY Zenon DEF PoolInv, TypeOK
<1>3. "loaded" \in Busy /\ "marked" \in Busy
  BY Zenon DEF Busy
<1>4. \A w \in User : at'[w] \in Busy => w = u
  BY <1>1, Zenon
<1>. QED  BY <1>1, <1>2, <1>3, <1>4, Zenon DEF OneBusy, Holds

\* WriteBack puts the payloads of its pages into the files.
LEMMA WriteBackData ==
    ASSUME TypeOK, NEW S, S \subseteq Cached, NEW p \in Page
    PROVE  WriteBack(S)[p[1]].data[p[2]] =
              IF p \in S THEN buffer[ptable[p].pos] ELSE file[p[1]].data[p[2]]
<1>1. p[1] \in File /\ p[2] \in PageId /\ p = <<p[1], p[2]>>
  BY PagePair, Zenon
<1>2. file[p[1]] \in PFile
  BY <1>1, Zenon DEF TypeOK
<1> DEFINE d == [i \in PageId |-> IF <<p[1], i>> \in S THEN buffer[ptable[<<p[1], i>>].pos]
                                  ELSE file[p[1]].data[i]]
<1>3. WriteBack(S)[p[1]] = [file[p[1]] EXCEPT !.data = d]
  BY <1>1, <1>2, Zenon DEF WriteBack, PFile
<1>4. WriteBack(S)[p[1]].data = d
  BY <1>2, <1>3, Zenon DEF PFile
<1>5. d[p[2]] = IF <<p[1], p[2]>> \in S THEN buffer[ptable[<<p[1], p[2]>>].pos] ELSE file[p[1]].data[p[2]]
  BY <1>1, Zenon
<1>. QED  BY <1>1, <1>4, <1>5, Zenon

\* evict_page changes nothing that clients see.
LEMMA EvictSame ==
    ASSUME PoolInv, CleanCoherent, NEW v \in Cached
    PROVE  RoomSame(Evict(v))
<1> DEFINE e == Evict(v)
           S == {v} \cap DirtyPages
<1>1. /\ DOMAIN e.ptable = Cached \ {v}
      /\ \A q \in Cached \ {v} : e.ptable[q] = ptable[q]
      /\ e.file = WriteBack(S)
  BY Zenon DEF Evict, Restrict
<1>2. \A f \in File : e.file[f].npages = file[f].npages /\ e.file[f].slots = file[f].slots
  BY EvictFacts, Zenon
<1>3. TypeOK /\ S \subseteq Cached /\ Cached \subseteq Page
  BY Zenon DEF PoolInv, TypeOK
<1>4. \A p \in Page : e.file[p[1]].data[p[2]] =
                        IF p \in S THEN buffer[ptable[p].pos] ELSE file[p[1]].data[p[2]]
  BY <1>1, <1>3, WriteBackData, SMTT(30)
<1>5. v \notin S => buffer[ptable[v].pos] = file[v[1]].data[v[2]]
  BY Zenon DEF CleanCoherent
<1>6. \A q \in S : q = v
  BY Zenon
<1> HIDE DEF e, S
<1>7. ASSUME NEW p \in Page PROVE Look(e.ptable, e.file, buffer, p) = View(p)
  <2>1. is_valid(e.file[p[1]], p[2]) <=> is_valid(file[p[1]], p[2])
    BY <1>2, PagePair, Zenon DEF is_valid
  <2>2. CASE p = v
    BY <1>1, <1>3, <1>4, <1>5, <2>1, <2>2, Zenon DEF Look, View
  <2>3. CASE p # v
    BY <1>1, <1>4, <1>6, <2>1, <2>3, Zenon DEF Look, View
  <2>. QED  BY <2>2, <2>3, Zenon
<1>8. Coherent(e.ptable, e.file, buffer)
  <2> SUFFICES ASSUME NEW p \in Cached \ {v}, ~ ptable[p].dirty
               PROVE  buffer[ptable[p].pos] = e.file[p[1]].data[p[2]]
    BY <1>1, Zenon DEF Coherent
  <2>. QED  BY <1>3, <1>4, <1>6, Zenon DEF CleanCoherent, DirtyPages
<1>. QED  BY <1>7, <1>8, Zenon DEF RoomSame, e

\* Neither does a pool that keeps its pages.
LEMMA KeepSame ==
    ASSUME CleanCoherent
    PROVE  RoomSame([ptable |-> ptable, lru |-> lru, free |-> free, file |-> file])
  BY LookIsView, Zenon DEF RoomSame

\* The room fetch_page makes.
LEMMA RoomLook ==
    ASSUME PoolInv, CleanCoherent, ~ NoRoom
    PROVE  RoomSame(Room)
<1>1. CASE Len(lru) = PoolSize
  BY <1>1, VictimCached, EvictSame, Zenon DEF Room, NoRoom
<1>2. CASE Len(lru) # PoolSize
  BY <1>2, KeepSame, Zenon DEF Room
<1>. QED  BY <1>1, <1>2, Zenon

\* A free slot of a room can be overwritten without effect on its pages.
LEMMA FreeSlot ==
    ASSUME NEW r, RoomOK(r), NEW s \in r.free, NEW x, NEW bf, bf = [buffer EXCEPT ![s] = x],
           TypeOK, RoomSame(r)
    PROVE  /\ \A p \in Page : Look(r.ptable, r.file, bf, p) = View(p)
           /\ Coherent(r.ptable, r.file, bf)
<1>1. \A q \in DOMAIN r.ptable : r.ptable[q] = ptable[q] /\ ptable[q].pos # s /\ ptable[q].pos \in Slot
  BY Zenon DEF RoomOK, Restrict, TypeOK, Entry
<1>2. \A q \in DOMAIN r.ptable : bf[r.ptable[q].pos] = buffer[r.ptable[q].pos]
  BY <1>1, Zenon DEF TypeOK
<1>3. \A p \in Page : Look(r.ptable, r.file, bf, p) = Look(r.ptable, r.file, buffer, p)
  BY <1>2, Zenon DEF Look
<1>. QED  BY <1>2, <1>3, Zenon DEF RoomSame, Coherent

\* A room leaves the bits of the files alone.
LEMMA RoomBits ==
    ASSUME BitsInFile, NEW STATE r, RoomOK(r), file' = r.file
    PROVE  BitsInFile'
  BY Zenon DEF BitsInFile, RoomOK

\* How a step that clients cannot see is recognised.
LEMMA SameStep ==
    ASSUME \A p \in Page : Look(ptable', file', buffer', p) = View(p),
           Coherent(ptable', file', buffer')
    PROVE  Same /\ CleanCoherent'
  BY Zenon DEF Same, View, Look, Coherent, CleanCoherent, Cached, DirtyPages

\* A step that leaves the files and the pool alone.
LEMMA PoolKept ==
    ASSUME CohInv, UNCHANGED <<file, pool>>
    PROVE  Same /\ CleanCoherent' /\ BitsInFile'
  BY LookIsView, SameStep, Zenon DEF CohInv, Rest, BitsInFile, pool

\* A step that changes only the pins, or sets a dirty flag.
LEMMA FlagsKept ==
    ASSUME CohInv, UNCHANGED <<file, buffer>>, Cached' = Cached,
           \A p \in Cached : /\ ptable'[p].pos = ptable[p].pos
                             /\ ptable[p].dirty => ptable'[p].dirty
    PROVE  Same /\ CleanCoherent' /\ BitsInFile'
<1>1. \A p \in Page : Look(ptable', file', buffer', p) = View(p)
  BY Zenon DEF Look, View, Cached
<1>2. Coherent(ptable', file', buffer')
  BY LookIsView, Zenon DEF CohInv, Rest, Coherent, Cached
<1>. QED  BY <1>1, <1>2, SameStep, Zenon DEF CohInv, Rest, BitsInFile

\* fetch_page changes nothing clients see, and its caller holds the page.
LEMMA FetchRest ==
    ASSUME SingleThread, CohInv, NEW u \in User, fetch_page(u)
    PROVE  Rest' /\ Same
<1> DEFINE p == page[u]
<1>0. PoolInv /\ Running(u) /\ p \in Page /\ CleanCoherent /\ BitsInFile
  BY Zenon DEF CohInv, Rest, fetch_page, PoolInv, TypeOK, Busy
<1>1. at \in [User -> Activity] /\ page \in [User -> Page \cup {NoPage}] /\ pos \in [User -> 0 .. PoolSize]
  BY <1>0, Zenon DEF PoolInv, TypeOK
<1> HIDE DEF p
<1>2. CASE Hit(u, p)
  <2>1. OneBusy' /\ Holds'
    BY <1>0, <1>1, <1>2, UserHolds, Zenon DEF Hit, Goto, Cached
  <2>2. Same /\ CleanCoherent' /\ BitsInFile'
    BY <1>2, FlagsKept, Zenon DEF Hit, Cached
  <2>. QED  BY <2>1, <2>2, Zenon DEF Rest
<1>3. CASE Overrun(u, p)
  <2>1. OneBusy' /\ Holds'
    BY <1>0, <1>3, UserHolds, Zenon DEF Overrun, Release, Goto
  <2>. QED  BY <1>3, <2>1, PoolKept, Zenon DEF Overrun, Rest
<1>4. CASE BadPage(u, p)
  <2>1. OneBusy' /\ Holds'
    BY <1>0, <1>4, UserHolds, Zenon DEF BadPage, Release, Goto
  <2>2. RoomOK(Room) /\ RoomSame(Room)
    BY <1>0, <1>4, RoomFacts, RoomLook, Zenon DEF BadPage
  <2>3. Same /\ CleanCoherent'
    BY <1>4, <2>2, SameStep, Zenon DEF BadPage, RoomSame
  <2>4. BitsInFile'
    BY <1>0, <1>4, <2>2, RoomBits, Zenon DEF BadPage
  <2>. QED  BY <2>1, <2>3, <2>4, Zenon DEF Rest
<1>5. CASE Miss(u, p)
  <2> DEFINE r == Room
             s == Min(r.free)
  <2>1. RoomOK(r) /\ RoomSame(r) /\ s \in r.free
    BY <1>0, <1>5, RoomFacts, RoomLook, RoomSlot, Zenon DEF Miss
  <2>2. /\ file' = r.file
        /\ buffer' = [buffer EXCEPT ![s] = r.file[p[1]].data[p[2]]]
        /\ ptable' = [q \in (DOMAIN r.ptable) \cup {p} |->
                         IF q = p THEN [pos |-> s, dirty |-> FALSE, pinned |-> FALSE]
                         ELSE r.ptable[q]]
        /\ Goto(u, "loaded", p, s)
        /\ p \notin Cached
    BY <1>5, Zenon DEF Miss
  <2> HIDE DEF r, s
  <2>3. OneBusy' /\ Holds'
    <3>1. page'[u] = p /\ pos'[u] = s /\ at' = [at EXCEPT ![u] = "loaded"]
      BY <1>1, <2>2, Zenon DEF Goto
    <3>2. p \in Cached' /\ ptable'[p].pos = s
      BY <2>2, Zenon DEF Cached
    <3>. QED  BY <1>0, <3>1, <3>2, UserHolds, Zenon
  <2>4. BitsInFile'
    BY <1>0, <2>1, <2>2, RoomBits, Zenon
  <2>5. /\ \A q \in Page : Look(r.ptable, r.file, buffer', q) = View(q)
        /\ Coherent(r.ptable, r.file, buffer')
    BY <1>0, <2>1, <2>2, FreeSlot, Zenon DEF PoolInv
  <2>6. buffer'[s] = r.file[p[1]].data[p[2]]
    BY <1>0, <2>1, <2>2, Zenon DEF PoolInv, TypeOK, RoomOK
  <2>7. p \notin DOMAIN r.ptable
    BY <2>1, <2>2, Zenon DEF RoomOK
  <2>8. \A q \in Page : Look(ptable', file', buffer', q) = View(q)
    <3>1. \A q \in Page : q # p => Look(ptable', file', buffer', q) = Look(r.ptable, r.file, buffer', q)
      <4> SUFFICES ASSUME NEW q \in Page, q # p
                   PROVE  Look(ptable', file', buffer', q) = Look(r.ptable, r.file, buffer', q)
        BY Zenon
      <4>1. q \in DOMAIN ptable' <=> q \in DOMAIN r.ptable
        BY <2>2, Zenon
      <4>2. q \in DOMAIN r.ptable => ptable'[q] = r.ptable[q]
        BY <2>2, Zenon
      <4>. QED  BY <2>2, <4>1, <4>2, SMTT(30) DEF Look
    <3>2. Look(ptable', file', buffer', p) = Look(r.ptable, r.file, buffer', p)
      BY <2>2, <2>6, <2>7, Zenon DEF Look
    <3>. QED  BY <2>5, <3>1, <3>2, Zenon
  <2>9. Coherent(ptable', file', buffer')
    BY <2>2, <2>5, <2>6, <2>7, Zenon DEF Coherent
  <2>. QED  BY <2>3, <2>4, <2>8, <2>9, SameStep, Zenon DEF Rest
<1>. QED  BY <1>2, <1>3, <1>4, <1>5, Zenon DEF fetch_page, p

\* Marking, reading, pinning and unpinning are invisible.
LEMMA PointerRest ==
    ASSUME SingleThread, CohInv, NEW u \in User,
           mark_dirty(u) \/ read(u) \/ pin_page(u) \/ unpin_page(u)
    PROVE  Rest' /\ Same
<1>0. PoolInv /\ Running(u) /\ ptable \in [Cached -> Entry]
  BY Zenon DEF CohInv, PoolInv, TypeOK, mark_dirty, read, pin_page, unpin_page
<1>1. CASE read(u)
  <2>1. OneBusy' /\ Holds'
    BY <1>0, <1>1, UserHolds, Zenon DEF read, Release, Goto
  <2>. QED  BY <1>1, <2>1, PoolKept, Zenon DEF read, Rest
<1>2. CASE mark_dirty(u)
  <2>1. page[u] \in Cached /\ ptable[page[u]].pos = pos[u]
    BY <1>2, Zenon DEF mark_dirty, CohInv, Rest, Holds
  <2>2. /\ Cached' = Cached
        /\ ptable'[page[u]].dirty
        /\ \A p \in Cached : /\ ptable'[p].pos = ptable[p].pos
                             /\ ptable[p].dirty => ptable'[p].dirty
    BY <1>0, <1>2, <2>1, Zenon DEF mark_dirty, Cached, Entry
  <2>3. OneBusy' /\ Holds'
    BY <1>0, <1>2, <2>1, <2>2, UserHolds, Zenon DEF mark_dirty
  <2>. QED  BY <1>2, <2>2, <2>3, FlagsKept, Zenon DEF mark_dirty, Rest
<1>3. CASE pin_page(u)
  <2>1. OneBusy' /\ Holds'
    BY <1>0, <1>3, UserHolds, Zenon DEF pin_page
  <2>2. /\ Cached' = Cached
        /\ \A p \in Cached : ptable'[p].pos = ptable[p].pos /\ ptable'[p].dirty = ptable[p].dirty
    BY <1>0, <1>3, Zenon DEF pin_page, Cached, Entry
  <2>. QED  BY <1>3, <2>1, <2>2, FlagsKept, Zenon DEF pin_page, Rest
<1>4. CASE unpin_page(u)
  <2>1. OneBusy' /\ Holds'
    BY <1>0, <1>4, UserHolds, Zenon DEF unpin_page, Release, Goto
  <2>2. /\ Cached' = Cached
        /\ \A p \in Cached : ptable'[p].pos = ptable[p].pos /\ ptable'[p].dirty = ptable[p].dirty
    BY <1>0, <1>4, Zenon DEF unpin_page, Cached, Entry
  <2>. QED  BY <1>4, <2>1, <2>2, FlagsKept, Zenon DEF unpin_page, Rest
<1>. QED  BY <1>1, <1>2, <1>3, <1>4, Zenon

-----------------------------------------------------------------------------
\* The step of the page store that a visible step of the pool makes.
Becomes(p, x) ==
    /\ View(p)' = x
    /\ \A q \in Page : q # p => View(q)' = View(q)

Visible ==
    \E p \in Page :
       \/ View(p) = NoPage /\ Becomes(p, Zero)
       \/ View(p) # NoPage /\ Becomes(p, NoPage)
       \/ View(p) # NoPage /\ \E v \in Values : Becomes(p, v)

\* A page of the pool is a valid page, and what it holds is a payload.
LEMMA CachedValid ==
    ASSUME CohInv, NEW p \in Cached
    PROVE  /\ p \in Page
           /\ is_valid(file[p[1]], p[2])
           /\ View(p) = buffer[ptable[p].pos]
           /\ View(p) # NoPage
<1>1. p \in Page /\ p[1] \in File /\ p[2] \in PageId
  BY PagePair, Zenon DEF CohInv, PoolInv, TypeOK
<1>2. p[2] \in file[p[1]].slots
  BY <1>1, Zenon DEF CohInv, PoolInv, CachedAccessible, Accessible
<1>3. is_valid(file[p[1]], p[2])
  BY <1>1, <1>2, Zenon DEF CohInv, Rest, BitsInFile, is_valid
<1>4. buffer[ptable[p].pos] \in Payload
  BY Zenon DEF CohInv, PoolInv, TypeOK, Entry
<1>. QED  BY <1>1, <1>3, <1>4, PoolAssumption, Zenon DEF View

\* allocate_page: the page was absent, and is empty from now on.
LEMMA NewRest ==
    ASSUME SingleThread, CohInv, NEW u \in User, Running(u), NEW f \in File, AskNew(u, f)
    PROVE  Rest' /\ Visible
<1>n. PICK n \in PageId : n = NextPage(file[f])
  BY Zenon DEF AskNew, CanAllocate
<1> DEFINE g == allocate_page(file[f])
           p == <<f, n>>
<1>0. PoolInv /\ file \in [File -> PFile] /\ file[f] \in PFile /\ UNCHANGED pool
  BY Zenon DEF CohInv, PoolInv, TypeOK, AskNew
<1>1. n \in PageId /\ file' = [file EXCEPT ![f] = g]
  BY Zenon DEF AskNew
<1>2. OneBusy' /\ Holds'
  BY <1>0, UserHolds, Zenon DEF AskNew, Goto
<1>3. file[f].npages \in Nat /\ file[f].slots \subseteq 1 .. file[f].npages /\ file[f].data \in [PageId -> Payload]
  BY <1>0, FileAssumption, SMTT(30) DEF CohInv, Rest, BitsInFile, PFile
<1>4. n \notin file[f].slots
  <2>1. CASE FreedPages(file[f]) # {}
    <3>1. FreedPages(file[f]) \subseteq Nat
      BY SMTT(30) DEF FreedPages
    <3>2. n \in FreedPages(file[f])
      BY <1>n, <2>1, <3>1, MinOfNats, Zenon DEF NextPage
    <3>. QED  BY <3>2, Zenon DEF FreedPages
  <2>2. CASE FreedPages(file[f]) = {}
    BY <1>n, <2>2, <1>3, SMTT(30) DEF NextPage
  <2>. QED  BY <2>1, <2>2, Zenon
<1>5. n \in 1 .. g.npages /\ file[f].npages <= g.npages /\ g.npages \in Nat
  <2>1. CASE FreedPages(file[f]) # {}
    <3>1. FreedPages(file[f]) \subseteq Nat
      BY SMTT(30) DEF FreedPages
    <3>2. n \in FreedPages(file[f])
      BY <1>n, <2>1, <3>1, MinOfNats, Zenon DEF NextPage
    <3>. QED  BY <2>1, <3>2, <1>3, SMTT(30) DEF FreedPages, allocate_page
  <2>2. CASE FreedPages(file[f]) = {}
    <3>1. n = file[f].npages + 1 /\ g.npages = file[f].npages + 1
      BY <1>n, <2>2, Zenon DEF NextPage, allocate_page
    <3>. QED  BY <1>3, <3>1, SMTT(30)
  <2>. QED  BY <2>1, <2>2, Zenon
<1>6. g.slots = file[f].slots \cup {n} /\ g.data = [file[f].data EXCEPT ![n] = Zero]
  BY <1>n, Zenon DEF allocate_page
<1> HIDE DEF g
<1>7. BitsInFile'
  <2>1. g.slots \subseteq 1 .. g.npages
    BY <1>3, <1>5, <1>6, SMTT(30)
  <2>. QED  BY <1>0, <1>1, <2>1, Zenon DEF CohInv, Rest, BitsInFile
<1>8. p \in Page /\ p \notin Cached
  <2>1. p \in Page
    BY <1>1, Zenon DEF Page
  <2>. QED  BY <1>4, <2>1, CachedValid, Zenon DEF is_valid
<1>9. View(p) = NoPage /\ View(p)' = Zero
  <2>1. View(p) = NoPage
    BY <1>4, Zenon DEF View, is_valid
  <2>2. file'[f] = g /\ Cached' = Cached /\ g.data[n] = Zero
    BY <1>0, <1>1, <1>3, <1>6, Zenon DEF Cached, pool
  <2>3. is_valid(g, n)
    BY <1>5, <1>6, Zenon DEF is_valid
  <2>. QED  BY <2>1, <2>2, <2>3, <1>8, Zenon DEF View
<1>10. ASSUME NEW q \in Page, q # p
       PROVE  /\ file'[q[1]].data[q[2]] = file[q[1]].data[q[2]]
              /\ is_valid(file'[q[1]], q[2]) <=> is_valid(file[q[1]], q[2])
  <2>1. q[1] \in File /\ q[2] \in PageId /\ q = <<q[1], q[2]>>
    BY PagePair, Zenon
  <2>2. CASE q[1] = f
    <3>1. q[2] # n /\ file'[f] = g
      BY <1>0, <1>1, <1>10, <2>1, <2>2, Zenon
    <3>2. g.data[q[2]] = file[f].data[q[2]] /\ (q[2] \in g.slots <=> q[2] \in file[f].slots)
      BY <3>1, <2>1, <1>3, <1>6, Zenon
    <3>3. q[2] \in file[f].slots => q[2] \in 1 .. file[f].npages /\ q[2] \in 1 .. g.npages
      BY <1>3, <1>5, SMTT(30)
    <3>. QED  BY <3>1, <3>2, <3>3, <2>2, Zenon DEF is_valid
  <2>3. CASE q[1] # f
    BY <1>0, <1>1, <2>1, <2>3, Zenon
  <2>. QED  BY <2>2, <2>3, Zenon
<1>11. \A q \in Page : q # p => View(q)' = View(q)
  BY <1>0, <1>10, Zenon DEF View, Cached, pool
<1>12. CleanCoherent'
  <2>1. Cached' = Cached /\ DirtyPages' = DirtyPages /\ Cached \subseteq Page
    BY <1>0, Zenon DEF Cached, DirtyPages, pool, PoolInv, TypeOK
  <2>. QED  BY <1>0, <1>8, <1>10, <2>1, Zenon DEF CleanCoherent, pool, CohInv, Rest
<1>. QED  BY <1>2, <1>7, <1>8, <1>9, <1>11, <1>12, Zenon DEF Rest, Visible, Becomes, p

\* The ways to a page id.
LEMMA AskRest ==
    ASSUME SingleThread, CohInv, NEW u \in User,
           \/ \E p \in Page : ask(u, p)
           \/ \E f \in File : allocate(u, f) \/ last_valid_page(u, f)
    PROVE  Rest' /\ (Same \/ Visible)
<1>0. PoolInv
  BY Zenon DEF CohInv
<1>1. ASSUME NEW p, Running(u), Goto(u, "asked", p, 0), UNCHANGED <<file, pool, exc>>
      PROVE  Rest' /\ Same
  <2>1. OneBusy' /\ Holds'
    BY <1>0, <1>1, UserHolds, Zenon DEF Goto
  <2>. QED  BY <1>1, <2>1, PoolKept, Zenon DEF Rest
<1>2. ASSUME NEW p \in Page, ask(u, p) PROVE Rest' /\ Same
  BY <1>1, <1>2, Zenon DEF ask
<1>3. ASSUME NEW f \in File, allocate(u, f) PROVE Rest' /\ Visible
  BY <1>3, NewRest, Zenon DEF allocate
<1>4. ASSUME NEW f \in File, last_valid_page(u, f) PROVE Rest' /\ (Same \/ Visible)
  BY <1>1, <1>4, NewRest, Zenon DEF last_valid_page
<1>. QED  BY <1>2, <1>3, <1>4, Zenon

\* A write through the pointer reaches the page it is meant for and no other.
LEMMA WriteRest ==
    ASSUME SingleThread, CohInv, NEW u \in User, NEW v \in Values, write(u, v)
    PROVE  Rest' /\ Visible
<1>0. PoolInv /\ Running(u) /\ at[u] = "marked"
  BY Zenon DEF CohInv, write, SingleThread
<1>p. PICK p \in Cached : p = page[u]
  BY <1>0, Zenon DEF CohInv, Rest, Holds
<1>1. ptable[p].pos = pos[u] /\ ptable[p].dirty
  BY <1>0, <1>p, Zenon DEF CohInv, Rest, Holds
<1>2. buffer' = [buffer EXCEPT ![ptable[p].pos] = v] /\ UNCHANGED <<file, ptable>> /\ Cached' = Cached
  BY <1>1, Zenon DEF write, Cached
<1>3. OneBusy' /\ Holds'
  BY <1>0, UserHolds, Zenon DEF write, Release, Goto
<1>4. buffer'[ptable[p].pos] = v
  BY <1>0, <1>2, Zenon DEF PoolInv, TypeOK, Entry
<1>5. \A q \in Cached : q # p => buffer'[ptable[q].pos] = buffer[ptable[q].pos]
  BY <1>0, <1>2, Zenon DEF PoolInv, TypeOK, Entry, SlotsExclusive
<1>6. p \in Page /\ is_valid(file[p[1]], p[2]) /\ View(p) # NoPage
  BY CachedValid, Zenon
<1>7. View(p)' = v
  BY <1>2, <1>4, <1>6, Zenon DEF View
<1>8. \A q \in Page : q # p => View(q)' = View(q)
  BY <1>2, <1>5, Zenon DEF View
<1>9. CleanCoherent' /\ BitsInFile'
  BY <1>1, <1>2, <1>5, Zenon DEF CohInv, Rest, CleanCoherent, DirtyPages, Cached, BitsInFile
<1>. QED  BY <1>3, <1>6, <1>7, <1>8, <1>9, Zenon DEF Rest, Visible, Becomes

\* free_page takes the page of its caller away and no other.
LEMMA FreeRest ==
    ASSUME SingleThread, CohInv, NEW u \in User, free_cached_page(u)
    PROVE  Rest' /\ Visible
<1>0. PoolInv /\ Running(u) /\ at[u] = "loaded"
  BY Zenon DEF CohInv, free_cached_page
<1>p. PICK p \in Cached : p = page[u]
  BY <1>0, Zenon DEF CohInv, Rest, Holds
<1>1. p \in Page /\ is_valid(file[p[1]], p[2]) /\ View(p) # NoPage /\ p[1] \in File /\ p[2] \in PageId
  BY CachedValid, PagePair, Zenon
<1>2. /\ ptable' = Restrict(ptable, Cached \ {p})
      /\ file' = [file EXCEPT ![p[1]] = free_page(file[p[1]], p[2])]
      /\ buffer' = buffer
  BY <1>p, Zenon DEF free_cached_page
<1>3. Cached' = Cached \ {p} /\ \A q \in Cached \ {p} : ptable'[q] = ptable[q]
  BY <1>2, Zenon DEF Cached, Restrict
<1>4. OneBusy' /\ Holds'
  BY <1>0, UserHolds, Zenon DEF free_cached_page, Release, Goto
<1>5. file \in [File -> PFile] /\ file[p[1]] \in PFile
  BY <1>0, <1>1, Zenon DEF PoolInv, TypeOK
<1>6. \A f \in File : /\ file'[f].npages = file[f].npages /\ file'[f].data = file[f].data
                      /\ file'[f].slots = IF f = p[1] THEN file[f].slots \ {p[2]} ELSE file[f].slots
  BY <1>1, <1>2, <1>5, Zenon DEF free_page, PFile
<1>7. View(p)' = NoPage
  BY <1>1, <1>6, Zenon DEF View, is_valid
<1>8. ASSUME NEW q \in Page, q # p PROVE View(q)' = View(q)
  <2>1. q[1] \in File /\ (q[1] = p[1] => q[2] # p[2])
    BY <1>1, <1>8, PagePair, Zenon
  <2>2. is_valid(file'[q[1]], q[2]) <=> is_valid(file[q[1]], q[2])
    BY <1>6, <2>1, Zenon DEF is_valid
  <2>3. file'[q[1]].data[q[2]] = file[q[1]].data[q[2]]
    BY <1>6, <2>1, Zenon
  <2>. QED  BY <1>2, <1>3, <1>8, <2>2, <2>3, Zenon DEF View
<1>9. BitsInFile'
  BY <1>6, Zenon DEF CohInv, Rest, BitsInFile
<1>10. CleanCoherent'
  <2>1. \A q \in Cached' : q \in Cached /\ ptable'[q] = ptable[q] /\ q[1] \in File
    BY <1>0, <1>3, PagePair, Zenon DEF PoolInv, TypeOK
  <2>2. \A q \in Cached : ~ ptable[q].dirty => buffer[ptable[q].pos] = file[q[1]].data[q[2]]
    BY Zenon DEF CohInv, Rest, CleanCoherent, DirtyPages
  <2>3. \A q \in Cached' : ~ ptable'[q].dirty => buffer'[ptable'[q].pos] = file'[q[1]].data[q[2]]
    BY <1>2, <1>6, <2>1, <2>2, Zenon
  <2>. QED  BY <2>3, Zenon DEF CleanCoherent, DirtyPages
<1>. QED  BY <1>1, <1>4, <1>7, <1>8, <1>9, <1>10, Zenon DEF Rest, Visible, Becomes

\* Flushing writes back what the pages hold.
LEMMA FlushRest ==
    ASSUME SingleThread, CohInv, NEW STATE S, Flush(S)
    PROVE  Rest' /\ Same
<1> DEFINE D == S \cap DirtyPages
<1>0. PoolInv /\ TypeOK /\ D \subseteq Cached /\ Cached \subseteq Page
  BY Zenon DEF CohInv, PoolInv, TypeOK, DirtyPages
<1>1. file' = WriteBack(D) /\ ptable' = Clean(D) /\ UNCHANGED <<buffer, at>>
  BY Zenon DEF Flush
<1> HIDE DEF D
<1>2. OneBusy' /\ Holds'
  <2>1. \A w \in User : at[w] \notin Busy
    BY NoneBusy, Zenon DEF Flush
  <2>. QED  BY <1>1, <2>1, Zenon DEF OneBusy, Holds, Busy
<1>3. \A f \in File : file'[f].npages = file[f].npages /\ file'[f].slots = file[f].slots
  BY <1>0, <1>1, WriteBackFacts, Zenon
<1>4. \A p \in Page : file'[p[1]].data[p[2]] =
                        IF p \in D THEN buffer[ptable[p].pos] ELSE file[p[1]].data[p[2]]
  BY <1>0, <1>1, WriteBackData, Zenon
<1>5. ptable \in [Cached -> Entry]
  BY <1>0, Zenon DEF TypeOK
<1>6. /\ DOMAIN ptable' = Cached
      /\ \A p \in Cached : /\ ptable'[p].pos = ptable[p].pos
                           /\ p \notin D => ptable'[p].dirty = ptable[p].dirty
  BY <1>1, <1>5, Zenon DEF Clean, Entry
<1>7. \A p \in Page : Look(ptable', file', buffer', p) = View(p)
  <2>1. \A p \in Page : is_valid(file'[p[1]], p[2]) <=> is_valid(file[p[1]], p[2])
    BY <1>3, PagePair, Zenon DEF is_valid
  <2>. QED  BY <1>0, <1>1, <1>4, <1>6, <2>1, Zenon DEF Look, View
<1>8. Coherent(ptable', file', buffer')
  <2>1. \A p \in Cached : p \notin D /\ ~ ptable[p].dirty => buffer[ptable[p].pos] = file[p[1]].data[p[2]]
    BY Zenon DEF CohInv, Rest, CleanCoherent, DirtyPages
  <2> SUFFICES ASSUME NEW p \in Cached, ~ ptable'[p].dirty
               PROVE  buffer[ptable[p].pos] = file'[p[1]].data[p[2]]
    BY <1>1, <1>6, Zenon DEF Coherent
  <2>. QED  BY <1>0, <1>4, <1>6, <2>1, Zenon
<1>9. BitsInFile'
  BY <1>3, Zenon DEF CohInv, Rest, BitsInFile
<1>. QED  BY <1>2, <1>7, <1>8, <1>9, SameStep, Zenon DEF Rest

\* scan_file reads into a slot no page uses.
LEMMA ScanRest ==
    ASSUME SingleThread, CohInv, NEW f \in File, scan_file(f)
    PROVE  Rest' /\ Same
<1> DEFINE r == IF free # {} THEN [ptable |-> ptable, lru |-> lru, free |-> free, file |-> file]
                ELSE Evict(Victim)
           s == Min(r.free)
<1>0. PoolInv /\ CleanCoherent /\ BitsInFile
  BY Zenon DEF CohInv, Rest
<1>1. RoomOK(r) /\ RoomSame(r)
  <2>1. CASE free # {}
    BY <1>0, <2>1, KeepOK, KeepSame, Zenon
  <2>2. CASE free = {}
    <3>1. Victim \in Cached
      BY <1>0, <2>2, VictimCached, Zenon DEF scan_file
    <3>. QED  BY <1>0, <2>2, <3>1, EvictOK, EvictSame, Zenon
  <2>. QED  BY <2>1, <2>2, Zenon
<1>2. /\ ptable' = r.ptable /\ file' = r.file
      /\ \/ buffer' = buffer
         \/ buffer' = [buffer EXCEPT ![s] = r.file[f].data[r.file[f].npages]]
      /\ at' = at
      /\ \A u \in User : at[u] = "idle"
  BY Zenon DEF scan_file
<1> HIDE DEF r
<1>3. s \in r.free
  BY <1>1, MinOfNats, PoolAssumption, SMTT(30) DEF RoomOK, Slot
<1> HIDE DEF s
<1>4. /\ \A p \in Page : Look(r.ptable, r.file, buffer', p) = View(p)
      /\ Coherent(r.ptable, r.file, buffer')
  <2>1. CASE buffer' = buffer
    BY <1>1, <2>1, Zenon DEF RoomSame
  <2>2. CASE buffer' = [buffer EXCEPT ![s] = r.file[f].data[r.file[f].npages]]
    BY <1>0, <1>1, <1>3, <2>2, FreeSlot, Zenon DEF PoolInv
  <2>. QED  BY <1>2, <2>1, <2>2, Zenon
<1>5. Same /\ CleanCoherent'
  BY <1>2, <1>4, SameStep, Zenon
<1>6. BitsInFile'
  BY <1>0, <1>1, <1>2, RoomBits, Zenon
<1>7. OneBusy' /\ Holds'
  BY <1>2, Zenon DEF OneBusy, Holds, Busy
<1>. QED  BY <1>5, <1>6, <1>7, Zenon DEF Rest

\* close leaves in the files what the clients saw.
LEMMA CloseRest ==
    ASSUME SingleThread, CohInv, close
    PROVE  Rest' /\ Same
<1> DEFINE D == DirtyPages
<1>0. PoolInv /\ TypeOK /\ D \subseteq Cached /\ Cached \subseteq Page
  BY Zenon DEF CohInv, PoolInv, TypeOK, DirtyPages
<1>1. file' = WriteBack(D) /\ DOMAIN ptable' = {} /\ at' = [u \in User |-> "closed"]
  BY Zenon DEF close, NoPages
<1>2. OneBusy' /\ Holds'
  BY <1>1, Zenon DEF OneBusy, Holds, Busy
<1>3. \A f \in File : file'[f].npages = file[f].npages /\ file'[f].slots = file[f].slots
  BY <1>0, <1>1, WriteBackFacts, Zenon
<1>4. \A p \in Page : file'[p[1]].data[p[2]] =
                        IF p \in D THEN buffer[ptable[p].pos] ELSE file[p[1]].data[p[2]]
  BY <1>0, <1>1, WriteBackData, Zenon
<1>5. \A p \in Cached : p \notin D => buffer[ptable[p].pos] = file[p[1]].data[p[2]]
  BY Zenon DEF CohInv, Rest, CleanCoherent
<1> HIDE DEF D
<1>6. \A p \in Page : is_valid(file'[p[1]], p[2]) <=> is_valid(file[p[1]], p[2])
  BY <1>3, PagePair, Zenon DEF is_valid
<1>7. \A p \in Page : Look(ptable', file', buffer', p) = View(p)
  BY <1>0, <1>1, <1>4, <1>5, <1>6, Zenon DEF Look, View
<1>8. Coherent(ptable', file', buffer')
  BY <1>1, Zenon DEF Coherent
<1>9. BitsInFile'
  BY <1>3, Zenon DEF CohInv, Rest, BitsInFile
<1>. QED  BY <1>2, <1>7, <1>8, <1>9, SameStep, Zenon DEF Rest

-----------------------------------------------------------------------------
\* Every step keeps the invariant and is a step or a stutter of the page store.
LEMMA PoolStep ==
    ASSUME SingleThread, CohInv, [Next]_vars
    PROVE  Rest' /\ (Same \/ Visible)
<1>1. ASSUME NEW u \in User, UserStep(u) PROVE Rest' /\ (Same \/ Visible)
  BY <1>1, AskRest, FetchRest, PointerRest, WriteRest, FreeRest, Zenon DEF UserStep
<1>2. CASE flush_all
  BY <1>2, FlushRest, Zenon DEF flush_all
<1>3. ASSUME NEW f \in File, flush_pages(f) PROVE Rest' /\ Same
  BY <1>3, FlushRest, Zenon DEF flush_pages
<1>4. ASSUME NEW p \in Page, flush_page(p) PROVE Rest' /\ Same
  BY <1>4, FlushRest, Zenon DEF flush_page
<1>5. ASSUME NEW f \in File, scan_file(f) PROVE Rest' /\ Same
  BY <1>5, ScanRest, Zenon
<1>6. CASE close
  BY <1>6, CloseRest, Zenon
<1>7. CASE UNCHANGED vars
  <2>1. Same /\ CleanCoherent' /\ BitsInFile'
    BY <1>7, PoolKept, Zenon DEF vars
  <2>2. OneBusy' /\ Holds'
    BY <1>7, Zenon DEF vars, pool, CohInv, Rest, OneBusy, Holds, Cached
  <2>. QED  BY <2>1, <2>2, Zenon DEF Rest
<1>. QED  BY <1>1, <1>2, <1>3, <1>4, <1>5, <1>6, <1>7, Zenon DEF Next

\* Opening the pool: no page is there for its clients.
LEMMA PoolStart ==
    ASSUME Init
    PROVE  Rest /\ \A p \in Page : View(p) = NoPage
<1>1. Cached = {} /\ \A f \in File : file[f].slots = {} /\ file[f].npages = 0
  BY Zenon DEF Init, Cached, NoPages, NewFile
<1>2. OneBusy /\ Holds
  BY Zenon DEF Init, OneBusy, Holds, Busy
<1>3. CleanCoherent /\ BitsInFile
  BY <1>1, Zenon DEF CleanCoherent, BitsInFile
<1>4. \A p \in Page : View(p) = NoPage
  BY <1>1, PagePair, Zenon DEF View, is_valid
<1>. QED  BY <1>2, <1>3, <1>4, Zenon DEF Rest

\* The pages evict_page and flush_all skip are the ones the file already has,
\* when one thread uses the pool and every writer calls mark_dirty.
THEOREM CoherenceTheorem ==
    ASSUME SingleThread
    PROVE  Spec => []CleanCoherent
<1>1. Init => Rest
  BY PoolStart, Zenon
<1>2. PoolInv /\ Rest /\ [Next]_vars => Rest'
  BY PoolStep, Zenon DEF CohInv
<1>3. Spec => []PoolInv
  BY PoolInvariant, Zenon
<1>4. Rest => CleanCoherent
  BY Zenon DEF Rest
<1>. QED  BY <1>1, <1>2, <1>3, <1>4, PTL DEF Spec

\* Under the same assumption the pool is the page store of its clients: no
\* eviction, flush, reload or scan loses a write or makes one up.
THEOREM PageStoreTheorem ==
    ASSUME SingleThread
    PROVE  Spec => ImplementsPageStore
<1> DEFINE c == [p \in Page |-> View(p)]
<1>1. Init => Rest /\ Store!Init
  <2> SUFFICES ASSUME Init PROVE Rest /\ Store!Init
    BY Zenon
  <2>1. Rest /\ \A p \in Page : View(p) = NoPage
    BY PoolStart, Zenon
  <2>. QED  BY <2>1, Zenon DEF Store!Init
<1>2. PoolInv /\ Rest /\ [Next]_vars => Rest' /\ [Store!Next]_c
  <2> SUFFICES ASSUME PoolInv, Rest, [Next]_vars PROVE Rest' /\ [Store!Next]_c
    BY Zenon
  <2>1. Rest' /\ (Same \/ Visible)
    BY PoolStep, Zenon DEF CohInv
  <2>2. CASE Same
    BY <2>1, <2>2, Zenon DEF Same
  <2>3. CASE Visible
    <3>1. PICK p \in Page : \/ View(p) = NoPage /\ Becomes(p, Zero)
                            \/ View(p) # NoPage /\ Becomes(p, NoPage)
                            \/ View(p) # NoPage /\ \E v \in Values : Becomes(p, v)
      BY <2>3, Zenon DEF Visible
    <3>2. ASSUME NEW x, Becomes(p, x) PROVE c' = [c EXCEPT ![p] = x]
      BY <3>2, Zenon DEF Becomes
    <3>3. c[p] = View(p)
      BY Zenon
    <3>4. CASE View(p) = NoPage /\ Becomes(p, Zero)
      <4>1. Store!Allocate(p)
        BY <3>2, <3>3, <3>4, Zenon DEF Store!Allocate
      <4>. QED  BY <2>1, <4>1, Zenon DEF Store!Next
    <3>5. CASE View(p) # NoPage /\ Becomes(p, NoPage)
      <4>1. Store!Free(p)
        BY <3>2, <3>3, <3>5, Zenon DEF Store!Free
      <4>. QED  BY <2>1, <4>1, Zenon DEF Store!Next
    <3>6. CASE View(p) # NoPage /\ \E v \in Values : Becomes(p, v)
      <4>1. PICK v \in Values : Becomes(p, v)
        BY <3>6, Zenon
      <4>2. Store!Write(p, v)
        BY <3>2, <3>3, <3>6, <4>1, Zenon DEF Store!Write
      <4>. QED  BY <2>1, <4>2, Zenon DEF Store!Next
    <3>. QED  BY <3>1, <3>4, <3>5, <3>6, Zenon
  <2>. QED  BY <2>1, <2>2, <2>3, Zenon
<1>3. Spec => []PoolInv
  BY PoolInvariant, Zenon
<1>. QED  BY <1>1, <1>2, <1>3, PTL DEF Spec, ImplementsPageStore, Store!Spec

-----------------------------------------------------------------------------
\* pinned_ is a flag and not a count: one iterator at a time.
OneIterator == \A u, w \in Iterator : u = w

PinInv ==
    \A u \in User : at[u] = "pinned" =>
       /\ u \in Iterator
       /\ page[u] \in Cached
       /\ ptable[page[u]].pos = pos[u]
       /\ ptable[page[u]].pinned
       /\ page[u][1] \notin IndexFile

\* A step after which the pages of the iterators are where they were.
LEMMA PinsKept ==
    ASSUME PinInv,
           \A w \in User : at'[w] = "pinned" => at[w] = "pinned" /\ page'[w] = page[w] /\ pos'[w] = pos[w],
           \A w \in User : at[w] = "pinned" => /\ page[w] \in Cached'
                                             /\ ptable'[page[w]].pos = ptable[page[w]].pos
                                             /\ ptable'[page[w]].pinned
    PROVE  PinInv'
<1> SUFFICES ASSUME NEW w \in User, at'[w] = "pinned"
             PROVE  /\ w \in Iterator
                    /\ page'[w] \in Cached'
                    /\ ptable'[page'[w]].pos = pos'[w]
                    /\ ptable'[page'[w]].pinned
                    /\ page'[w][1] \notin IndexFile
  BY Zenon DEF PinInv
<1>1. at[w] = "pinned" /\ page'[w] = page[w] /\ pos'[w] = pos[w]
  BY Zenon
<1>. QED  BY <1>1, Zenon DEF PinInv

\* The step of a user that does not pin.
LEMMA OthersPinned ==
    ASSUME PoolInv, NEW u \in User, NEW STATE a, NEW STATE p, NEW STATE s, Goto(u, a, p, s), a # "pinned"
    PROVE  \A w \in User : at'[w] = "pinned" => at[w] = "pinned" /\ page'[w] = page[w] /\ pos'[w] = pos[w]
<1>1. at' = [at EXCEPT ![u] = a] /\ page' = [page EXCEPT ![u] = p] /\ pos' = [pos EXCEPT ![u] = s]
  BY Zenon DEF Goto
<1>2. at'[u] = a
  BY <1>1, Zenon DEF PoolInv, TypeOK
<1>3. \A w \in User : w # u => at'[w] = at[w] /\ page'[w] = page[w] /\ pos'[w] = pos[w]
  BY <1>1, Zenon DEF PoolInv, TypeOK
<1>. QED  BY <1>2, <1>3, Zenon

\* evict_page passes the pinned pages over.
LEMMA RoomPins ==
    ASSUME PoolInv, ~ NoRoom, NEW p \in Cached, ptable[p].pinned
    PROVE  p \in DOMAIN Room.ptable /\ Room.ptable[p] = ptable[p]
<1>1. CASE Len(lru) = PoolSize
  <2>1. Evictable # {} /\ Evictable \subseteq Nat
    BY <1>1, SMTT(30) DEF NoRoom, Evictable, PoolInv, TypeOK
  <2>2. ~ ptable[Victim].pinned
    BY <2>1, MinOfNats, Zenon DEF Victim, Evictable
  <2>3. Room.ptable = Restrict(ptable, Cached \ {Victim})
    BY <1>1, Zenon DEF Room, Evict
  <2>. QED  BY <2>2, <2>3, Zenon DEF Restrict
<1>2. CASE Len(lru) # PoolSize
  BY <1>2, Zenon DEF Room, Cached
<1>. QED  BY <1>1, <1>2, Zenon

\* fetch_page leaves the pinned pages in their slots.
LEMMA FetchPins ==
    ASSUME PoolInv, PinInv, NEW u \in User, fetch_page(u)
    PROVE  PinInv'
<1>1. \A w \in User : at'[w] = "pinned" => at[w] = "pinned" /\ page'[w] = page[w] /\ pos'[w] = pos[w]
  <2>1. CASE Hit(u, page[u])
    BY <2>1, OthersPinned, Zenon DEF Hit
  <2>2. CASE Miss(u, page[u])
    BY <2>2, OthersPinned, Zenon DEF Miss
  <2>3. CASE Overrun(u, page[u]) \/ BadPage(u, page[u])
    BY <2>3, OthersPinned, Zenon DEF Overrun, BadPage, Release
  <2>. QED  BY <2>1, <2>2, <2>3, Zenon DEF fetch_page
<1>2. \A w \in User : at[w] = "pinned" => page[w] \in Cached /\ ptable[page[w]].pinned
  BY Zenon DEF PinInv
<1>3. \A q \in Cached : ptable[q].pinned =>
         q \in Cached' /\ ptable'[q].pos = ptable[q].pos /\ ptable'[q].pinned
  <2> SUFFICES ASSUME NEW q \in Cached, ptable[q].pinned
               PROVE  q \in Cached' /\ ptable'[q] = ptable[q]
    BY Zenon
  <2>1. CASE Hit(u, page[u]) \/ Overrun(u, page[u])
    BY <2>1, Zenon DEF Hit, Overrun, pool, Cached
  <2>2. CASE BadPage(u, page[u])
    BY <2>2, RoomPins, Zenon DEF BadPage, Cached
  <2>3. CASE Miss(u, page[u])
    <3>1. q \in DOMAIN Room.ptable /\ Room.ptable[q] = ptable[q] /\ page[u] # q
      BY <2>3, RoomPins, Zenon DEF Miss
    <3>2. DOMAIN ptable' = (DOMAIN Room.ptable) \cup {page[u]}
      BY <2>3, Zenon DEF Miss
    <3>3. \A x \in DOMAIN Room.ptable : x # page[u] => ptable'[x] = Room.ptable[x]
      BY <2>3, Zenon DEF Miss
    <3>. QED  BY <3>1, <3>2, <3>3, Zenon DEF Cached
  <2>. QED  BY <2>1, <2>2, <2>3, Zenon DEF fetch_page
<1>. QED  BY <1>1, <1>2, <1>3, PinsKept, Zenon

\* Every step of the program with one iterator leaves its page where it is.
LEMMA PinStep ==
    ASSUME SingleThread, OneIterator, CohInv, PinInv, [Next]_vars
    PROVE  PinInv'
<1>0. PoolInv /\ ptable \in [Cached -> Entry]
  BY Zenon DEF CohInv, PoolInv, TypeOK
<1>1. ASSUME NEW u \in User, NEW STATE a, NEW STATE p, NEW STATE s,
             Goto(u, a, p, s), a # "pinned", ptable' = ptable
      PROVE  PinInv'
  BY <1>0, <1>1, OthersPinned, PinsKept, Zenon DEF PinInv, Cached
<1>2. ASSUME NEW u \in User, UserStep(u) PROVE PinInv'
  <2>1. ASSUME NEW p \in Page, ask(u, p) PROVE PinInv'
    BY <1>1, <2>1, Zenon DEF ask, pool
  <2>2. ASSUME NEW f \in File, AskNew(u, f) PROVE PinInv'
    BY <1>1, <2>2, Zenon DEF AskNew, pool
  <2>3. ASSUME NEW f \in File, allocate(u, f) PROVE PinInv'
    BY <2>2, <2>3, Zenon DEF allocate
  <2>4. ASSUME NEW f \in File, last_valid_page(u, f) PROVE PinInv'
    BY <1>1, <2>2, <2>4, Zenon DEF last_valid_page, pool
  <2>5. CASE fetch_page(u)
    BY <1>0, <2>5, FetchPins, Zenon
  <2>6. CASE mark_dirty(u)
    <3>1. \A q \in Cached : q \in Cached' /\ ptable'[q].pos = ptable[q].pos /\ ptable'[q].pinned = ptable[q].pinned
      BY <1>0, <2>6, Zenon DEF mark_dirty, Cached, Entry
    <3>2. \A w \in User : at'[w] = "pinned" => at[w] = "pinned" /\ page'[w] = page[w] /\ pos'[w] = pos[w]
      BY <1>0, <2>6, Zenon DEF mark_dirty, PoolInv, TypeOK
    <3>. QED  BY <3>1, <3>2, PinsKept, Zenon DEF PinInv
  <2>7. ASSUME NEW v \in Values, write(u, v) PROVE PinInv'
    BY <1>1, <2>7, Zenon DEF write, Release
  <2>8. CASE read(u)
    BY <1>1, <2>8, Zenon DEF read, Release, pool
  <2>9. CASE pin_page(u)
    <3>1. page[u] \in Cached /\ ptable[page[u]].pos = pos[u] /\ u \in Iterator /\ page[u][1] \notin IndexFile
      BY <2>9, Zenon DEF pin_page, CohInv, Rest, Holds
    <3>2. page[u] \in Cached' /\ ptable'[page[u]].pos = pos[u] /\ ptable'[page[u]].pinned
      BY <1>0, <2>9, <3>1, Zenon DEF pin_page, Cached, Entry
    <3>3. \A w \in User : w # u => at'[w] = at[w]
      BY <1>0, <2>9, Zenon DEF pin_page, PoolInv, TypeOK
    <3>4. \A w \in User : at'[w] = "pinned" => w = u
      BY <3>1, <3>3, Zenon DEF PinInv, OneIterator
    <3>5. page' = page /\ pos' = pos
      BY <2>9, Zenon DEF pin_page
    <3>. QED  BY <3>1, <3>2, <3>4, <3>5, Zenon DEF PinInv
  <2>10. CASE unpin_page(u)
    <3>1. u \in Iterator /\ at'[u] = "idle"
      BY <1>0, <2>10, Zenon DEF unpin_page, PinInv, Release, Goto, PoolInv, TypeOK
    <3>2. \A w \in User : w # u => at'[w] = at[w]
      BY <1>0, <2>10, Zenon DEF unpin_page, Release, Goto, PoolInv, TypeOK
    <3>3. \A w \in User : at'[w] # "pinned"
      BY <3>1, <3>2, Zenon DEF PinInv, OneIterator
    <3>. QED  BY <3>3, Zenon DEF PinInv
  <2>11. CASE free_cached_page(u)
    <3>1. page[u][1] \in IndexFile /\ page[u] \in Cached /\ ptable' = Restrict(ptable, Cached \ {page[u]})
      BY <2>11, Zenon DEF free_cached_page, CohInv, Rest, Holds
    <3>2. \A q \in Cached : q # page[u] => q \in Cached' /\ ptable'[q] = ptable[q]
      BY <3>1, Zenon DEF Cached, Restrict
    <3>3. \A w \in User : at[w] = "pinned" => page[w] # page[u] /\ page[w] \in Cached /\ ptable[page[w]].pinned
      BY <3>1, Zenon DEF PinInv
    <3>4. \A w \in User : at'[w] = "pinned" => at[w] = "pinned" /\ page'[w] = page[w] /\ pos'[w] = pos[w]
      BY <1>0, <2>11, OthersPinned, Zenon DEF free_cached_page, Release
    <3>. QED  BY <3>2, <3>3, <3>4, PinsKept, Zenon
  <2>. QED  BY <1>2, <2>1, <2>3, <2>4, <2>5, <2>6, <2>7, <2>8, <2>9, <2>10, <2>11, Zenon DEF UserStep
<1>3. ASSUME NEW STATE S, Flush(S) PROVE PinInv'
  <2>1. UNCHANGED <<at, page, pos>> /\ ptable' = Clean(S \cap DirtyPages)
    BY <1>3, Zenon DEF Flush
  <2>2. \A q \in Cached : q \in Cached' /\ ptable'[q].pos = ptable[q].pos /\ ptable'[q].pinned = ptable[q].pinned
    BY <1>0, <2>1, Zenon DEF Clean, Cached, Entry
  <2>. QED  BY <2>1, <2>2, PinsKept, Zenon DEF PinInv
<1>4. ASSUME NEW f \in File, scan_file(f) PROVE PinInv'
  BY <1>4, Zenon DEF scan_file, PinInv
<1>5. CASE close
  BY <1>5, Zenon DEF close, PinInv
<1>6. CASE UNCHANGED vars
  BY <1>6, Zenon DEF vars, pool, PinInv, Cached
<1>. QED
  BY <1>2, <1>3, <1>4, <1>5, <1>6, Zenon DEF Next, flush_all, flush_pages, flush_page

\* The pointer of an iterator stays good while it has its page pinned, when
\* one thread uses the pool and iterators do not share pages.
THEOREM PinTheorem ==
    ASSUME SingleThread, OneIterator
    PROVE  Spec => []PinnedStays
<1>1. Init => Rest /\ PinInv
  BY PoolStart, Zenon DEF Init, PinInv
<1>2. PoolInv /\ Rest /\ PinInv /\ [Next]_vars => Rest' /\ PinInv'
  BY PoolStep, PinStep, Zenon DEF CohInv
<1>3. Spec => []PoolInv
  BY PoolInvariant, Zenon
<1>4. PinInv => PinnedStays
  BY Zenon DEF PinInv, PinnedStays
<1>. QED  BY <1>1, <1>2, <1>3, <1>4, PTL DEF Spec
=============================================================================
