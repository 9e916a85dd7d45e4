-------------------------- MODULE BufferPoolProofs --------------------------
EXTENDS BufferPool, Minima, SequenceTheorems, TLAPS

\* What RemoveAt does to a sequence: its length and its elements.
LEMMA RemoveAtFacts ==
    ASSUME NEW S, NEW l \in Seq(S), NEW i \in 1 .. Len(l)
    PROVE  /\ RemoveAt(l, i) \in Seq(S)
           /\ Len(RemoveAt(l, i)) = Len(l) - 1
           /\ \A j \in 1 .. Len(l) - 1 :
                 RemoveAt(l, i)[j] = IF j < i THEN l[j] ELSE l[j + 1]
<1> DEFINE a == SubSeq(l, 1, i - 1)
           b == SubSeq(l, i + 1, Len(l))
<1>0. Len(l) \in Nat /\ i \in Nat /\ 1 <= i /\ i <= Len(l)
  BY SMTT(30)
<1>1. a \in Seq(S) /\ Len(a) = i - 1 /\ \A j \in 1 .. i - 1 : a[j] = l[j]
  BY SMTT(30)
<1>2. b \in Seq(S) /\ Len(b) = Len(l) - i /\ \A j \in 1 .. Len(l) - i : b[j] = l[i + j]
  BY SMTT(30)
<1>3. RemoveAt(l, i) = a \o b
  BY Zenon DEF RemoveAt
<1> HIDE DEF a, b
<1>4. /\ a \o b \in Seq(S)
      /\ Len(a \o b) = Len(a) + Len(b)
      /\ \A j \in 1 .. Len(a) + Len(b) :
            (a \o b)[j] = IF j <= Len(a) THEN a[j] ELSE b[j - Len(a)]
  BY <1>1, <1>2, ConcatProperties, Zenon
<1>5. Len(a) + Len(b) = Len(l) - 1
  BY <1>0, <1>1, <1>2, SMTT(30)
<1>6. ASSUME NEW j \in 1 .. Len(l) - 1
      PROVE  (a \o b)[j] = IF j < i THEN l[j] ELSE l[j + 1]
  <2>1. CASE j < i
    BY <1>0, <1>1, <1>4, <1>5, <2>1, SMTT(30)
  <2>2. CASE ~ (j < i)
    <3>1. (a \o b)[j] = b[j - (i - 1)]
      BY <1>0, <1>1, <1>4, <1>5, <2>2, SMTT(30)
    <3>2. j - (i - 1) \in 1 .. Len(l) - i /\ i + (j - (i - 1)) = j + 1
      BY <1>0, <2>2, SMTT(30)
    <3>3. QED
      BY <1>0, <1>2, <2>2, <3>1, <3>2, Zenon
  <2>3. QED
    BY <1>0, <2>1, <2>2, Zenon
<1>7. QED
  BY <1>3, <1>4, <1>5, <1>6, Zenon

\* lru_list::remove takes one page out of the list and keeps the others, each once.
LEMMA UnlinkFacts ==
    ASSUME NEW S, NEW l \in Seq(S), IsInjective(l), NEW p \in ToSet(l)
    PROVE  /\ Unlink(l, p) \in Seq(S)
           /\ IsInjective(Unlink(l, p))
           /\ ToSet(Unlink(l, p)) = ToSet(l) \ {p}
<1> DEFINE i == CHOOSE j \in DOMAIN l : l[j] = p
           r == Unlink(l, p)
<1>0. r = RemoveAt(l, i)
  BY Zenon DEF Unlink
<1>1. i \in 1 .. Len(l) /\ l[i] = p
  BY SMTT(30) DEF ToSet
<1> HIDE DEF i
<1>2. /\ r \in Seq(S)
      /\ Len(r) = Len(l) - 1
      /\ \A j \in 1 .. Len(l) - 1 : r[j] = IF j < i THEN l[j] ELSE l[j + 1]
  BY <1>0, <1>1, RemoveAtFacts, Zenon
<1> HIDE DEF r
<1>3. \A j, k \in 1 .. Len(l) : l[j] = l[k] => j = k
  BY SMTT(30) DEF IsInjective
<1>4. ToSet(l) = {l[j] : j \in 1 .. Len(l)} /\ ToSet(r) = {r[j] : j \in 1 .. Len(r)}
  <2>1. DOMAIN l = 1 .. Len(l) /\ DOMAIN r = 1 .. Len(r)
    BY <1>2, SMTT(30)
  <2>2. QED
    BY ONLY <2>1, Zenon DEF ToSet
<1>5. \A j, k \in 1 .. Len(r) : r[j] = r[k] => j = k
  <2> SUFFICES ASSUME NEW j \in 1 .. Len(r), NEW k \in 1 .. Len(r), r[j] = r[k] PROVE j = k
    BY Zenon
  <2> DEFINE old(n) == IF n < i THEN n ELSE n + 1
  <2>1. Len(l) \in Nat /\ j \in 1 .. Len(l) - 1 /\ k \in 1 .. Len(l) - 1
    BY <1>2, SMTT(30)
  <2>2. old(j) \in 1 .. Len(l) /\ old(k) \in 1 .. Len(l)
    BY <2>1, <1>1, SMTT(30)
  <2>3. r[j] = l[old(j)] /\ r[k] = l[old(k)]
    BY <2>1, <1>2, Zenon
  <2>4. old(j) = old(k)
    BY <2>2, <2>3, <1>3, Zenon
  <2>5. QED
    BY <2>1, <2>4, <1>1, SMTT(30)
<1>6. \A j \in 1 .. Len(r) : r[j] # p /\ r[j] \in ToSet(l)
  BY <1>1, <1>2, <1>3, <1>4, SMTT(30)
<1>7. ASSUME NEW q \in ToSet(l) \ {p} PROVE q \in ToSet(r)
  <2>1. PICK k \in 1 .. Len(l) : l[k] = q
    BY <1>4, Zenon
  <2>2. k # i
    BY <2>1, <1>1, Zenon
  <2>3. CASE k < i
    <3>1. k \in 1 .. Len(r)
      BY <2>3, <1>1, <1>2, SMTT(30)
    <3>2. r[k] = q
      BY <3>1, <2>1, <2>3, <1>2, Zenon
    <3>3. QED
      BY <3>1, <3>2, <1>4, Zenon
  <2>4. CASE k > i
    <3>1. k - 1 \in 1 .. Len(r) /\ r[k - 1] = q
      BY <2>1, <2>4, <1>1, <1>2, SMTT(30)
    <3>2. QED
      BY <3>1, <1>4, Zenon
  <2>5. QED
    BY <2>2, <2>3, <2>4, <1>1, SMTT(30)
<1>8. IsInjective(r)
  BY <1>2, <1>5, SMTT(30) DEF IsInjective
<1>9. ToSet(r) = ToSet(l) \ {p}
  <2>1. \A q \in ToSet(r) : q \in ToSet(l) \ {p}
    BY <1>4, <1>6, Zenon
  <2>2. QED
    BY <1>7, <2>1, Zenon
<1>10. QED
  BY <1>2, <1>8, <1>9, Zenon DEF r

\* lru_list::add_to_mru adds a page that was not in the list.
LEMMA AppendFacts ==
    ASSUME NEW S, NEW l \in Seq(S), IsInjective(l), NEW p \in S, p \notin ToSet(l)
    PROVE  /\ Append(l, p) \in Seq(S)
           /\ IsInjective(Append(l, p))
           /\ ToSet(Append(l, p)) = ToSet(l) \cup {p}
  BY SMTT(30) DEF ToSet, IsInjective

-----------------------------------------------------------------------------
\* Writing pages back changes payloads only.
LEMMA WriteBackFacts ==
    ASSUME TypeOK, NEW S, S \subseteq Cached
    PROVE  /\ WriteBack(S) \in [File -> PFile]
           /\ \A f \in File : /\ WriteBack(S)[f].npages = file[f].npages
                              /\ WriteBack(S)[f].slots = file[f].slots
<1> DEFINE d(f) == [i \in PageId |-> IF <<f, i>> \in S THEN buffer[ptable[<<f, i>>].pos]
                                     ELSE file[f].data[i]]
<1>1. ASSUME NEW f \in File
      PROVE  /\ WriteBack(S)[f] = [file[f] EXCEPT !.data = d(f)]
             /\ file[f] \in PFile
             /\ d(f) \in [PageId -> Payload]
  <2>1. file[f] \in PFile
    BY Zenon DEF TypeOK
  <2>2. WriteBack(S)[f] = [file[f] EXCEPT !.data = d(f)]
    BY <2>1, Zenon DEF WriteBack, PFile
  <2>3. ASSUME NEW i \in PageId
        PROVE  (IF <<f, i>> \in S THEN buffer[ptable[<<f, i>>].pos] ELSE file[f].data[i]) \in Payload
    BY <2>1, Zenon DEF TypeOK, PFile, Entry
  <2>4. QED
    BY <2>1, <2>2, <2>3, Zenon
<1>2. WriteBack(S) = [f \in File |-> WriteBack(S)[f]]
  BY Zenon DEF WriteBack
<1> HIDE DEF d
<1>3. QED
  BY <1>1, <1>2, Zenon DEF PFile

\* What an eviction leaves behind.
LEMMA EvictFacts ==
    ASSUME PoolInv, NEW v \in Cached
    PROVE  /\ Evict(v).ptable = Restrict(ptable, Cached \ {v})
           /\ Evict(v).lru \in Seq(Page)
           /\ IsInjective(Evict(v).lru)
           /\ ToSet(Evict(v).lru) = Cached \ {v}
           /\ Evict(v).free = free \cup {ptable[v].pos}
           /\ ptable[v].pos \in Slot
           /\ Evict(v).file \in [File -> PFile]
           /\ \A f \in File : /\ Evict(v).file[f].npages = file[f].npages
                              /\ Evict(v).file[f].slots = file[f].slots
<1>1. Evict(v).lru = Unlink(lru, v)
  BY Zenon DEF Evict
<1>2. Evict(v).file = WriteBack({v} \cap DirtyPages)
  BY Zenon DEF Evict
<1>3. {v} \cap DirtyPages \subseteq Cached
  BY Zenon
<1>4. ptable[v].pos \in Slot
  BY Zenon DEF PoolInv, TypeOK, Entry
<1>5. lru \in Seq(Page) /\ IsInjective(lru) /\ v \in ToSet(lru) /\ ToSet(lru) = Cached
  BY Zenon DEF PoolInv, TypeOK, LruMatchesTable
<1>6. Unlink(lru, v) \in Seq(Page) /\ IsInjective(Unlink(lru, v)) /\ ToSet(Unlink(lru, v)) = Cached \ {v}
  BY <1>5, UnlinkFacts, Zenon
<1>7. QED
  BY <1>1, <1>2, <1>3, <1>4, <1>6, WriteBackFacts, Zenon DEF Evict, PoolInv

\* evict_page finds a cached page whenever some page is not pinned.
LEMMA VictimCached ==
    ASSUME PoolInv, Evictable # {}
    PROVE  Victim \in Cached
<1>1. Evictable \subseteq DOMAIN lru /\ DOMAIN lru \subseteq Nat
  BY SMTT(30) DEF Evictable, PoolInv, TypeOK
<1>2. Min(Evictable) \in DOMAIN lru
  BY <1>1, MinOfNats, Zenon
<1>3. QED
  BY <1>2, Zenon DEF Victim, PoolInv, LruMatchesTable, ToSet, TypeOK

RoomOK(r) ==
    /\ DOMAIN r.ptable \subseteq Cached
    /\ r.ptable = Restrict(ptable, DOMAIN r.ptable)
    /\ r.lru \in Seq(Page)
    /\ IsInjective(r.lru)
    /\ ToSet(r.lru) = DOMAIN r.ptable
    /\ r.free \subseteq Slot
    /\ r.free # {}
    /\ \A q \in DOMAIN r.ptable : ptable[q].pos \notin r.free
    /\ r.file \in [File -> PFile]
    /\ \A f \in File : r.file[f].npages = file[f].npages /\ r.file[f].slots = file[f].slots

\* evict_page leaves a pool with a free slot, whoever the victim is.
LEMMA EvictOK ==
    ASSUME PoolInv, NEW v \in Cached
    PROVE  RoomOK(Evict(v))
<1> DEFINE e == Evict(v)
<1>1. e.ptable = Restrict(ptable, Cached \ {v}) /\ DOMAIN e.ptable = Cached \ {v}
  BY EvictFacts, Zenon DEF Restrict
<1>2. \A q \in Cached \ {v} : ptable[q].pos \notin free \cup {ptable[v].pos}
  BY Zenon DEF PoolInv, SlotsExclusive
<1>3. free \subseteq Slot
  BY Zenon DEF PoolInv, TypeOK
<1>4. e.lru \in Seq(Page) /\ IsInjective(e.lru) /\ ToSet(e.lru) = Cached \ {v}
  BY EvictFacts, Zenon
<1>5. e.free = free \cup {ptable[v].pos} /\ ptable[v].pos \in Slot
  BY EvictFacts, Zenon
<1>6. /\ e.file \in [File -> PFile]
      /\ \A f \in File : e.file[f].npages = file[f].npages /\ e.file[f].slots = file[f].slots
  BY EvictFacts, Zenon
<1> HIDE DEF e
<1>7. RoomOK(e)
  <2>1. DOMAIN e.ptable \subseteq Cached /\ e.ptable = Restrict(ptable, DOMAIN e.ptable)
    BY <1>1, Zenon
  <2>2. e.free \subseteq Slot /\ e.free # {} /\ \A q \in DOMAIN e.ptable : ptable[q].pos \notin e.free
    BY <1>1, <1>2, <1>3, <1>5, Zenon
  <2>3. QED
    BY <2>1, <2>2, <1>1, <1>4, <1>6, Zenon DEF RoomOK
<1>8. QED
  BY <1>7, Zenon DEF e

\* A pool that keeps all its pages and has a free slot.
LEMMA KeepOK ==
    ASSUME PoolInv, free # {}
    PROVE  RoomOK([ptable |-> ptable, lru |-> lru, free |-> free, file |-> file])
<1>1. ptable = Restrict(ptable, Cached)
  BY Zenon DEF PoolInv, TypeOK, Restrict
<1>2. QED
  BY <1>1, Zenon DEF RoomOK, PoolInv, TypeOK, LruMatchesTable, SlotsExclusive

\* fetch_page finds or makes a free slot unless every page is pinned.
LEMMA RoomFacts ==
    ASSUME PoolInv, ~ NoRoom
    PROVE  RoomOK(Room)
<1>1. CASE Len(lru) = PoolSize
  BY <1>1, VictimCached, EvictOK, Zenon DEF Room, NoRoom
<1>2. CASE Len(lru) # PoolSize
  BY <1>2, KeepOK, Zenon DEF Room, NoRoom
<1>3. QED
  BY <1>1, <1>2, Zenon

-----------------------------------------------------------------------------
\* What a user does to at, page and pos keeps their types.
UsersOK ==
    /\ at \in [User -> Activity]
    /\ page \in [User -> Page \cup {NoPage}]
    /\ \A u \in User : at[u] \in Busy \cup Holding => page[u] \in Page
    /\ pos \in [User -> 0 .. PoolSize]

\* A user that moves on holds a page exactly while it is busy or has a pointer.
LEMMA GotoOK ==
    ASSUME UsersOK, NEW u \in User, NEW STATE a, NEW STATE p, NEW STATE s, s \in 0 .. PoolSize, Goto(u, a, p, s),
           \/ a \in Busy \cup Holding /\ p \in Page
           \/ a = "idle" /\ p = NoPage
    PROVE  UsersOK'
  BY Zenon DEF UsersOK, Goto, Activity, Busy, Holding

\* A user that lets its page go holds none.
LEMMA ReleaseOK ==
    ASSUME UsersOK, NEW u \in User, Release(u)
    PROVE  UsersOK'
  BY GotoOK, PoolAssumption, SMTT(30) DEF Release

\* The pool after a step that keeps the entries of its pages, up to flags.
LEMMA FlagsOK ==
    ASSUME PoolInv, Cached' = Cached, ptable' \in [Cached -> Entry],
           \A p \in Cached : ptable'[p].pos = ptable[p].pos,
           UNCHANGED <<lru, free>>,
           buffer' \in [Slot -> Payload],
           file' \in [File -> PFile],
           \A f \in File : file'[f].npages = file[f].npages /\ file'[f].slots = file[f].slots,
           UsersOK', exc' \in Exception
    PROVE  PoolInv'
<1>1. TypeOK'
  BY Zenon DEF PoolInv, TypeOK, UsersOK
<1>2. SlotsExclusive'
  BY SMTT(30) DEF PoolInv, SlotsExclusive
<1>3. LruMatchesTable'
  BY Zenon DEF PoolInv, LruMatchesTable
<1>4. CachedAccessible'
  <2> SUFFICES ASSUME NEW p \in Cached PROVE Accessible(file'[p[1]], p[2])
    BY Zenon DEF CachedAccessible
  <2>1. p[1] \in File
    BY Zenon DEF PoolInv, TypeOK, Page
  <2>2. QED
    BY <2>1, Zenon DEF PoolInv, CachedAccessible, Accessible
<1>5. QED
  BY <1>1, <1>2, <1>3, <1>4, Zenon DEF PoolInv

\* The pool after a step that leaves it the pages of a room r.
LEMMA ShrinkOK ==
    ASSUME PoolInv, NEW STATE r, RoomOK(r),
           ptable' = r.ptable, lru' = r.lru, file' = r.file, free' \subseteq r.free,
           buffer' \in [Slot -> Payload], UsersOK', exc' \in Exception
    PROVE  PoolInv'
<1>0. Cached' = DOMAIN r.ptable
  BY Zenon DEF Cached
<1>1. Cached' \subseteq Cached /\ \A q \in Cached' : ptable'[q] = ptable[q]
  BY <1>0, Zenon DEF RoomOK, Restrict
<1>2. TypeOK'
  <2>1. ptable' \in [Cached' -> Entry]
    BY <1>0, <1>1, Zenon DEF RoomOK, Restrict, PoolInv, TypeOK
  <2>2. QED
    BY <1>1, <2>1, Zenon DEF RoomOK, PoolInv, TypeOK, UsersOK
<1>3. SlotsExclusive'
  BY <1>0, <1>1, SMTT(30) DEF RoomOK, PoolInv, SlotsExclusive
<1>4. LruMatchesTable'
  BY <1>0, Zenon DEF RoomOK, LruMatchesTable
<1>5. CachedAccessible'
  <2> SUFFICES ASSUME NEW p \in Cached' PROVE Accessible(file'[p[1]], p[2])
    BY Zenon DEF CachedAccessible
  <2>1. p \in Cached /\ p[1] \in File
    BY <1>1, Zenon DEF PoolInv, TypeOK, Page
  <2>2. QED
    BY <2>1, Zenon DEF PoolInv, CachedAccessible, Accessible, RoomOK
<1>6. QED
  BY <1>2, <1>3, <1>4, <1>5, Zenon DEF PoolInv

\* A page read into a slot of room r.
LEMMA LoadOK ==
    ASSUME PoolInv, NEW STATE r, RoomOK(r), NEW STATE p, p \in Page, NEW STATE s, s \in r.free,
           p \notin Cached, Accessible(file[p[1]], p[2]),
           ptable' = [q \in (DOMAIN r.ptable) \cup {p} |->
                         IF q = p THEN [pos |-> s, dirty |-> FALSE, pinned |-> FALSE]
                         ELSE r.ptable[q]],
           lru' = Append(r.lru, p), file' = r.file, free' = r.free \ {s},
           buffer' \in [Slot -> Payload], UsersOK', exc' \in Exception
    PROVE  PoolInv'
<1>0. Cached' = DOMAIN r.ptable \cup {p}
  BY Zenon DEF Cached
<1>1. /\ DOMAIN r.ptable \subseteq Cached
      /\ \A q \in DOMAIN r.ptable : ptable'[q] = ptable[q]
      /\ ptable'[p].pos = s
      /\ s \in Slot
      /\ ptable'[p] \in Entry
  BY Zenon DEF RoomOK, Restrict, Entry
<1>2. TypeOK'
  <2>1. ptable' \in [Cached' -> Entry]
    BY <1>0, <1>1, Zenon DEF PoolInv, TypeOK
  <2>2. Cached' \subseteq Page
    BY <1>0, <1>1, Zenon DEF PoolInv, TypeOK
  <2>3. lru' \in Seq(Page) /\ free' \subseteq Slot /\ file' \in [File -> PFile]
    BY SMTT(30) DEF RoomOK
  <2>4. buffer' \in [Slot -> Payload] /\ UsersOK' /\ exc' \in Exception
    BY Zenon
  <2>5. QED
    BY ONLY <2>1, <2>2, <2>3, <2>4, Zenon DEF TypeOK, UsersOK
<1>3. SlotsExclusive'
  <2>1. \A q \in DOMAIN r.ptable : ptable'[q].pos \notin r.free
    BY <1>1, Zenon DEF RoomOK
  <2>2. \A q, w \in DOMAIN r.ptable : q # w => ptable'[q].pos # ptable'[w].pos
    BY <1>1, Zenon DEF PoolInv, SlotsExclusive
  <2>3. \A q \in DOMAIN r.ptable : ptable'[q].pos # ptable'[p].pos
    BY <1>1, <2>1, Zenon
  <2>4. p \notin DOMAIN r.ptable /\ free' = r.free \ {s}
    BY <1>1, Zenon
  <2>5. ptable'[p].pos \notin free'
    BY <1>1, <2>4, Zenon
  <2>6. QED
    BY ONLY <1>0, <2>1, <2>2, <2>3, <2>4, <2>5, Zenon DEF SlotsExclusive
<1>4. LruMatchesTable'
  <2>1. r.lru \in Seq(Page) /\ IsInjective(r.lru) /\ ToSet(r.lru) = DOMAIN r.ptable /\ p \notin ToSet(r.lru)
    BY <1>1, Zenon DEF RoomOK
  <2>2. IsInjective(Append(r.lru, p)) /\ ToSet(Append(r.lru, p)) = ToSet(r.lru) \cup {p}
    BY <1>0, <2>1, AppendFacts, SMTT(30)
  <2>3. QED
    BY <1>0, <2>1, <2>2, Zenon DEF LruMatchesTable
<1>5. CachedAccessible'
  <2> SUFFICES ASSUME NEW q \in Cached' PROVE Accessible(file'[q[1]], q[2])
    BY Zenon DEF CachedAccessible
  <2>1. q \in Page /\ q[1] \in File /\ Accessible(file[q[1]], q[2])
    BY <1>0, <1>1, Zenon DEF PoolInv, TypeOK, Page, CachedAccessible
  <2>2. QED
    BY <2>1, Zenon DEF Accessible, RoomOK
<1>6. QED
  BY <1>2, <1>3, <1>4, <1>5, Zenon DEF PoolInv

\* The slot that load_page_from_file takes is a free one.
LEMMA RoomSlot ==
    ASSUME PoolInv, ~ NoRoom
    PROVE  Min(Room.free) \in Room.free
<1>1. Room.free \subseteq Nat /\ Room.free # {}
  BY RoomFacts, PoolAssumption, SMTT(30) DEF RoomOK, Slot
<1>2. QED
  BY <1>1, MinOfNats, Zenon

\* paged_file::allocate_page keeps every page that is accessible accessible.
LEMMA AllocateFacts ==
    ASSUME NEW f \in PFile, CanAllocate(f)
    PROVE  /\ NextPage(f) \in PageId
           /\ allocate_page(f) \in PFile
           /\ \A p \in PageId : Accessible(f, p) => Accessible(allocate_page(f), p)
<1>1. NextPage(f) \in PageId
  BY Zenon DEF CanAllocate
<1>2. f.npages \in 0 .. MaxPages /\ f.slots \subseteq PageId /\ f.data \in [PageId -> Payload]
  BY Zenon DEF PFile
<1>3. FreedPages(f) = {} => f.npages + 1 \in 0 .. MaxPages
  BY <1>1, <1>2, FileAssumption, SMTT(30) DEF NextPage, PageId
<1>4. Zero \in Payload
  BY Zenon DEF Payload
<1>5. allocate_page(f) \in PFile
  BY <1>1, <1>2, <1>3, <1>4, Zenon DEF allocate_page, PFile
<1>6. QED
  BY <1>1, <1>2, <1>5, FileAssumption, SMTT(30) DEF Accessible, allocate_page, PageId

-----------------------------------------------------------------------------
\* Every action preserves PoolInv.

\* The parts of the type invariant that the steps below use one by one.
LEMMA TypeUsers ==
    ASSUME PoolInv
    PROVE  UsersOK /\ exc \in Exception /\ buffer \in [Slot -> Payload]
  BY Zenon DEF PoolInv, TypeOK, UsersOK

\* A step that changes nothing but what the users hold and what fetch raised.
LEMMA UserOnly ==
    ASSUME PoolInv, UNCHANGED <<file, pool>>, UsersOK', exc' \in Exception
    PROVE  PoolInv'
<1>1. Cached' = Cached
  BY Zenon DEF Cached, pool
<1>2. QED
  BY <1>1, FlagsOK, Zenon DEF pool, PoolInv, TypeOK

\* fetch_page: a hit, a miss with or without an eviction, and its exceptions.
LEMMA FetchStep ==
    ASSUME PoolInv, NEW u \in User, fetch_page(u)
    PROVE  PoolInv'
<1>0. page[u] \in Page /\ UsersOK
  BY TypeUsers, Zenon DEF fetch_page, PoolInv, TypeOK, Busy
<1> DEFINE p == page[u]
<1>1. CASE Hit(u, p)
  <2>1. ptable[p].pos \in Slot /\ Cached' = Cached
    BY <1>1, Zenon DEF Hit, PoolInv, TypeOK, Entry, Cached
  <2>2. UsersOK'
    BY <1>0, <1>1, <2>1, GotoOK, PoolAssumption, SMTT(30) DEF Hit, Holding, Slot
  <2>3. /\ Unlink(lru, p) \in Seq(Page) /\ IsInjective(Unlink(lru, p))
        /\ ToSet(Unlink(lru, p)) = Cached \ {p}
    BY <1>1, UnlinkFacts, Zenon DEF Hit, PoolInv, TypeOK, LruMatchesTable
  <2>4. lru' \in Seq(Page) /\ IsInjective(lru') /\ ToSet(lru') = Cached
    <3> DEFINE l == Unlink(lru, p)
    <3>1. p \in Page /\ p \in Cached /\ lru' = Append(l, p)
      BY <1>0, <1>1, Zenon DEF Hit
    <3>2. l \in Seq(Page) /\ IsInjective(l) /\ p \notin ToSet(l) /\ ToSet(l) \cup {p} = Cached
      BY <2>3, <3>1, Zenon
    <3> HIDE DEF l, p
    <3>3. /\ Append(l, p) \in Seq(Page) /\ IsInjective(Append(l, p))
          /\ ToSet(Append(l, p)) = ToSet(l) \cup {p}
      BY ONLY <3>1, <3>2, AppendFacts, ZenonT(30)
    <3>4. QED
      BY ONLY <3>1, <3>2, <3>3, ZenonT(30)
  <2>5. TypeOK'
    BY <1>1, <2>1, <2>2, <2>4, Zenon DEF Hit, PoolInv, TypeOK, UsersOK, Exception
  <2>6. SlotsExclusive' /\ CachedAccessible'
    <3>1. UNCHANGED <<file, ptable, free>>
      BY <1>1, Zenon DEF Hit
    <3>2. SlotsExclusive'
      BY <2>1, <3>1, Zenon DEF PoolInv, SlotsExclusive
    <3>3. CachedAccessible'
      BY <2>1, <3>1, Zenon DEF PoolInv, CachedAccessible
    <3>4. QED
      BY <3>2, <3>3, Zenon
  <2>7. LruMatchesTable'
    BY <2>1, <2>4, Zenon DEF LruMatchesTable
  <2>8. QED
    BY <2>5, <2>6, <2>7, Zenon DEF PoolInv
<1>2. CASE Miss(u, p)
  <2>1. RoomOK(Room) /\ Min(Room.free) \in Room.free
    BY <1>2, RoomFacts, RoomSlot, Zenon DEF Miss
  <2>2. Min(Room.free) \in Slot /\ Min(Room.free) \in 0 .. PoolSize
    BY <2>1, PoolAssumption, SMTT(30) DEF RoomOK, Slot
  <2>3. UsersOK'
    BY <1>0, <1>2, <2>2, GotoOK, Zenon DEF Miss, Holding
  <2>4. Room.file[p[1]].data[p[2]] \in Payload
    BY <1>0, <2>1, Zenon DEF RoomOK, PFile, Page
  <2>5. buffer' \in [Slot -> Payload]
    BY <1>2, <2>4, TypeUsers, Zenon DEF Miss
  <2>6. exc' \in Exception
    BY <1>2, Zenon DEF Miss, Exception
  <2> HIDE DEF p
  <2>7. QED
    BY <1>0, <1>2, <2>1, <2>3, <2>5, <2>6, LoadOK, Zenon DEF Miss, Occupy, p
<1>3. CASE Overrun(u, p)
  BY <1>0, <1>3, UserOnly, ReleaseOK, Zenon DEF Overrun, Exception
<1>4. CASE BadPage(u, p)
  <2>1. RoomOK(Room)
    BY <1>4, RoomFacts, Zenon DEF BadPage
  <2>2. UsersOK' /\ exc' \in Exception /\ buffer' \in [Slot -> Payload]
    BY <1>0, <1>4, ReleaseOK, TypeUsers, Zenon DEF BadPage, Exception
  <2>3. QED
    BY <1>4, <2>1, <2>2, ShrinkOK, Zenon DEF BadPage, Occupy
<1>5. QED
  BY <1>1, <1>2, <1>3, <1>4, Zenon DEF fetch_page

\* find_chunk, allocate_page and last_valid_page, up to their call of fetch_page.
LEMMA AskStep ==
    ASSUME PoolInv, NEW u \in User,
           \/ \E p \in Page : ask(u, p)
           \/ \E f \in File : allocate(u, f) \/ last_valid_page(u, f)
    PROVE  PoolInv'
<1>0. UsersOK /\ 0 \in 0 .. PoolSize
  BY TypeUsers, PoolAssumption, SMTT(30)
<1>1. ASSUME NEW p \in Page, ask(u, p) PROVE PoolInv'
  <2>1. UsersOK'
    BY <1>0, <1>1, GotoOK, Zenon DEF ask, Busy
  <2>2. QED
    BY <1>1, <2>1, UserOnly, TypeUsers, Zenon DEF ask
<1>2. ASSUME NEW f \in File, AskNew(u, f) PROVE PoolInv'
  <2>1. /\ file[f] \in PFile /\ NextPage(file[f]) \in PageId
        /\ allocate_page(file[f]) \in PFile
        /\ \A p \in PageId : Accessible(file[f], p) => Accessible(allocate_page(file[f]), p)
    BY <1>2, AllocateFacts, Zenon DEF AskNew, PoolInv, TypeOK
  <2>2. UsersOK'
    BY <1>0, <1>2, <2>1, GotoOK, Zenon DEF AskNew, Busy, Page
  <2>3. file' \in [File -> PFile] /\ Cached' = Cached
    BY <1>2, <2>1, Zenon DEF AskNew, PoolInv, TypeOK, Cached, pool
  <2>4. TypeOK'
    BY <1>2, <2>2, <2>3, Zenon DEF AskNew, PoolInv, TypeOK, UsersOK, pool
  <2>5. SlotsExclusive' /\ LruMatchesTable'
    BY <1>2, <2>3, SMTT(30) DEF AskNew, PoolInv, SlotsExclusive, LruMatchesTable, pool
  <2>6. CachedAccessible'
    <3> SUFFICES ASSUME NEW q \in Cached PROVE Accessible(file'[q[1]], q[2])
      BY <2>3, Zenon DEF CachedAccessible
    <3>1. q[1] \in File /\ q[2] \in PageId /\ Accessible(file[q[1]], q[2])
      BY Zenon DEF PoolInv, TypeOK, Page, CachedAccessible
    <3>2. file' = [file EXCEPT ![f] = allocate_page(file[f])]
      BY <1>2, Zenon DEF AskNew
    <3>3. CASE q[1] = f
      BY <2>1, <3>1, <3>2, <3>3, Zenon DEF PoolInv, TypeOK
    <3>4. CASE q[1] # f
      BY <3>1, <3>2, <3>4, Zenon DEF PoolInv, TypeOK
    <3>5. QED
      BY <3>3, <3>4, Zenon
  <2>7. QED
    BY <2>4, <2>5, <2>6, Zenon DEF PoolInv
<1>3. ASSUME NEW f \in File, allocate(u, f) PROVE PoolInv'
  BY <1>2, <1>3, Zenon DEF allocate
<1>4. ASSUME NEW f \in File, last_valid_page(u, f) PROVE PoolInv'
  <2>1. CASE HasLastValid(file[f])
    <3>1. LastValid(file[f]) \in PageId
      <4> DEFINE S == file[f].slots \cap (1 .. file[f].npages)
      <4>1. file[f].npages \in Nat /\ S \subseteq PageId /\ S # {}
        BY <2>1, SMTT(30) DEF HasLastValid, PoolInv, TypeOK, PFile
      <4>2. \A x \in S : x \in Nat /\ x <= file[f].npages
        BY <4>1, SMTT(30)
      <4> HIDE DEF S
      <4>3. Max(S) \in S
        BY <4>1, <4>2, MaxOfBounded, Zenon
      <4>4. QED
        BY <4>1, <4>3, Zenon DEF LastValid, S
    <3>2. UsersOK'
      BY <1>0, <1>4, <2>1, <3>1, GotoOK, Zenon DEF last_valid_page, Busy, Page
    <3>3. QED
      BY <1>4, <2>1, <3>2, UserOnly, TypeUsers, Zenon DEF last_valid_page
  <2>2. CASE ~ HasLastValid(file[f])
    BY <1>2, <1>4, <2>2, Zenon DEF last_valid_page
  <2>3. QED
    BY <2>1, <2>2, Zenon
<1>5. QED
  BY <1>1, <1>3, <1>4, Zenon

\* A step that sets or clears flags of one cached page.
LEMMA FlagStep ==
    ASSUME PoolInv, NEW STATE p, NEW STATE e, e \in Entry,
           ptable' = IF p \in Cached THEN [ptable EXCEPT ![p] = e] ELSE ptable,
           p \in Cached => e.pos = ptable[p].pos,
           UNCHANGED <<file, lru, free, buffer>>, UsersOK', exc' \in Exception
    PROVE  PoolInv'
<1>1. ptable \in [Cached -> Entry]
  BY Zenon DEF PoolInv, TypeOK
<1>2. Cached' = Cached /\ ptable' \in [Cached -> Entry]
  BY <1>1, Zenon DEF Cached
<1>3. \A q \in Cached : ptable'[q].pos = ptable[q].pos
  BY <1>1, Zenon
<1>4. QED
  BY <1>2, <1>3, FlagsOK, TypeUsers, Zenon DEF PoolInv, TypeOK

\* The steps of a user with a pointer into a buffer slot.
LEMMA PointerStep ==
    ASSUME PoolInv, NEW u \in User,
           \/ mark_dirty(u) \/ read(u) \/ pin_page(u) \/ unpin_page(u)
           \/ \E v \in Values : write(u, v)
    PROVE  PoolInv'
<1>0. UsersOK /\ exc \in Exception /\ buffer \in [Slot -> Payload] /\ ptable \in [Cached -> Entry]
  BY TypeUsers, Zenon DEF PoolInv, TypeOK
<1>1. CASE mark_dirty(u)
  <2>1. UsersOK'
    BY <1>0, <1>1, Zenon DEF mark_dirty, UsersOK, Activity, Holding, Busy
  <2>2. CASE page[u] \in Cached
    <3>1. [ptable[page[u]] EXCEPT !.dirty = TRUE] \in Entry
      BY <1>0, <2>2, Zenon DEF Entry
    <3>2. [ptable[page[u]] EXCEPT !.dirty = TRUE].pos = ptable[page[u]].pos
      BY <1>0, <2>2, Zenon DEF Entry
    <3>3. ptable' = [ptable EXCEPT ![page[u]] = [ptable[page[u]] EXCEPT !.dirty = TRUE]]
      BY <1>1, <2>2, Zenon DEF mark_dirty
    <3>4. QED
      BY <1>0, <1>1, <2>1, <2>2, <3>1, <3>2, <3>3, FlagStep, Zenon DEF mark_dirty
  <2>3. CASE page[u] \notin Cached
    BY <1>0, <1>1, <2>1, <2>3, UserOnly, Zenon DEF mark_dirty, pool
  <2>4. QED
    BY <2>2, <2>3, Zenon
<1>2. CASE read(u)
  BY <1>0, <1>2, ReleaseOK, UserOnly, Zenon DEF read
<1>3. CASE pin_page(u)
  <2>1. UsersOK'
    BY <1>0, <1>3, Zenon DEF pin_page, UsersOK, Activity, Holding, Busy
  <2>2. CASE page[u] \in Cached
    <3>1. [ptable[page[u]] EXCEPT !.pinned = TRUE] \in Entry
      BY <1>0, <2>2, Zenon DEF Entry
    <3>2. [ptable[page[u]] EXCEPT !.pinned = TRUE].pos = ptable[page[u]].pos
      BY <1>0, <2>2, Zenon DEF Entry
    <3>3. ptable' = [ptable EXCEPT ![page[u]] = [ptable[page[u]] EXCEPT !.pinned = TRUE]]
      BY <1>3, <2>2, Zenon DEF pin_page
    <3>4. QED
      BY <1>0, <1>3, <2>1, <2>2, <3>1, <3>2, <3>3, FlagStep, Zenon DEF pin_page
  <2>3. CASE page[u] \notin Cached
    BY <1>0, <1>3, <2>1, <2>3, UserOnly, Zenon DEF pin_page, pool
  <2>4. QED
    BY <2>2, <2>3, Zenon
<1>4. CASE unpin_page(u)
  <2>1. UsersOK'
    BY <1>0, <1>4, ReleaseOK, Zenon DEF unpin_page
  <2>2. CASE page[u] \in Cached
    <3>1. [ptable[page[u]] EXCEPT !.pinned = FALSE] \in Entry
      BY <1>0, <2>2, Zenon DEF Entry
    <3>2. [ptable[page[u]] EXCEPT !.pinned = FALSE].pos = ptable[page[u]].pos
      BY <1>0, <2>2, Zenon DEF Entry
    <3>3. ptable' = [ptable EXCEPT ![page[u]] = [ptable[page[u]] EXCEPT !.pinned = FALSE]]
      BY <1>4, <2>2, Zenon DEF unpin_page
    <3>4. QED
      BY <1>0, <1>4, <2>1, <2>2, <3>1, <3>2, <3>3, FlagStep, Zenon DEF unpin_page
  <2>3. CASE page[u] \notin Cached
    BY <1>0, <1>4, <2>1, <2>3, UserOnly, Zenon DEF unpin_page, pool
  <2>4. QED
    BY <2>2, <2>3, Zenon
<1>5. ASSUME NEW v \in Values, write(u, v) PROVE PoolInv'
  <2>1. UsersOK'
    BY <1>0, <1>5, ReleaseOK, Zenon DEF write
  <2>2. buffer' \in [Slot -> Payload]
    BY <1>0, <1>5, Zenon DEF write, Payload
  <2>3. Cached' = Cached
    BY <1>5, Zenon DEF write, Cached
  <2>4. QED
    BY <1>0, <1>5, <2>1, <2>2, <2>3, FlagsOK, Zenon DEF write, PoolInv, TypeOK
<1>6. QED
  BY <1>1, <1>2, <1>3, <1>4, <1>5, Zenon

\* A page is a pair of a file and a page identifier.
LEMMA PagePair ==
    ASSUME NEW q \in Page
    PROVE  q[1] \in File /\ q[2] \in PageId /\ q = <<q[1], q[2]>>
BY SMTT(30) DEF Page

\* free_page of a page in the pool.
LEMMA FreeCachedStep ==
    ASSUME PoolInv, NEW u \in User, free_cached_page(u), page[u] \in Cached
    PROVE  PoolInv'
<1> DEFINE p == page[u]
<1>0. UsersOK /\ exc \in Exception /\ buffer \in [Slot -> Payload]
  BY TypeUsers, Zenon
<1>1. /\ p \in Cached /\ p \in Page /\ lru' = Unlink(lru, p)
      /\ ptable' = Restrict(ptable, Cached \ {p})
      /\ file' = [file EXCEPT ![p[1]] = free_page(file[p[1]], p[2])]
      /\ UNCHANGED <<free, buffer, exc>>
  BY Zenon DEF free_cached_page, PoolInv, TypeOK
<1>2. UsersOK'
  BY <1>0, ReleaseOK, Zenon DEF free_cached_page
<1>3. p[1] \in File /\ p[2] \in PageId /\ p = <<p[1], p[2]>>
  <2>1. p \in Page
    BY <1>1, Zenon
  <2>2. QED
    BY ONLY <2>1, PagePair, Zenon
<1> HIDE DEF p
<1>4. /\ Cached' = Cached \ {p} /\ ptable' \in [Cached' -> Entry]
      /\ \A q \in Cached' : ptable'[q] = ptable[q]
  BY <1>1, Zenon DEF Cached, Restrict, PoolInv, TypeOK
<1>5. lru' \in Seq(Page) /\ IsInjective(lru') /\ ToSet(lru') = Cached'
  BY <1>1, <1>4, UnlinkFacts, Zenon DEF PoolInv, TypeOK, LruMatchesTable
<1>6. file' \in [File -> PFile]
  <2>1. file \in [File -> PFile] /\ file[p[1]] \in PFile
    BY <1>3, Zenon DEF PoolInv, TypeOK
  <2>2. free_page(file[p[1]], p[2]) \in PFile
    BY <2>1, Zenon DEF free_page, PFile
  <2>3. QED
    BY <1>1, <1>3, <2>1, <2>2, Zenon
<1>7. TypeOK'
  BY <1>0, <1>1, <1>2, <1>4, <1>5, <1>6, Zenon DEF PoolInv, TypeOK, UsersOK
<1>8. SlotsExclusive'
  <2>1. free' = free /\ Cached' \subseteq Cached
    BY <1>1, <1>4, Zenon
  <2>2. \A q \in Cached : ptable[q].pos \notin free /\ \A w \in Cached \ {q} : ptable[q].pos # ptable[w].pos
    BY Zenon DEF PoolInv, SlotsExclusive
  <2>3. QED
    BY <1>4, <2>1, <2>2, SMTT(30) DEF SlotsExclusive
<1>9. CachedAccessible'
  <2> SUFFICES ASSUME NEW q \in Cached' PROVE Accessible(file'[q[1]], q[2])
    BY Zenon DEF CachedAccessible
  <2>1. q \in Cached /\ q # p /\ q[1] \in File /\ q[2] \in PageId /\ q = <<q[1], q[2]>>
    <3>1. q \in Cached /\ q # p /\ q \in Page
      BY <1>4, Zenon DEF PoolInv, TypeOK
    <3>2. QED
      BY <3>1, PagePair, Zenon
  <2>2. Accessible(file[q[1]], q[2])
    BY <2>1, Zenon DEF PoolInv, CachedAccessible
  <2>3. CASE q[1] # p[1]
    BY <1>1, <2>1, <2>2, <2>3, Zenon DEF PoolInv, TypeOK
  <2>4. CASE q[1] = p[1]
    <3>1. q[2] # p[2]
      BY <1>3, <2>1, <2>4, Zenon
    <3>2. file'[q[1]] = free_page(file[q[1]], p[2]) /\ file[q[1]] \in PFile
      BY <1>1, <2>1, <2>4, Zenon DEF PoolInv, TypeOK
    <3>3. QED
      BY <2>2, <3>1, <3>2, Zenon DEF Accessible, free_page, PFile
  <2>5. QED
    BY <2>3, <2>4, Zenon
<1>10. QED
  BY <1>5, <1>7, <1>8, <1>9, Zenon DEF PoolInv, LruMatchesTable

\* free_page of any page: nothing happens to one that is not in the pool.
LEMMA FreeStep ==
    ASSUME PoolInv, NEW u \in User, free_cached_page(u)
    PROVE  PoolInv'
<1>1. CASE page[u] \in Cached
  BY <1>1, FreeCachedStep, Zenon
<1>2. CASE page[u] \notin Cached
  BY <1>2, TypeUsers, ReleaseOK, UserOnly, Zenon DEF free_cached_page, pool
<1>3. QED
  BY <1>1, <1>2, Zenon

\* flush_all, flush_pages and flush_page.
LEMMA FlushStep ==
    ASSUME PoolInv, NEW STATE S, Flush(S)
    PROVE  PoolInv'
<1> DEFINE D == S \cap DirtyPages
<1>1. file' = WriteBack(D) /\ ptable' = Clean(D) /\ D \subseteq Cached
  BY Zenon DEF Flush, DirtyPages
<1>2. UNCHANGED <<lru, free, buffer, at, page, pos, exc>>
  BY Zenon DEF Flush
<1> HIDE DEF D
<1>3. /\ WriteBack(D) \in [File -> PFile]
      /\ \A f \in File : /\ WriteBack(D)[f].npages = file[f].npages
                         /\ WriteBack(D)[f].slots = file[f].slots
  BY <1>1, WriteBackFacts, Zenon DEF PoolInv
<1>4. /\ Cached' = Cached /\ ptable' \in [Cached -> Entry]
      /\ \A p \in Cached : ptable'[p].pos = ptable[p].pos
  BY <1>1, Zenon DEF Clean, Cached, PoolInv, TypeOK, Entry
<1>5. UsersOK' /\ exc' \in Exception /\ buffer' \in [Slot -> Payload]
  BY <1>2, TypeUsers, Zenon DEF UsersOK
<1>6. QED
  BY <1>1, <1>2, <1>3, <1>4, <1>5, FlagsOK, Zenon

\* scan_file reads pages past the page table into a slot it does not keep.
LEMMA ScanStep ==
    ASSUME PoolInv, NEW f \in File, scan_file(f)
    PROVE  PoolInv'
<1> DEFINE r == IF free # {} THEN [ptable |-> ptable, lru |-> lru, free |-> free, file |-> file]
                ELSE Evict(Victim)
<1>1. RoomOK(r)
  <2>1. CASE free # {}
    BY <2>1, KeepOK, Zenon
  <2>2. CASE free = {}
    <3>1. Victim \in Cached
      BY <2>2, VictimCached, Zenon DEF scan_file
    <3>2. RoomOK(Evict(Victim))
      BY <3>1, EvictOK, Zenon
    <3>3. QED
      BY <2>2, <3>2, Zenon
  <2>3. QED
    BY <2>1, <2>2, Zenon
<1>2. ptable' = r.ptable /\ lru' = r.lru /\ file' = r.file /\ free' = r.free
  BY Zenon DEF scan_file
<1>3. buffer' = IF r.file[f].npages = 0 THEN buffer
                ELSE [buffer EXCEPT ![Min(r.free)] = r.file[f].data[r.file[f].npages]]
  BY Zenon DEF scan_file
<1>4. UNCHANGED <<at, page, pos, exc>>
  BY Zenon DEF scan_file
<1> HIDE DEF r
<1>5. UsersOK' /\ exc' \in Exception
  BY <1>4, TypeUsers, Zenon DEF UsersOK
<1>6. r.file[f].npages # 0 => r.file[f].data[r.file[f].npages] \in Payload
  BY <1>1, FileAssumption, SMTT(30) DEF RoomOK, PFile, PageId
<1>7. buffer' \in [Slot -> Payload]
  BY <1>3, <1>6, TypeUsers, Zenon
<1>8. QED
  BY <1>1, <1>2, <1>5, <1>7, ShrinkOK, Zenon

\* purge empties the pool.
LEMMA CloseStep ==
    ASSUME PoolInv, close
    PROVE  PoolInv'
<1>1. file' \in [File -> PFile]
  BY WriteBackFacts, Zenon DEF close, PoolInv, DirtyPages
<1>2. Cached' = {} /\ ptable' \in [{} -> Entry] /\ lru' = << >>
  BY Zenon DEF close, Cached, NoPages
<1>3. TypeOK'
  BY <1>1, <1>2, SMTT(30) DEF close, PoolInv, TypeOK, Activity, Busy, Holding, Payload
<1>4. QED
  BY <1>2, <1>3, SMTT(30) DEF PoolInv, SlotsExclusive, LruMatchesTable, CachedAccessible, ToSet, IsInjective

\* For every pool size, number of files, users and threads, and whether or not
\* the users mark the pages they write: two pages never share a slot of
\* buffer_, the LRU list and ptable_ always name the same pages, and no
\* write-back of a cached page can throw.
THEOREM PoolInvariant == Spec => []PoolInv
<1>1. Init => PoolInv
  <2> SUFFICES ASSUME Init PROVE PoolInv
    BY Zenon
  <2>1. Cached = {} /\ ptable \in [{} -> Entry] /\ lru = << >>
    BY Zenon DEF Init, Cached, NoPages
  <2>2. NewFile \in PFile
    BY FileAssumption, SMTT(30) DEF NewFile, PFile, Payload, PageId
  <2>3. TypeOK
    BY <2>1, <2>2, PoolAssumption, SMTT(30) DEF Init, TypeOK, Activity, Busy, Holding, Exception, Payload
  <2>4. QED
    BY <2>1, <2>3, SMTT(30) DEF PoolInv, SlotsExclusive, LruMatchesTable, CachedAccessible, ToSet, IsInjective
<1>2. PoolInv /\ [Next]_vars => PoolInv'
  <2> SUFFICES ASSUME PoolInv, [Next]_vars PROVE PoolInv'
    BY Zenon
  <2>1. ASSUME NEW u \in User, UserStep(u) PROVE PoolInv'
    BY <2>1, AskStep, FetchStep, PointerStep, FreeStep, Zenon DEF UserStep
  <2>2. CASE flush_all
    BY <2>2, FlushStep, Zenon DEF flush_all
  <2>3. ASSUME NEW f \in File, flush_pages(f) PROVE PoolInv'
    BY <2>3, FlushStep, Zenon DEF flush_pages
  <2>4. ASSUME NEW p \in Page, flush_page(p) PROVE PoolInv'
    BY <2>4, FlushStep, Zenon DEF flush_page
  <2>5. ASSUME NEW f \in File, scan_file(f) PROVE PoolInv'
    BY <2>5, ScanStep, Zenon
  <2>6. CASE close
    BY <2>6, CloseStep, Zenon
  <2>7. CASE UNCHANGED vars
    <3>1. UNCHANGED <<file, pool>> /\ UsersOK' /\ exc' \in Exception
      BY <2>7, TypeUsers, Zenon DEF vars, UsersOK
    <3>2. QED
      BY <3>1, UserOnly, Zenon
  <2>8. QED
    BY <2>1, <2>2, <2>3, <2>4, <2>5, <2>6, <2>7, Zenon DEF Next
<1>3. QED
  BY <1>1, <1>2, PTL DEF Spec
=============================================================================
