----------------------------- MODULE BufferPool -----------------------------
(***************************************************************************)
(* The page cache (src/bp_file/bufferpool.cpp) with its LRU list           *)
(* (src/bp_file/lru_list.cpp) over paged files (module PagedFile), and the *)
(* code that holds pointers into the cache (buffered_vec, the string pool, *)
(* the B+-trees, the record references of graph_db).                       *)
(*                                                                         *)
(* Every call into the pool runs under bufferpool::mutex_ and is one       *)
(* action. A user is one holder of a page pointer: an operation that       *)
(* fetches a page and then works on it, or an iterator. Users of one       *)
(* thread interleave only between operations, users of two threads at      *)
(* every call.                                                             *)
(***************************************************************************)
EXTENDS PagedFile, SequencesExt

CONSTANTS
    File,            \* the registered files
    PoolSize,        \* bsize_
    User, Thread,    \* pointer holders, and the threads that run them
    ThreadOf,        \* the thread of a user
    NoPage,          \* no page
    IndexFile,       \* the files of the B+-trees, the only ones that free pages
    Iterator,        \* users that pin their page: the iterators of buffered_vec
    Unmarked         \* users that write through a reference from at() or from
                     \* a B+-tree node and never call mark_dirty

ASSUME PoolAssumption ==
    /\ PoolSize \in Nat \ {0}
    /\ ThreadOf \in [User -> Thread]
    /\ NoPage \notin (File \X PageId) \cup Payload
    /\ Unmarked \subseteq User
    /\ IndexFile \subseteq File
    /\ Iterator \subseteq User

Page == File \X PageId
Slot == 1 .. PoolSize
Entry == [pos : Slot, dirty : BOOLEAN, pinned : BOOLEAN]

VARIABLES
    file,     \* the paged files on disk
    ptable,   \* page -> buf_slot, for the cached pages
    lru,      \* lru_list_ from its LRU end to its MRU end
    free,     \* slots_: the buffer slots whose bit says unused
    buffer,   \* buffer_: the payload in every buffer slot
    at,       \* what a user is doing
    page,     \* the page a user asked for
    pos,      \* the buffer slot its page pointer points to
    exc       \* what the last fetch raised

pool == <<ptable, lru, free, buffer>>
vars == <<file, pool, at, page, pos, exc>>

\* A user between two calls of one operation, and one that holds a pointer.
Busy == {"asked", "loaded", "marked"}
Holding == {"loaded", "marked", "pinned"}
Activity == {"idle", "closed"} \cup Busy \cup Holding
Exception == {"none", "bufferpool_overrun", "index_out_of_range"}

Cached == DOMAIN ptable
DirtyPages == {p \in Cached : ptable[p].dirty}
NoPages == [p \in {} |-> p]

TypeOK ==
    /\ file \in [File -> PFile]
    /\ Cached \subseteq Page
    /\ ptable \in [Cached -> Entry]
    /\ lru \in Seq(Page)
    /\ free \subseteq Slot
    /\ buffer \in [Slot -> Payload]
    /\ at \in [User -> Activity]
    /\ page \in [User -> Page \cup {NoPage}]
    /\ \A u \in User : at[u] \in Busy \cup Holding => page[u] \in Page
    /\ pos \in [User -> 0 .. PoolSize]
    /\ exc \in Exception

Init ==
    /\ file = [f \in File |-> NewFile]
    /\ ptable = NoPages
    /\ lru = <<>>
    /\ free = Slot
    /\ buffer = [s \in Slot |-> Zero]
    /\ at = [u \in User |-> "idle"]
    /\ page = [u \in User |-> NoPage]
    /\ pos = [u \in User |-> 0]
    /\ exc = "none"

-----------------------------------------------------------------------------
\* Thread t is not inside an operation of one of its users other than those of S.
Between(t, S) == \A w \in User \ S : ThreadOf[w] = t => at[w] \notin Busy

Running(u) == Between(ThreadOf[u], {u})

\* User u goes on with p as its page and s as its slot.
Goto(u, a, p, s) ==
    /\ at' = [at EXCEPT ![u] = a]
    /\ page' = [page EXCEPT ![u] = p]
    /\ pos' = [pos EXCEPT ![u] = s]

Release(u) == Goto(u, "idle", NoPage, 0)

\* lru_list::remove of the node of page p.
Unlink(l, p) == RemoveAt(l, CHOOSE i \in DOMAIN l : l[i] = p)

\* Mutant: nothing is written.
WriteBackNothing(S) == file

\* write_page_to_file for every page of S.
WriteBack(S) ==
    [f \in File |-> [file[f] EXCEPT !.data =
        [i \in PageId |-> IF <<f, i>> \in S THEN buffer[ptable[<<f, i>>].pos] ELSE @[i]]]]

Clean(S) == [p \in Cached |-> IF p \in S THEN [ptable[p] EXCEPT !.dirty = FALSE] ELSE ptable[p]]

-----------------------------------------------------------------------------
\* Mutant: the pin is ignored.
EvictableAny == DOMAIN lru

\* evict_page: the first page from the LRU end that is not pinned.
Evictable == {i \in DOMAIN lru : ~ ptable[lru[i]].pinned}
Victim == lru[Min(Evictable)]

\* What evict_page makes of the pool when v is its victim.
Evict(v) ==
    [ptable |-> Restrict(ptable, Cached \ {v}),
     lru    |-> Unlink(lru, v),
     free   |-> free \cup {ptable[v].pos},
     file   |-> WriteBack({v} \cap DirtyPages)]

\* The pool after the eviction at the start of a miss, if there has to be one.
Room ==
    IF Len(lru) = PoolSize THEN Evict(Victim)
    ELSE [ptable |-> ptable, lru |-> lru, free |-> free, file |-> file]

\* No victim (the assertion on evict_page), or no unused buffer slot
\* (load_page_from_file throws).
NoRoom == IF Len(lru) = PoolSize THEN Evictable = {} ELSE free = {}

\* Mutant: the slot stays available.
OccupyNothing(r, s) == r.free

\* load_page_from_file marks the slot it uses as occupied.
Occupy(r, s) == r.free \ {s}

\* fetch_page of a cached page: move it to the MRU end.
Hit(u, p) ==
    /\ p \in Cached
    /\ lru' = Append(Unlink(lru, p), p)
    /\ Goto(u, "loaded", p, ptable[p].pos)
    /\ exc' = "none"
    /\ UNCHANGED <<file, ptable, free, buffer>>

Overrun(u, p) ==
    /\ p \notin Cached
    /\ NoRoom
    /\ exc' = "bufferpool_overrun"
    /\ Release(u)
    /\ UNCHANGED <<file, pool>>

\* load_page_from_file has marked the slot as occupied when read_page throws.
BadPage(u, p) ==
    /\ p \notin Cached
    /\ ~ NoRoom
    /\ ~ Accessible(file[p[1]], p[2])
    /\ ptable' = Room.ptable
    /\ lru' = Room.lru
    /\ file' = Room.file
    /\ free' = Occupy(Room, Min(Room.free))
    /\ exc' = "index_out_of_range"
    /\ Release(u)
    /\ UNCHANGED buffer

\* fetch_page of a page that has to be read from its file.
Miss(u, p) ==
    LET s == Min(Room.free)
    IN  /\ p \notin Cached
        /\ ~ NoRoom
        /\ Accessible(file[p[1]], p[2])
        /\ file' = Room.file
        /\ free' = Occupy(Room, s)
        /\ buffer' = [buffer EXCEPT ![s] = Room.file[p[1]].data[p[2]]]
        /\ lru' = Append(Room.lru, p)
        /\ ptable' = [q \in (DOMAIN Room.ptable) \cup {p} |->
                         IF q = p THEN [pos |-> s, dirty |-> FALSE, pinned |-> FALSE]
                         ELSE Room.ptable[q]]
        /\ Goto(u, "loaded", p, s)
        /\ exc' = "none"

fetch_page(u) ==
    /\ at[u] = "asked"
    /\ Running(u)
    /\ \/ Hit(u, page[u])
       \/ Miss(u, page[u])
       \/ Overrun(u, page[u])
       \/ BadPage(u, page[u])

-----------------------------------------------------------------------------
\* How a user comes to a page id, before it calls fetch_page: find_chunk
\* computes it from an offset without looking at the file (the redo pass of
\* recovery asks for pages the file does not have), the B+-trees follow the
\* page ids stored in their nodes,
ask(u, p) ==
    /\ at[u] = "idle"
    /\ Running(u)
    /\ p[1] \in IndexFile => is_valid(file[p[1]], p[2])
    /\ Goto(u, "asked", p, 0)
    /\ UNCHANGED <<file, pool, exc>>

\* bufferpool::allocate_page takes it from the file,
AskNew(u, f) ==
    /\ CanAllocate(file[f])
    /\ Goto(u, "asked", <<f, NextPage(file[f])>>, 0)
    /\ file' = [file EXCEPT ![f] = allocate_page(@)]
    /\ UNCHANGED <<pool, exc>>

allocate(u, f) ==
    /\ at[u] = "idle"
    /\ Running(u)
    /\ AskNew(u, f)

\* and so does bufferpool::last_valid_page.
last_valid_page(u, f) ==
    /\ at[u] = "idle"
    /\ Running(u)
    /\ IF HasLastValid(file[f])
       THEN /\ Goto(u, "asked", <<f, LastValid(file[f])>>, 0)
            /\ UNCHANGED <<file, pool, exc>>
       ELSE AskNew(u, f)

-----------------------------------------------------------------------------
\* Does nothing when the page has left the pool since it was fetched.
mark_dirty(u) ==
    /\ at[u] = "loaded" /\ u \notin Unmarked
    /\ Running(u)
    /\ ptable' = IF page[u] \in Cached THEN [ptable EXCEPT ![page[u]].dirty = TRUE] ELSE ptable
    /\ at' = [at EXCEPT ![u] = "marked"]
    /\ UNCHANGED <<file, lru, free, buffer, page, pos, exc>>

\* The user writes through its pointer: the payload of its buffer slot changes.
write(u, v) ==
    /\ at[u] = IF u \in Unmarked THEN "loaded" ELSE "marked"
    /\ Running(u)
    /\ buffer' = [buffer EXCEPT ![pos[u]] = v]
    /\ Release(u)
    /\ UNCHANGED <<file, ptable, lru, free, exc>>

\* The user has read the page and drops its pointer.
read(u) ==
    /\ at[u] = "loaded"
    /\ Running(u)
    /\ Release(u)
    /\ UNCHANGED <<file, pool, exc>>

\* The iterators of buffered_vec pin their page after loading it ...
pin_page(u) ==
    /\ at[u] = "loaded" /\ u \in Iterator /\ page[u][1] \notin IndexFile
    /\ Running(u)
    /\ ptable' = IF page[u] \in Cached THEN [ptable EXCEPT ![page[u]].pinned = TRUE] ELSE ptable
    /\ at' = [at EXCEPT ![u] = "pinned"]
    /\ UNCHANGED <<file, lru, free, buffer, page, pos, exc>>

\* ... and unpin it when they leave it.
unpin_page(u) ==
    /\ at[u] = "pinned"
    /\ Running(u)
    /\ ptable' = IF page[u] \in Cached THEN [ptable EXCEPT ![page[u]].pinned = FALSE] ELSE ptable
    /\ Release(u)
    /\ UNCHANGED <<file, lru, free, buffer, exc>>

-----------------------------------------------------------------------------
\* bufferpool::free_page, called by the B+-tree for a node it has loaded. The
\* buffer slot of the page is not given back to slots_.
free_cached_page(u) ==
    /\ at[u] = "loaded" /\ page[u][1] \in IndexFile
    /\ Running(u)
    /\ IF page[u] \in Cached
       THEN /\ lru' = Unlink(lru, page[u])
            /\ ptable' = Restrict(ptable, Cached \ {page[u]})
            /\ file' = [file EXCEPT ![page[u][1]] = free_page(@, page[u][2])]
       ELSE UNCHANGED <<lru, ptable, file>>
    /\ Release(u)
    /\ UNCHANGED <<free, buffer, exc>>

\* flush_all, flush_pages(f) and flush_page(p, false) write the dirty pages
\* of S and clear their flags; some thread calls them between two operations.
Flush(S) ==
    /\ \E t \in Thread : Between(t, {})
    /\ file' = WriteBack(S \cap DirtyPages)
    /\ ptable' = Clean(S \cap DirtyPages)
    /\ UNCHANGED <<lru, free, buffer, at, page, pos, exc>>

flush_all == Flush(Cached)
flush_pages(f) == Flush({p \in Cached : p[1] = f})
flush_page(p) == p \in Cached /\ Flush({p})

\* bufferpool::scan_file borrows a buffer slot to read the file page by page.
\* It runs while the dictionary is opened, before the file has other users.
scan_file(f) ==
    /\ \A u \in User : at[u] = "idle"
    /\ free # {} \/ Evictable # {}
    /\ LET r == IF free # {} THEN [ptable |-> ptable, lru |-> lru, free |-> free, file |-> file]
                ELSE Evict(Victim)
           s == Min(r.free)
           n == r.file[f].npages
       IN  /\ ptable' = r.ptable
           /\ lru' = r.lru
           /\ free' = r.free
           /\ file' = r.file
           /\ buffer' = IF n = 0 THEN buffer ELSE [buffer EXCEPT ![s] = r.file[f].data[n]]
    /\ UNCHANGED <<at, page, pos, exc>>

\* graph_pool::close: flush_all, then purge; nothing fetches a page afterwards.
close ==
    /\ \A u \in User : at[u] = "idle"
    /\ file' = WriteBack(DirtyPages)
    /\ ptable' = NoPages
    /\ lru' = <<>>
    /\ free' = Slot
    /\ buffer' = [s \in Slot |-> Zero]
    /\ at' = [u \in User |-> "closed"]
    /\ UNCHANGED <<page, pos, exc>>

UserStep(u) ==
    \/ \E p \in Page : ask(u, p)
    \/ \E f \in File : allocate(u, f) \/ last_valid_page(u, f)
    \/ fetch_page(u)
    \/ mark_dirty(u)
    \/ \E v \in Values : write(u, v)
    \/ read(u)
    \/ pin_page(u)
    \/ unpin_page(u)
    \/ free_cached_page(u)

Next ==
    \/ \E u \in User : UserStep(u)
    \/ flush_all
    \/ \E f \in File : flush_pages(f) \/ scan_file(f)
    \/ \E p \in Page : flush_page(p)
    \/ close

Spec == Init /\ [][Next]_vars

-----------------------------------------------------------------------------
\* No two cached pages share a buffer slot, and no cached page sits in a slot
\* that load_page_from_file may hand out again.
SlotsExclusive ==
    \A p \in Cached :
        /\ ptable[p].pos \notin free
        /\ \A q \in Cached \ {p} : ptable[p].pos # ptable[q].pos

\* The LRU list holds every cached page exactly once and nothing else, so
\* evict_page finds an entry for every node it looks at, and lru_list_.size()
\* is the number of cached pages that fetch_page takes it for.
LruMatchesTable ==
    /\ ToSet(lru) = Cached
    /\ IsInjective(lru)

\* Every cached page is one write_page accepts: an eviction or a flush never
\* throws index_out_of_range in the middle of its work.
CachedAccessible == \A p \in Cached : Accessible(file[p[1]], p[2])

\* The page table, the LRU list, slots_ and the files fit together after every
\* call of the pool: the four facts above, which only together are inductive.
PoolInv == TypeOK /\ SlotsExclusive /\ LruMatchesTable /\ CachedAccessible

\* A clean page in the pool equals its copy in the file, so evict_page and
\* flush_all may skip it.
CleanCoherent ==
    \A p \in Cached \ DirtyPages : buffer[ptable[p].pos] = file[p[1]].data[p[2]]

\* The page of an iterator stays in the slot its pointer refers to for as long
\* as the iterator has it pinned.
PinnedStays ==
    \A u \in User : at[u] = "pinned" =>
        /\ page[u] \in Cached
        /\ ptable[page[u]].pos = pos[u]

\* slots_ says which slots of buffer_ are occupied: a slot is free or holds a
\* cached page.
SlotsAccounted == Slot = free \cup {ptable[p].pos : p \in Cached}

\* The payload a client finds in page p.
View(p) ==
    IF ~ is_valid(file[p[1]], p[2]) THEN NoPage
    ELSE IF p \in Cached THEN buffer[ptable[p].pos]
    ELSE file[p[1]].data[p[2]]

Store == INSTANCE PageStore WITH content <- [p \in Page |-> View(p)], Absent <- NoPage

\* The pool loses no write and makes none up: eviction, flushing, write-back
\* and reloading are invisible in the page store its clients see.
ImplementsPageStore == Store!Spec
=============================================================================
