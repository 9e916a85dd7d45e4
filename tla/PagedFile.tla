------------------------------ MODULE PagedFile ------------------------------
(***************************************************************************)
(* A paged file (src/bp_file/paged_file.cpp) as a record                   *)
(*    npages : number of pages the file occupies, used and unused          *)
(*    slots  : header_.slots_, the page ids whose bit is 1                 *)
(*    data   : the payload of every page                                   *)
(* and the operations of the class as operators on that record.            *)
(***************************************************************************)
EXTENDS FiniteSetsExt

CONSTANTS
    MaxPages,   \* largest page id the bitset header_.slots_ leaves room for
    Zero,       \* the payload of a page that was just allocated
    Values      \* the payloads clients write

ASSUME FileAssumption == MaxPages \in Nat \ {0} /\ Zero \notin Values

PageId == 1 .. MaxPages
Payload == Values \cup {Zero}

PFile == [npages : 0 .. MaxPages, slots : SUBSET PageId, data : [PageId -> Payload]]

\* paged_file::open of a path that does not exist.
NewFile == [npages |-> 0, slots |-> {}, data |-> [p \in PageId |-> Zero]]

is_valid(f, p) == p \in 1 .. f.npages /\ p \in f.slots

\* paged_file::find_first_slot: the pages that allocate_page may use again.
FreedPages(f) == (1 .. f.npages) \ f.slots

\* The page allocate_page returns: the first freed one, else one more page.
NextPage(f) == IF FreedPages(f) # {} THEN Min(FreedPages(f)) ELSE f.npages + 1

\* The guard is the assertion on header_.slots_.size().
CanAllocate(f) == NextPage(f) \in PageId

\* Mutant: a freed page is used again with its old payload.
allocate_page_stale(f) ==
    [npages |-> IF FreedPages(f) # {} THEN f.npages ELSE f.npages + 1,
     slots  |-> f.slots \cup {NextPage(f)},
     data   |-> f.data]

\* paged_file::allocate_page: zero the page on disk and set its bit.
allocate_page(f) ==
    [npages |-> IF FreedPages(f) # {} THEN f.npages ELSE f.npages + 1,
     slots  |-> f.slots \cup {NextPage(f)},
     data   |-> [f.data EXCEPT ![NextPage(f)] = Zero]]

\* paged_file::free_page of a valid page.
free_page(f, p) == [f EXCEPT !.slots = @ \ {p}]

\* The check of read_page and write_page. It compares pid-1 with npages_, so
\* it lets the page right after the last one through unless its bit is 0.
Accessible(f, p) == p - 1 <= f.npages /\ p \in f.slots

HasLastValid(f) == f.slots \cap (1 .. f.npages) # {}

\* paged_file::last_valid_page when the file has a valid page.
LastValid(f) == Max(f.slots \cap (1 .. f.npages))
=============================================================================
