---------------------------- MODULE BufferedVec ----------------------------
(***************************************************************************)
(* The record vector of src/vec/buffered_vec.hpp: pages (chunks) of        *)
(* PerChunk record slots each, with a bitmap and a hint in every chunk,    *)
(* and a free list and a counter of available slots for the whole vector.  *)
(*                                                                         *)
(* A record is a number that is used once. handed is what the callers of   *)
(* append, store and store_at know: at which position their record is.     *)
(*                                                                         *)
(* fill, erase and add_store change bitmap, hint, record, counter and free *)
(* list in one step. The code takes a mutex for the counter and for the    *)
(* free list only, so the steps are exact for one thread. With several     *)
(* threads the module has some of the interleavings, enough to show that   *)
(* two threads disturb each other and not enough to claim anything of them.*)
(***************************************************************************)
EXTENDS Integers, FiniteSetsExt

CONSTANTS
    PerChunk,    \* num_entries
    MaxPages,    \* bound on the number of chunks
    MaxRecords,  \* bound on the number of records ever stored
    Thread,
    Profile      \* the combinations of operations that callers use

ASSUME VecAssumption ==
    /\ PerChunk \in Nat \ {0} /\ MaxPages \in Nat /\ MaxRecords \in Nat
    /\ Profile \subseteq SUBSET {"append", "store", "add", "erase"}

Page == 1 .. MaxPages
Pos == 0 .. PerChunk - 1
Record == 1 .. MaxRecords

VARIABLES
    npages,     \* number of pages of the file
    slots,      \* page -> used slots
    first,      \* page -> first_, from where first_available looks
    data,       \* page -> slot -> record, 0 before anything was stored there
    available,  \* available_slots_
    freelist,   \* pages that have their bit set in freelist_
    last,       \* number of records stored so far
    pc,         \* where a thread is in append, store or add
    chk,        \* the chunk it has chosen in append or store
    pick,       \* the slot it has chosen, and the position it will return
    handed,     \* the pairs of position and record the callers hold
    ops         \* the operations the callers use

file == <<npages, slots, first, data>>
header == <<available, freelist>>
local == <<pc, chk, pick, ops>>
vars == <<file, header, local, last, handed>>

TypeOK ==
    /\ npages \in 0 .. MaxPages
    /\ slots \in [Page -> SUBSET Pos]
    /\ first \in [Page -> 0 .. PerChunk]
    /\ data \in [Page -> [Pos -> 0 .. MaxRecords]]
    /\ available \in Int
    /\ freelist \subseteq Page
    /\ last \in 0 .. MaxRecords
    /\ pc \in [Thread -> {"idle", "chosen", "picked", "adding", "found"}]
    /\ chk \in [Thread -> 0 .. MaxPages]
    /\ pick \in [Thread -> [pos : 0 .. PerChunk, ret : Int]]
    /\ handed \subseteq Int \X Record
    /\ ops \in Profile

Init ==
    /\ npages = 0
    /\ slots = [p \in Page |-> {}] /\ first = [p \in Page |-> 0]
    /\ data = [p \in Page |-> [i \in Pos |-> 0]]
    /\ available = 0 /\ freelist = {}
    /\ last = 0 /\ handed = {} /\ ops \in Profile
    /\ pc = [t \in Thread |-> "idle"]
    /\ chk = [t \in Thread |-> 0]
    /\ pick = [t \in Thread |-> [pos |-> 0, ret |-> 0]]

-----------------------------------------------------------------------------
\* The page and the slot of a position.
PageOf(idx) == idx \div PerChunk + 1
PosOf(idx) == idx % PerChunk

\* Mutant: a chunk never counts as full.
FullWithNever(S) == FALSE

\* bchunk::is_full.
FullWith(S) == S = Pos

\* bchunk::set, the value of first_ once slot i is used and S is the bitmap ...
FirstAfterUse(S, f, i) ==
    IF i = f THEN Min({j \in Pos : j > i /\ j \notin S} \cup {PerChunk}) ELSE f

\* Mutant: the hint stays where it is when a slot before it is erased.
FirstAfterEraseStuck(f, i) == f

\* ... and once slot i is free.
FirstAfterErase(f, i) == IF i < f THEN i ELSE f

\* bchunk::first_available, PerChunk standing for SIZE_MAX.
first_available(S, f) == Min({i \in Pos : f <= i /\ i \notin S} \cup {PerChunk})

\* resize(1), when it happens: one empty page, on the free list.
CanResize == npages < MaxPages
Resize ==
    /\ npages' = npages + 1
    /\ slots' = [slots EXCEPT ![npages + 1] = {}]
    /\ first' = [first EXCEPT ![npages + 1] = 0]
    /\ freelist' = freelist \cup {npages + 1}
    /\ available' = available + PerChunk
    /\ UNCHANGED data

Choose(t, p) ==
    /\ pc' = [pc EXCEPT ![t] = "chosen"] /\ chk' = [chk EXCEPT ![t] = p]
    /\ UNCHANGED <<pick, last, handed, ops>>

\* append, under rsz_mtx_: the last chunk, a new one when it is full.
append_choose(t) ==
    /\ pc[t] = "idle" /\ "append" \in ops /\ last < MaxRecords
    /\ IF available = 0 \/ FullWith(slots[npages])
       THEN CanResize /\ Resize /\ Choose(t, npages + 1)
       ELSE UNCHANGED <<file, header>> /\ Choose(t, npages)

\* store, under rsz_mtx_: a new chunk when available_slots_ says that all are
\* full, otherwise the first one of the free list.
store_choose(t) ==
    /\ pc[t] = "idle" /\ "store" \in ops /\ last < MaxRecords
    /\ \/ /\ available = 0
          /\ CanResize /\ Resize /\ Choose(t, npages + 1)
       \/ /\ available # 0
          /\ Choose(t, IF freelist = {} THEN 0 ELSE Min(freelist))
          /\ UNCHANGED <<file, header>>

\* Mutant: the position is counted from the page after the last one.
OffsetPast(p) == npages * PerChunk

\* The position of the first slot of chunk p, the way append and store compute
\* it: from the number of pages, not from p.
Offset(p) == (npages - 1) * PerChunk

\* Outside the mutex: the slot and the position.
take_slot(t) ==
    LET i == first_available(slots[chk[t]], first[chk[t]])
    IN  /\ pc[t] = "chosen" /\ chk[t] # 0
        /\ pick' = [pick EXCEPT ![t] = [pos |-> i, ret |-> Offset(chk[t]) + i]]
        /\ pc' = [pc EXCEPT ![t] = "picked"]
        /\ UNCHANGED <<file, header, chk, last, handed, ops>>

\* Mutant: a full chunk stays on the free list.
remove_from_free_list_nothing(idx) == freelist

\* remove_from_free_list and add_to_free_list of the page of a position.
remove_from_free_list(idx) == freelist \ {PageOf(idx)}
add_to_free_list(idx) == freelist \cup ({PageOf(idx)} \cap Page)

\* The record goes into the slot and the caller learns its position.
fill(t) ==
    LET p == chk[t]
        i == pick[t].pos
        S == slots[p] \cup {i}
    IN  /\ pc[t] = "picked" /\ i \in Pos
        /\ last < MaxRecords
        /\ last' = last + 1
        /\ available' = available - 1
        /\ slots' = [slots EXCEPT ![p] = S]
        /\ first' = [first EXCEPT ![p] = FirstAfterUse(S, @, i)]
        /\ data' = [data EXCEPT ![p][i] = last + 1]
        /\ freelist' = IF FullWith(S) THEN remove_from_free_list(pick[t].ret - i) ELSE freelist
        /\ handed' = handed \cup {<<pick[t].ret, last + 1>>}
        /\ pc' = [pc EXCEPT ![t] = "idle"]
        /\ chk' = [chk EXCEPT ![t] = 0]
        /\ pick' = [pick EXCEPT ![t] = [pos |-> 0, ret |-> 0]]
        /\ UNCHANGED <<npages, ops>>

-----------------------------------------------------------------------------
\* erase of a record some caller holds. The bit is cleared before it is looked
\* at, so neither the counter nor the free list learns of the free slot.
erase(t, h) ==
    LET p == PageOf(h[1])
        i == PosOf(h[1])
        S == slots[p] \ {i}
    IN  /\ pc[t] = "idle" /\ "erase" \in ops /\ p \in 1 .. npages
        /\ slots' = [slots EXCEPT ![p] = S]
        /\ first' = [first EXCEPT ![p] = FirstAfterErase(@, i)]
        /\ available' = IF i \in S THEN available + 1 ELSE available
        /\ freelist' = IF FullWith(S) THEN add_to_free_list(h[1]) ELSE freelist
        /\ handed' = handed \ {h}
        /\ UNCHANGED <<npages, data, last, local>>

\* add of the tables: a chunk is added when available_slots_ is 0 ...
add_choose(t) ==
    /\ pc[t] = "idle" /\ "add" \in ops /\ last < MaxRecords
    /\ pc' = [pc EXCEPT ![t] = "adding"]
    /\ \/ available = 0 /\ CanResize /\ Resize
       \/ available # 0 /\ UNCHANGED <<file, header>>
    /\ UNCHANGED <<chk, pick, last, handed, ops>>

\* ... first_available() of the vector returns the position of the first free
\* slot of the first chunk of the free list (without one, add stops at its
\* assertion) ...
add_find(t) ==
    LET p == Min(freelist)
        i == first_available(slots[p], first[p])
    IN  /\ pc[t] = "adding" /\ available # 0 /\ freelist # {} /\ i \in Pos
        /\ pick' = [pick EXCEPT ![t] = [pos |-> i, ret |-> (p - 1) * PerChunk + i]]
        /\ pc' = [pc EXCEPT ![t] = "found"]
        /\ UNCHANGED <<file, header, chk, last, handed, ops>>

\* ... and store_at puts the record there. It sets the bit before it looks at it.
add_store(t) ==
    LET p == PageOf(pick[t].ret)
        i == PosOf(pick[t].ret)
        S == slots[p] \cup {i}
    IN  /\ pc[t] = "found" /\ last < MaxRecords
        /\ last' = last + 1
        /\ slots' = [slots EXCEPT ![p] = S]
        /\ first' = [first EXCEPT ![p] = FirstAfterUse(S, @, i)]
        /\ data' = [data EXCEPT ![p][i] = last + 1]
        /\ available' = IF i \notin S THEN available - 1 ELSE available
        /\ freelist' = IF FullWith(S) THEN remove_from_free_list(pick[t].ret) ELSE freelist
        /\ handed' = handed \cup {<<pick[t].ret, last + 1>>}
        /\ pc' = [pc EXCEPT ![t] = "idle"]
        /\ pick' = [pick EXCEPT ![t] = [pos |-> 0, ret |-> 0]]
        /\ UNCHANGED <<npages, chk, ops>>

Next ==
    \E t \in Thread :
        \/ append_choose(t) \/ store_choose(t) \/ take_slot(t) \/ fill(t)
        \/ add_choose(t) \/ add_find(t) \/ add_store(t)
        \/ \E h \in handed : erase(t, h)

Spec == Init /\ [][Next]_vars

-----------------------------------------------------------------------------
\* Every record a caller holds is found at the position it was told: at(pos)
\* returns that record and not unknown_id or another one.
RecordsKept ==
    \A h \in handed :
        /\ PageOf(h[1]) \in 1 .. npages
        /\ PosOf(h[1]) \in slots[PageOf(h[1])]
        /\ data[PageOf(h[1])][PosOf(h[1])] = h[2]

\* first_ never passes a free slot, so that first_available, which starts
\* there, finds one whenever the chunk is not full.
HintSafe == \A p \in 1 .. npages : \A i \in Pos : i < first[p] => i \in slots[p]

\* The free slots of the vector.
FreeSlots == {s \in (1 .. npages) \X Pos : s[2] \notin slots[s[1]]}

\* As long as nothing is erased and nobody is in the middle of an operation,
\* available_slots_ is the number of free slots, which is what is_full takes it
\* for, and the chunks on the free list are those with a free slot.
HeaderExact ==
    ops \cap {"erase", "add"} = {} /\ (\A t \in Thread : pc[t] = "idle") =>
        /\ available = Cardinality(FreeSlots)
        /\ freelist = {p \in 1 .. npages : ~ FullWith(slots[p])}

\* The assertions of append and store: there is a chunk, and it has a slot.
ChunkHasRoom ==
    \A t \in Thread :
        /\ pc[t] = "chosen" => chk[t] # 0
        /\ pc[t] = "picked" => pick[t].pos \in Pos
=============================================================================
