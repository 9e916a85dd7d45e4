------------------------- MODULE BufferedVecProofs -------------------------
(***************************************************************************)
(* What buffered_vec guarantees to one thread, for every chunk size and    *)
(* number of chunks: whatever it calls (HintTheorem), if it keeps to a     *)
(* discipline (RecordsTheorem, RoomTheorem), and if it appends and stores  *)
(* but never erases (HeaderTheorem).                                       *)
(***************************************************************************)
EXTENDS BufferedVec, Minima, FiniteSetTheorems, TLAPS

\* The division of a position into chunk and slot undoes its composition.
LEMMA Position ==
    ASSUME NEW p \in Nat \ {0}, NEW i \in Pos
    PROVE  PageOf((p - 1) * PerChunk + i) = p /\ PosOf((p - 1) * PerChunk + i) = i
<1> DEFINE k == p - 1
<1>1. k \in Nat /\ PerChunk \in Nat /\ PerChunk > 0 /\ i \in Nat /\ i < PerChunk
  BY VecAssumption, SMTT(30) DEF Pos
<1> HIDE DEF k
<1>2. (k * PerChunk + i) \div PerChunk = k
  BY <1>1, SMTT(30)
<1>3. (k * PerChunk + i) % PerChunk = i
  BY <1>1, <1>2, SMTT(30)
<1>4. QED
  BY <1>1, <1>2, <1>3, SMTT(30) DEF PageOf, PosOf, k

\* bchunk::set keeps first_ at or before the first free slot of bitmap S when
\* slot i has become used ...
LEMMA UseFacts ==
    ASSUME NEW S, S \subseteq Pos, NEW f \in 0 .. PerChunk, NEW i \in S,
           \A j \in Pos : j < f => j \in S
    PROVE  /\ FirstAfterUse(S, f, i) \in 0 .. PerChunk
           /\ \A j \in Pos : j < FirstAfterUse(S, f, i) => j \in S
<1> DEFINE M == {j \in Pos : j > i /\ j \notin S} \cup {PerChunk}
<1>1. M \subseteq Nat /\ M # {} /\ M \subseteq 0 .. PerChunk
  BY VecAssumption, SMTT(30) DEF Pos
<1>2. Min(M) \in M /\ \A y \in M : Min(M) <= y
  BY <1>1, MinOfNats, Zenon
<1>3. Min(M) \in 0 .. PerChunk
  BY <1>1, <1>2, Zenon
<1>4. i = f => \A j \in Pos : j < Min(M) => j \in S
  <2> SUFFICES ASSUME i = f, NEW j \in Pos, j < Min(M), j \notin S PROVE FALSE
    BY Zenon
  <2>1. j > i
    BY SMTT(30) DEF Pos
  <2>2. j \in M
    BY <2>1, Zenon
  <2>3. QED
    BY <2>2, <1>2, <1>3, SMTT(30) DEF Pos
<1> HIDE DEF M
<1>5. FirstAfterUse(S, f, i) = IF i = f THEN Min(M) ELSE f
  BY Zenon DEF FirstAfterUse, M
<1>6. QED
  BY <1>3, <1>4, <1>5, Zenon

\* ... and when slot i has become free.
LEMMA EraseFacts ==
    ASSUME NEW S, S \subseteq Pos, NEW f \in 0 .. PerChunk, NEW i \in Pos,
           \A j \in Pos : j < f => j \in S
    PROVE  /\ FirstAfterErase(f, i) \in 0 .. PerChunk
           /\ \A j \in Pos : j < FirstAfterErase(f, i) => j \in S \ {i}
  BY VecAssumption, SMTT(30) DEF FirstAfterErase, Pos

\* bchunk::first_available stays inside the chunk.
LEMMA FirstAvailable ==
    ASSUME NEW S \in SUBSET Pos, NEW f \in 0 .. PerChunk
    PROVE  first_available(S, f) \in 0 .. PerChunk
<1> DEFINE M == {i \in Pos : f <= i /\ i \notin S} \cup {PerChunk}
<1>1. M \in SUBSET Nat /\ M # {} /\ M \subseteq 0 .. PerChunk
  BY VecAssumption, SMTT(30) DEF Pos
<1>2. Min(M) \in M
  BY <1>1, MinOfNats, Zenon
<1>3. QED
  BY <1>1, <1>2, Zenon DEF first_available

-----------------------------------------------------------------------------
\* first_ is right in every chunk, also in those that are not in use yet.
Hints == \A p \in Page : \A i \in Pos : i < first[p] => i \in slots[p]

\* A thread that has picked a slot has a chunk, and one that is about to call
\* store_at has the position of a slot.
Picked ==
    \A t \in Thread : /\ pc[t] = "picked" => chk[t] # 0
                      /\ pc[t] = "found" => PageOf(pick[t].ret) \in Page

VecInv == TypeOK /\ Hints /\ Picked

\* The three parts of TypeOK that the actions change together.
FileOK ==
    /\ npages \in 0 .. MaxPages
    /\ slots \in [Page -> SUBSET Pos]
    /\ first \in [Page -> 0 .. PerChunk]
    /\ data \in [Page -> [Pos -> 0 .. MaxRecords]]
    /\ Hints
HeaderOK == available \in Int /\ freelist \subseteq Page
LocalOK ==
    /\ pc \in [Thread -> {"idle", "chosen", "picked", "adding", "found"}]
    /\ chk \in [Thread -> 0 .. MaxPages]
    /\ pick \in [Thread -> [pos : 0 .. PerChunk, ret : Int]]
    /\ ops \in Profile
    /\ Picked
ClientOK == last \in 0 .. MaxRecords /\ handed \subseteq Int \X Record

\* The invariant, sorted by what the steps change: file, header, local variables, clients.
LEMMA VecParts == VecInv <=> FileOK /\ HeaderOK /\ LocalOK /\ ClientOK
  BY Zenon DEF VecInv, TypeOK, FileOK, HeaderOK, LocalOK, ClientOK

\* The same for the next state.
LEMMA VecParts2 == VecInv' <=> FileOK' /\ HeaderOK' /\ LocalOK' /\ ClientOK'
  BY Zenon DEF VecInv, TypeOK, FileOK, HeaderOK, LocalOK, ClientOK

\* A new chunk is empty and its hint is 0.
LEMMA ResizeStep ==
    ASSUME FileOK, HeaderOK, CanResize, Resize
    PROVE  FileOK' /\ HeaderOK'
<1>1. npages \in Nat /\ MaxPages \in Nat /\ PerChunk \in Nat /\ npages + 1 \in Page
  BY VecAssumption, SMTT(30) DEF FileOK, CanResize, Page
<1>2. npages' \in 0 .. MaxPages
  BY <1>1, SMTT(30) DEF Resize, Page
<1>3. slots' \in [Page -> SUBSET Pos] /\ first' \in [Page -> 0 .. PerChunk]
  BY <1>1, SMTT(30) DEF Resize, FileOK
<1>4. ASSUME NEW p \in Page, NEW i \in Pos, i < first'[p] PROVE i \in slots'[p]
  <2>1. CASE p = npages + 1
    <3>1. first'[p] = 0
      BY <1>1, <2>1, Zenon DEF Resize, FileOK
    <3>2. QED
      BY <3>1, <1>4, VecAssumption, SMTT(30) DEF Pos
  <2>2. CASE p # npages + 1
    BY <1>1, <1>4, <2>2, Zenon DEF Resize, FileOK, Hints
  <2>3. QED
    BY <2>1, <2>2, Zenon
<1>5. Hints'
  BY <1>4, Zenon DEF Hints
<1>6. HeaderOK'
  BY <1>1, SMTT(30) DEF Resize, HeaderOK
<1>7. QED
  BY <1>2, <1>3, <1>5, <1>6, Zenon DEF FileOK, Resize

\* One slot of a chunk becomes used or free, bitmap and hint together.
LEMMA SetStep ==
    ASSUME FileOK, NEW STATE p, p \in Page, NEW STATE i, i \in Pos, UNCHANGED npages,
           data' \in [Page -> [Pos -> 0 .. MaxRecords]],
           \/ /\ slots' = [slots EXCEPT ![p] = slots[p] \cup {i}]
              /\ first' = [first EXCEPT ![p] = FirstAfterUse(slots[p] \cup {i}, @, i)]
           \/ /\ slots' = [slots EXCEPT ![p] = slots[p] \ {i}]
              /\ first' = [first EXCEPT ![p] = FirstAfterErase(@, i)]
    PROVE  FileOK'
<1>1. /\ slots[p] \in SUBSET Pos /\ first[p] \in 0 .. PerChunk
      /\ \A j \in Pos : j < first[p] => j \in slots[p]
  BY Zenon DEF FileOK, Hints
<1> DEFINE fu == FirstAfterUse(slots[p] \cup {i}, first[p], i)
           fe == FirstAfterErase(first[p], i)
<1>0. /\ fu \in 0 .. PerChunk /\ \A j \in Pos : j < fu => j \in slots[p] \cup {i}
      /\ fe \in 0 .. PerChunk /\ \A j \in Pos : j < fe => j \in slots[p] \ {i}
  <2> DEFINE T == slots[p] \cup {i}
  <2>1. T \subseteq Pos /\ i \in T /\ \A j \in Pos : j < first[p] => j \in T
    BY <1>1, Zenon
  <2> HIDE DEF T
  <2>2. FirstAfterUse(T, first[p], i) \in 0 .. PerChunk
        /\ \A j \in Pos : j < FirstAfterUse(T, first[p], i) => j \in T
    BY <1>1, <2>1, UseFacts, Zenon
  <2>3. fe \in 0 .. PerChunk /\ \A j \in Pos : j < fe => j \in slots[p] \ {i}
    BY <1>1, EraseFacts, Zenon
  <2>4. QED
    BY <2>2, <2>3, Zenon DEF T
<1>a. \/ slots'[p] = slots[p] \cup {i} /\ first'[p] = fu
      \/ slots'[p] = slots[p] \ {i} /\ first'[p] = fe
  BY Zenon DEF FileOK
<1> HIDE DEF fu, fe
<1>2. slots'[p] \in SUBSET Pos /\ first'[p] \in 0 .. PerChunk
  BY <1>1, <1>0, <1>a, Zenon
<1>3. \A j \in Pos : j < first'[p] => j \in slots'[p]
  BY <1>0, <1>a, Zenon
<1>4. /\ slots' = [slots EXCEPT ![p] = slots'[p]]
      /\ first' = [first EXCEPT ![p] = first'[p]]
  BY Zenon DEF FileOK
<1>5. slots' \in [Page -> SUBSET Pos] /\ first' \in [Page -> 0 .. PerChunk]
  BY <1>2, <1>4, Zenon DEF FileOK
<1>6. Hints'
  BY <1>3, <1>4, Zenon DEF FileOK, Hints
<1>7. QED
  BY <1>5, <1>6, Zenon DEF FileOK

\* A thread enters append, store or add with a chunk number p (0 if it found
\* none on the free list).
LEMMA EnterStep ==
    ASSUME LocalOK, ClientOK, NEW t \in Thread, NEW STATE p, p \in 0 .. MaxPages, Choose(t, p)
    PROVE  LocalOK' /\ ClientOK'
  BY Zenon DEF LocalOK, ClientOK, Choose, Picked

\* find_in_free_list returns a page of the vector.
LEMMA FreeListMin ==
    ASSUME HeaderOK, freelist # {}
    PROVE  Min(freelist) \in freelist /\ Min(freelist) \in Page
<1>1. freelist \subseteq Nat
  BY VecAssumption, SMTT(30) DEF HeaderOK, Page
<1>2. QED
  BY <1>1, MinOfNats, Zenon DEF HeaderOK

\* append up to its choice of a chunk.
LEMMA AppendStep ==
    ASSUME VecInv, NEW t \in Thread, append_choose(t)
    PROVE  VecInv'
<1>1. FileOK /\ HeaderOK /\ LocalOK /\ ClientOK
  BY VecParts, Zenon
<1>2. npages \in 0 .. MaxPages /\ MaxPages \in Nat
  BY <1>1, VecAssumption, Zenon DEF FileOK
<1>3. CASE CanResize /\ Resize /\ Choose(t, npages + 1)
  <2>1. npages + 1 \in 0 .. MaxPages
    BY <1>2, <1>3, SMTT(30) DEF CanResize
  <2>2. QED
    BY <1>1, <1>3, <2>1, ResizeStep, EnterStep, VecParts2, Zenon
<1>4. CASE UNCHANGED <<file, header>> /\ Choose(t, npages)
  <2>1. FileOK' /\ HeaderOK'
    BY <1>1, <1>4, Zenon DEF file, header, FileOK, HeaderOK, Hints
  <2>2. QED
    BY <1>1, <1>2, <1>4, <2>1, EnterStep, VecParts2, Zenon
<1>5. QED
  BY <1>3, <1>4, Zenon DEF append_choose

\* store up to its choice of a chunk.
LEMMA StoreStep ==
    ASSUME VecInv, NEW t \in Thread, store_choose(t)
    PROVE  VecInv'
<1>1. FileOK /\ HeaderOK /\ LocalOK /\ ClientOK
  BY VecParts, Zenon
<1>2. npages \in 0 .. MaxPages /\ MaxPages \in Nat
  BY <1>1, VecAssumption, Zenon DEF FileOK
<1>3. CASE CanResize /\ Resize /\ Choose(t, npages + 1)
  <2>1. npages + 1 \in 0 .. MaxPages
    BY <1>2, <1>3, SMTT(30) DEF CanResize
  <2>2. QED
    BY <1>1, <1>3, <2>1, ResizeStep, EnterStep, VecParts2, Zenon
<1>4. CASE UNCHANGED <<file, header>> /\ Choose(t, IF freelist = {} THEN 0 ELSE Min(freelist))
  <2>1. FileOK' /\ HeaderOK'
    BY <1>1, <1>4, Zenon DEF file, header, FileOK, HeaderOK, Hints
  <2>2. (IF freelist = {} THEN 0 ELSE Min(freelist)) \in 0 .. MaxPages
    BY <1>1, <1>2, FreeListMin, SMTT(30) DEF Page
  <2>3. QED
    BY <1>1, <1>4, <2>1, <2>2, EnterStep, VecParts2, Zenon
<1>5. QED
  BY <1>3, <1>4, Zenon DEF store_choose

\* append and store: the search for a free slot in the chunk.
LEMMA TakeStep ==
    ASSUME VecInv, NEW t \in Thread, take_slot(t)
    PROVE  VecInv'
<1>1. FileOK /\ HeaderOK /\ LocalOK /\ ClientOK
  BY VecParts, Zenon
<1> DEFINE i == first_available(slots[chk[t]], first[chk[t]])
           r == Offset(chk[t]) + i
<1>2. chk[t] \in Page
  BY <1>1, VecAssumption, SMTT(30) DEF take_slot, LocalOK, Page
<1>3. i \in 0 .. PerChunk
  BY <1>1, <1>2, FirstAvailable, Zenon DEF FileOK
<1>4. r \in Int
  <2>1. Offset(chk[t]) \in Int
    BY <1>1, VecAssumption, SMTT(30) DEF FileOK, Offset
  <2>2. QED
    BY <1>3, <2>1, SMTT(30)
<1>5. /\ pick' = [pick EXCEPT ![t] = [pos |-> i, ret |-> r]]
      /\ pc' = [pc EXCEPT ![t] = "picked"]
      /\ UNCHANGED <<file, header, chk, last, handed, ops>> /\ chk[t] # 0
  BY Zenon DEF take_slot
<1> HIDE DEF i, r
<1>6. LocalOK'
  BY <1>1, <1>3, <1>4, <1>5, Zenon DEF LocalOK, Picked
<1>7. FileOK' /\ HeaderOK' /\ ClientOK'
  BY <1>1, <1>5, Zenon DEF file, header, FileOK, HeaderOK, ClientOK, Hints
<1>8. QED
  BY <1>6, <1>7, VecParts2, Zenon

\* The next record is a record, and a table of records with it in one slot is
\* one still.
LEMMA WriteData ==
    ASSUME FileOK, ClientOK, NEW STATE p, p \in Page, NEW STATE i, i \in Pos, last < MaxRecords,
           data' = [data EXCEPT ![p][i] = last + 1], last' = last + 1
    PROVE  /\ data' \in [Page -> [Pos -> 0 .. MaxRecords]]
           /\ last' \in 0 .. MaxRecords /\ last + 1 \in Record
<1>1. last + 1 \in 0 .. MaxRecords /\ last + 1 \in Record
  BY VecAssumption, SMTT(30) DEF ClientOK, Record
<1>2. QED
  BY <1>1, Zenon DEF FileOK

\* append and store: the record, the bitmap, the hint and the header.
LEMMA FillStep ==
    ASSUME VecInv, NEW t \in Thread, fill(t)
    PROVE  VecInv'
<1>1. FileOK /\ HeaderOK /\ LocalOK /\ ClientOK
  BY VecParts, Zenon
<1> DEFINE p == chk[t]
           i == pick[t].pos
<1>2. p \in Page /\ i \in Pos
  BY <1>1, VecAssumption, SMTT(30) DEF fill, LocalOK, Picked, Page
<1>3. pick[t].ret \in Int
  BY <1>1, Zenon DEF LocalOK
<1>4. /\ last < MaxRecords /\ last' = last + 1
      /\ available' = available - 1
      /\ slots' = [slots EXCEPT ![p] = slots[p] \cup {i}]
      /\ first' = [first EXCEPT ![p] = FirstAfterUse(slots[p] \cup {i}, @, i)]
      /\ data' = [data EXCEPT ![p][i] = last + 1]
      /\ freelist' \subseteq freelist
      /\ handed' = handed \cup {<<pick[t].ret, last + 1>>}
      /\ UNCHANGED npages
  BY Zenon DEF fill, remove_from_free_list
<1>5. LocalOK'
  BY <1>1, VecAssumption, SMTT(30) DEF LocalOK, fill, Picked
<1> HIDE DEF p, i
<1>6. /\ data' \in [Page -> [Pos -> 0 .. MaxRecords]]
      /\ last' \in 0 .. MaxRecords /\ last + 1 \in Record
  BY <1>1, <1>2, <1>4, WriteData, Zenon
<1>7. FileOK'
  BY <1>1, <1>2, <1>4, <1>6, SetStep, Zenon
<1>8. HeaderOK' /\ ClientOK'
  BY <1>1, <1>3, <1>4, <1>6, SMTT(30) DEF HeaderOK, ClientOK
<1>9. QED
  BY <1>5, <1>7, <1>8, VecParts2, Zenon

\* erase of a record that was handed out.
LEMMA EraseStep ==
    ASSUME VecInv, NEW t \in Thread, NEW h \in handed, erase(t, h)
    PROVE  VecInv'
<1>1. FileOK /\ HeaderOK /\ LocalOK /\ ClientOK
  BY VecParts, Zenon
<1> DEFINE p == PageOf(h[1])
           i == PosOf(h[1])
<1>2. h[1] \in Int
  BY <1>1, Zenon DEF ClientOK
<1>3. p \in Page /\ i \in Pos
  <2>1. p \in Page
    BY <1>1, VecAssumption, SMTT(30) DEF erase, FileOK, Page
  <2>2. PosOf(h[1]) \in Pos
    BY <1>2, VecAssumption, SMTT(30) DEF PosOf, Pos
  <2>3. QED
    BY <2>1, <2>2, Zenon
<1>4. /\ slots' = [slots EXCEPT ![p] = slots[p] \ {i}]
      /\ first' = [first EXCEPT ![p] = FirstAfterErase(@, i)]
      /\ available' \in {available, available + 1}
      /\ freelist' \subseteq freelist \cup Page
      /\ handed' \subseteq handed
      /\ UNCHANGED <<npages, data, last, local>>
  BY Zenon DEF erase, add_to_free_list
<1> HIDE DEF p, i
<1>5. FileOK'
  BY <1>1, <1>3, <1>4, SetStep, Zenon DEF FileOK
<1>6. HeaderOK' /\ ClientOK' /\ LocalOK'
  <2>1. UNCHANGED <<pc, chk, pick, ops>>
    BY <1>4, Zenon DEF local
  <2>2. LocalOK'
    BY <1>1, <2>1, Zenon DEF LocalOK, Picked
  <2>3. HeaderOK' /\ ClientOK'
    BY <1>1, <1>4, SMTT(30) DEF HeaderOK, ClientOK
  <2>4. QED
    BY <2>2, <2>3, Zenon
<1>7. QED
  BY <1>5, <1>6, VecParts2, Zenon

\* node_list::add up to first_available.
LEMMA AddChooseStep ==
    ASSUME VecInv, NEW t \in Thread, add_choose(t)
    PROVE  VecInv'
<1>1. FileOK /\ HeaderOK /\ LocalOK /\ ClientOK
  BY VecParts, Zenon
<1>2. FileOK' /\ HeaderOK'
  <2>1. CASE CanResize /\ Resize
    BY <1>1, <2>1, ResizeStep, Zenon
  <2>2. CASE UNCHANGED <<file, header>>
    BY <1>1, <2>2, Zenon DEF file, header, FileOK, HeaderOK, Hints
  <2>3. QED
    BY <2>1, <2>2, Zenon DEF add_choose
<1>3. LocalOK' /\ ClientOK'
  BY <1>1, Zenon DEF add_choose, LocalOK, ClientOK, Picked
<1>4. QED
  BY <1>2, <1>3, VecParts2, Zenon

\* node_list::add: first_available of the vector.
LEMMA AddFindStep ==
    ASSUME VecInv, NEW t \in Thread, add_find(t)
    PROVE  VecInv'
<1>1. FileOK /\ HeaderOK /\ LocalOK /\ ClientOK
  BY VecParts, Zenon
<1> DEFINE p == Min(freelist)
           i == first_available(slots[p], first[p])
           r == (p - 1) * PerChunk + i
<1>2. p \in Page /\ i \in Pos
  BY <1>1, FreeListMin, Zenon DEF add_find
<1>3. /\ pick' = [pick EXCEPT ![t] = [pos |-> i, ret |-> r]]
      /\ pc' = [pc EXCEPT ![t] = "found"]
      /\ UNCHANGED <<file, header, chk, last, handed, ops>>
  BY Zenon DEF add_find
<1> HIDE DEF p, i
<1>4. i \in 0 .. PerChunk /\ r \in Int /\ p \in Nat \ {0}
  BY <1>2, VecAssumption, SMTT(30) DEF Page, Pos
<1>5. PageOf(r) = p
  BY <1>2, <1>4, Position, Zenon
<1> HIDE DEF r
<1>6. LocalOK'
  BY <1>1, <1>2, <1>3, <1>4, <1>5, Zenon DEF LocalOK, Picked
<1>7. FileOK' /\ HeaderOK' /\ ClientOK'
  BY <1>1, <1>3, Zenon DEF file, header, FileOK, HeaderOK, ClientOK, Hints
<1>8. QED
  BY <1>6, <1>7, VecParts2, Zenon

\* store_at as node_list::add calls it.
LEMMA AddStoreStep ==
    ASSUME VecInv, NEW t \in Thread, add_store(t)
    PROVE  VecInv'
<1>1. FileOK /\ HeaderOK /\ LocalOK /\ ClientOK
  BY VecParts, Zenon
<1> DEFINE p == PageOf(pick[t].ret)
           i == PosOf(pick[t].ret)
<1>3. pick[t].ret \in Int
  BY <1>1, Zenon DEF LocalOK
<1>2. p \in Page /\ i \in Pos
  <2>1. p \in Page
    BY <1>1, Zenon DEF add_store, LocalOK, Picked
  <2>2. i \in Pos
    BY <1>3, VecAssumption, SMTT(30) DEF PosOf, Pos
  <2>3. QED
    BY <2>1, <2>2, Zenon
<1>4. /\ last < MaxRecords /\ last' = last + 1
      /\ available' \in {available, available - 1}
      /\ slots' = [slots EXCEPT ![p] = slots[p] \cup {i}]
      /\ first' = [first EXCEPT ![p] = FirstAfterUse(slots[p] \cup {i}, @, i)]
      /\ data' = [data EXCEPT ![p][i] = last + 1]
      /\ freelist' \subseteq freelist
      /\ handed' = handed \cup {<<pick[t].ret, last + 1>>}
      /\ UNCHANGED npages
  BY Zenon DEF add_store, remove_from_free_list
<1>5. LocalOK'
  BY <1>1, VecAssumption, SMTT(30) DEF LocalOK, add_store, Picked
<1> HIDE DEF p, i
<1>6. /\ data' \in [Page -> [Pos -> 0 .. MaxRecords]]
      /\ last' \in 0 .. MaxRecords /\ last + 1 \in Record
  BY <1>1, <1>2, <1>4, WriteData, Zenon
<1>7. FileOK'
  BY <1>1, <1>2, <1>4, <1>6, SetStep, Zenon
<1>8. HeaderOK' /\ ClientOK'
  BY <1>1, <1>3, <1>4, <1>6, SMTT(30) DEF HeaderOK, ClientOK
<1>9. QED
  BY <1>5, <1>7, <1>8, VecParts2, Zenon

\* The vector keeps its types and its hints, whatever is called.
LEMMA VecInvariant == Spec => []VecInv
<1>1. Init => VecInv
  BY VecAssumption, SMTT(30) DEF Init, VecInv, TypeOK, Hints, Picked, Pos
<1>2. VecInv /\ [Next]_vars => VecInv'
  <2> SUFFICES ASSUME VecInv, [Next]_vars PROVE VecInv'
    BY Zenon
  <2>1. CASE Next
    BY <2>1, AppendStep, StoreStep, TakeStep, FillStep, AddChooseStep, AddFindStep, AddStoreStep, EraseStep, Zenon DEF Next
  <2>2. CASE UNCHANGED vars
    BY <2>2, Zenon DEF vars, file, header, local, VecInv, TypeOK, Hints, Picked
  <2>3. QED
    BY <2>1, <2>2, Zenon
<1>3. QED
  BY <1>1, <1>2, PTL DEF Spec

\* At most one thread uses the vector.
Alone == \A t \in Thread, u \in Thread : t = u

\* bchunk::first_available finds a slot in every chunk that is not full: first_
\* never passes a free slot, for any chunk size and number of chunks and any
\* sequence of append, store, add and erase of one thread. (bchunk::set tests and
\* assigns first_ without a mutex: of several threads this is not claimed.)
THEOREM HintTheorem ==
    ASSUME Alone
    PROVE  Spec => [](TypeOK /\ HintSafe)
<1>1. VecInv => TypeOK /\ HintSafe
  <2> SUFFICES ASSUME VecInv, NEW p \in 1 .. npages, NEW i \in Pos, i < first[p]
               PROVE  i \in slots[p]
    BY Zenon DEF VecInv, HintSafe
  <2>1. p \in Page
    BY VecAssumption, SMTT(30) DEF VecInv, TypeOK, Page
  <2>2. QED
    BY <2>1, Zenon DEF VecInv, Hints
<1>2. QED
  BY <1>1, VecInvariant, PTL

-----------------------------------------------------------------------------
\* What callers do is theirs to decide once and for all.
LEMMA SameOps == [Next]_vars => ops' = ops
<1> SUFFICES ASSUME [Next]_vars PROVE ops' = ops
  BY Zenon
<1>1. CASE UNCHANGED vars
  BY <1>1, Zenon DEF vars, local
<1>2. CASE \E t \in Thread : \E h \in handed : erase(t, h)
  BY <1>2, Zenon DEF erase, local
<1>3. CASE \E t \in Thread : append_choose(t) \/ store_choose(t)
  BY <1>3, Zenon DEF append_choose, store_choose, Choose
<1>4. CASE \E t \in Thread : take_slot(t) \/ fill(t) \/ add_choose(t) \/ add_find(t) \/ add_store(t)
  BY <1>4, Zenon DEF take_slot, fill, add_choose, add_find, add_store
<1> QED BY <1>1, <1>2, <1>3, <1>4, Zenon DEF Next

\* One thread that only appends and stores fills the chunks one after the
\* other: only the last one has free slots, all of them behind first_, and the
\* counter and the free list say just that.
Chunks ==
    /\ \A p \in 1 .. npages : slots[p] = 0 .. first[p] - 1
    /\ \A p \in 1 .. npages : p < npages => first[p] = PerChunk
Header ==
    /\ npages = 0 => available = 0 /\ freelist = {}
    /\ npages > 0 => /\ available = PerChunk - first[npages]
                    /\ freelist = IF first[npages] = PerChunk THEN {} ELSE {npages}
Calls ==
    \A t \in Thread :
        /\ pc[t] \notin {"adding", "found"}
        /\ pc[t] \in {"chosen", "picked"} => npages > 0 /\ chk[t] = npages /\ first[npages] < PerChunk
        /\ pc[t] = "picked" => /\ pick[t].pos = first[npages]
                              /\ pick[t].ret = (npages - 1) * PerChunk + first[npages]
Handed ==
    \A h \in handed :
        \E p \in 1 .. npages, i \in Pos :
            i < first[p] /\ h[1] = (p - 1) * PerChunk + i /\ data[p][i] = h[2]

Compact == VecInv /\ Chunks /\ Header /\ Calls /\ Handed /\ ops \cap {"add", "erase"} = {}

\* The chunk is full exactly when first_ has reached its end.
LEMMA FullChunk ==
    ASSUME FileOK, Chunks, npages > 0
    PROVE  /\ npages \in Page /\ first[npages] \in 0 .. PerChunk
           /\ FullWith(slots[npages]) <=> first[npages] = PerChunk
<1>1. npages \in Page /\ npages \in 1 .. npages /\ PerChunk \in Nat \ {0}
  BY VecAssumption, SMTT(30) DEF FileOK, Page
<1>2. first[npages] \in 0 .. PerChunk /\ slots[npages] = 0 .. first[npages] - 1
  BY <1>1, Zenon DEF FileOK, Chunks
<1>3. (0 .. first[npages] - 1 = 0 .. PerChunk - 1) <=> first[npages] = PerChunk
  <2>1. ASSUME first[npages] # PerChunk PROVE 0 .. first[npages] - 1 # 0 .. PerChunk - 1
    <3>1. first[npages] \in 0 .. PerChunk - 1
      BY <1>1, <1>2, <2>1, SMTT(30)
    <3>2. first[npages] \notin 0 .. first[npages] - 1
      BY <1>2, SMTT(30)
    <3>3. QED
      BY <3>1, <3>2, Zenon
  <2>2. QED
    BY <2>1, Zenon
<1>4. QED
  BY <1>1, <1>2, <1>3, Zenon DEF FullWith, Pos

\* resize is only called when all chunks are full.
LEMMA ResizeCompact ==
    ASSUME FileOK, Chunks, Header, Handed, CanResize, Resize,
           npages = 0 \/ first[npages] = PerChunk
    PROVE  /\ Chunks' /\ Header' /\ npages' = npages + 1 /\ npages' > 0
           /\ first'[npages'] = 0
           /\ UNCHANGED handed => Handed'
<1>1. npages \in Nat /\ npages + 1 \in Page /\ PerChunk \in Nat \ {0}
  BY VecAssumption, SMTT(30) DEF FileOK, CanResize, Page
<1>2. /\ npages' = npages + 1 /\ first'[npages + 1] = 0 /\ slots'[npages + 1] = {}
      /\ \A p \in 1 .. npages : p \in Page /\ first'[p] = first[p] /\ slots'[p] = slots[p]
      /\ UNCHANGED data
  BY <1>1, VecAssumption, SMTT(30) DEF Resize, FileOK, Page
<1>3. \A p \in 1 .. npages + 1 : p \in 1 .. npages \/ p = npages + 1
  BY <1>1, SMTT(30)
<1>4. ASSUME NEW p \in 1 .. npages + 1 PROVE slots'[p] = 0 .. first'[p] - 1
  <2>1. CASE p \in 1 .. npages
    BY <2>1, <1>2, Zenon DEF Chunks
  <2>2. CASE p = npages + 1
    <3>1. 0 .. first'[p] - 1 = {}
      BY <2>2, <1>2, SMTT(30)
    <3>2. QED
      BY <3>1, <2>2, <1>2, Zenon
  <2>3. QED
    BY <1>3, <2>1, <2>2, Zenon
<1>5. ASSUME NEW p \in 1 .. npages + 1, p < npages + 1 PROVE first'[p] = PerChunk
  <2>1. p \in 1 .. npages
    BY <1>1, <1>5, SMTT(30)
  <2>2. CASE p < npages
    BY <2>1, <2>2, <1>2, Zenon DEF Chunks
  <2>3. CASE p = npages
    BY <2>1, <2>3, <1>1, <1>2, SMTT(30)
  <2>4. QED
    BY <1>1, <2>1, <2>2, <2>3, SMTT(30)
<1>6. Chunks'
  BY <1>2, <1>4, <1>5, Zenon DEF Chunks
<1>7. available = 0 /\ freelist = {}
  BY <1>1, SMTT(30) DEF Header
<1>8. available' = PerChunk /\ freelist' = {npages + 1}
  BY <1>1, <1>7, SMTT(30) DEF Resize
<1>9. Header'
  BY <1>1, <1>2, <1>8, SMTT(30) DEF Header
<1>10. ASSUME UNCHANGED handed PROVE Handed'
  <2> SUFFICES ASSUME NEW h \in handed
               PROVE  \E p \in 1 .. npages', i \in Pos :
                          i < first'[p] /\ h[1] = (p - 1) * PerChunk + i /\ data'[p][i] = h[2]
    BY <1>10, Zenon DEF Handed
  <2>1. PICK p \in 1 .. npages, i \in Pos :
            i < first[p] /\ h[1] = (p - 1) * PerChunk + i /\ data[p][i] = h[2]
    BY Zenon DEF Handed
  <2>2. p \in 1 .. npages'
    BY <1>1, <1>2, SMTT(30)
  <2>3. QED
    BY <1>2, <2>1, <2>2, Zenon
<1>11. QED
  BY <1>1, <1>2, <1>6, <1>9, <1>10, SMTT(30)

\* A thread that has chosen the last chunk, which has a free slot.
LEMMA ChooseCompact ==
    ASSUME Calls, LocalOK, NEW t \in Thread, \A u \in Thread : u = t,
           npages' > 0, first'[npages'] < PerChunk, Choose(t, npages')
    PROVE  Calls'
  BY Zenon DEF Calls, Choose, LocalOK

\* append of a single thread chooses the last chunk, or a new one if that is full.
LEMMA AppendCompact ==
    ASSUME Compact, NEW t \in Thread, \A u \in Thread : u = t, append_choose(t)
    PROVE  Compact'
<1>1. FileOK /\ LocalOK /\ Chunks /\ Header /\ Calls /\ Handed
  BY VecParts, Zenon DEF Compact
<1>2. VecInv' /\ ops' = ops /\ handed' = handed
  BY AppendStep, Zenon DEF Compact, append_choose, Choose
<1>3. PerChunk \in Nat \ {0} /\ npages \in Nat
  BY <1>1, VecAssumption, SMTT(30) DEF FileOK
<1>4. CASE available = 0 \/ FullWith(slots[npages])
  <2>1. CanResize /\ Resize /\ Choose(t, npages + 1)
    BY <1>4, Zenon DEF append_choose
  <2>2. npages = 0 \/ first[npages] = PerChunk
    BY <1>1, <1>3, <1>4, FullChunk, SMTT(30) DEF Header
  <2>3. /\ Chunks' /\ Header' /\ Handed' /\ npages' = npages + 1 /\ npages' > 0
        /\ first'[npages'] = 0
    BY <1>1, <1>2, <2>1, <2>2, ResizeCompact, Zenon
  <2>4. first'[npages'] < PerChunk /\ Choose(t, npages')
    BY <1>3, <2>1, <2>3, SMTT(30)
  <2>5. Calls'
    BY <1>1, <2>3, <2>4, ChooseCompact, Zenon
  <2>6. QED
    BY <1>2, <2>3, <2>5, Zenon DEF Compact
<1>5. CASE ~ (available = 0 \/ FullWith(slots[npages]))
  <2>1. UNCHANGED <<file, header>> /\ Choose(t, npages)
    BY <1>5, Zenon DEF append_choose
  <2>2. npages > 0 /\ first[npages] < PerChunk
    BY <1>1, <1>3, <1>5, FullChunk, SMTT(30) DEF Header
  <2>3. Chunks' /\ Header' /\ Handed'
    BY <1>1, <1>2, <2>1, Zenon DEF Chunks, Header, Handed, file, header
  <2>4. npages' > 0 /\ first'[npages'] < PerChunk /\ Choose(t, npages')
    BY <2>1, <2>2, Zenon DEF file
  <2>5. Calls'
    BY <1>1, <2>4, ChooseCompact, Zenon
  <2>6. QED
    BY <1>2, <2>3, <2>5, Zenon DEF Compact
<1>6. QED
  BY <1>4, <1>5, Zenon

\* store of a single thread does so, too.
LEMMA StoreCompact ==
    ASSUME Compact, NEW t \in Thread, \A u \in Thread : u = t, store_choose(t)
    PROVE  Compact'
<1>1. FileOK /\ LocalOK /\ Chunks /\ Header /\ Calls /\ Handed
  BY VecParts, Zenon DEF Compact
<1>2. VecInv' /\ ops' = ops /\ handed' = handed
  BY StoreStep, Zenon DEF Compact, store_choose, Choose
<1>3. PerChunk \in Nat \ {0} /\ npages \in Nat
  BY <1>1, VecAssumption, SMTT(30) DEF FileOK
<1>4. CASE available = 0
  <2>1. CanResize /\ Resize /\ Choose(t, npages + 1)
    BY <1>4, Zenon DEF store_choose
  <2>2. npages = 0 \/ first[npages] = PerChunk
    BY <1>1, <1>3, <1>4, FullChunk, SMTT(30) DEF Header
  <2>3. /\ Chunks' /\ Header' /\ Handed' /\ npages' = npages + 1 /\ npages' > 0
        /\ first'[npages'] = 0
    BY <1>1, <1>2, <2>1, <2>2, ResizeCompact, Zenon
  <2>4. first'[npages'] < PerChunk /\ Choose(t, npages')
    BY <1>3, <2>1, <2>3, SMTT(30)
  <2>5. Calls'
    BY <1>1, <2>3, <2>4, ChooseCompact, Zenon
  <2>6. QED
    BY <1>2, <2>3, <2>5, Zenon DEF Compact
<1>5. CASE available # 0
  <2>1. npages > 0 /\ first[npages] < PerChunk /\ freelist = {npages}
    BY <1>1, <1>3, <1>5, FullChunk, SMTT(30) DEF Header
  <2>2. Min(freelist) = npages
    <3>1. freelist \subseteq Nat /\ freelist # {}
      BY <1>3, <2>1, Zenon
    <3>2. QED
      BY <2>1, <3>1, MinOfNats, Zenon
  <2>3. UNCHANGED <<file, header>> /\ Choose(t, npages)
    BY <1>5, <2>1, <2>2, Zenon DEF store_choose
  <2>4. Chunks' /\ Header' /\ Handed'
    BY <1>1, <1>2, <2>3, Zenon DEF Chunks, Header, Handed, file, header
  <2>5. npages' > 0 /\ first'[npages'] < PerChunk /\ Choose(t, npages')
    BY <2>1, <2>3, Zenon DEF file
  <2>6. Calls'
    BY <1>1, <2>5, ChooseCompact, Zenon
  <2>7. QED
    BY <1>2, <2>4, <2>6, Zenon DEF Compact
<1>6. QED
  BY <1>4, <1>5, Zenon

\* Only the last chunk has free slots, as many as there are behind first_.
LEMMA CompactHeader ==
    ASSUME FileOK, Chunks, Header, npages > 0
    PROVE  /\ available = Cardinality(FreeSlots)
           /\ freelist = {p \in 1 .. npages : ~ FullWith(slots[p])}
<1>1. PICK f : f = first[npages]
  BY Zenon
<1>2. /\ npages \in Nat /\ npages \in 1 .. npages /\ PerChunk \in Nat \ {0} /\ f \in 0 .. PerChunk
      /\ slots[npages] = 0 .. f - 1 /\ (FullWith(slots[npages]) <=> f = PerChunk)
      /\ available = PerChunk - f /\ freelist = IF f = PerChunk THEN {} ELSE {npages}
  <2>1. npages \in Nat /\ npages \in 1 .. npages /\ PerChunk \in Nat \ {0}
    BY VecAssumption, SMTT(30) DEF FileOK
  <2> QED BY <1>1, <2>1, FullChunk, Zenon DEF Chunks, Header
<1>3. \A p \in 1 .. npages : p # npages => slots[p] = Pos
  <2>1. \A p \in 1 .. npages : p # npages => p < npages
    BY <1>2, SMTT(30)
  <2> QED BY <2>1, Zenon DEF Chunks, Pos
<1>4. freelist = {p \in 1 .. npages : ~ FullWith(slots[p])}
  BY <1>2, <1>3, Zenon DEF FullWith
<1>5. PICK g : g = [k \in f .. PerChunk - 1 |-> <<npages, k>>]
  BY Zenon
<1>6. ASSUME NEW s
      PROVE  s \in FreeSlots <=> \E k \in f .. PerChunk - 1 : s = <<npages, k>>
  <2>1. ASSUME s \in FreeSlots PROVE \E k \in f .. PerChunk - 1 : s = <<npages, k>>
    <3>1. s = <<s[1], s[2]>> /\ s[1] \in 1 .. npages /\ s[2] \in Pos /\ s[2] \notin slots[s[1]]
      BY <2>1, SMTT(30) DEF FreeSlots
    <3>2. s[1] = npages
      BY <1>3, <3>1, Zenon
    <3>3. s[2] \in f .. PerChunk - 1
      BY <1>2, <3>1, <3>2, SMTT(30) DEF Pos
    <3> QED BY <3>1, <3>2, <3>3, Zenon
  <2>2. ASSUME NEW k \in f .. PerChunk - 1, s = <<npages, k>> PROVE s \in FreeSlots
    <3>1. k \in Pos /\ k \notin slots[npages]
      BY <1>2, SMTT(30) DEF Pos
    <3> QED BY <1>2, <2>2, <3>1, Zenon DEF FreeSlots
  <2> QED BY <2>1, <2>2, Zenon
<1>7. g \in Bijection(f .. PerChunk - 1, FreeSlots)
  <2>1. g \in [f .. PerChunk - 1 -> FreeSlots]
    BY <1>5, <1>6, Zenon
  <2>2. \A a \in f .. PerChunk - 1, b \in f .. PerChunk - 1 : g[a] = g[b] => a = b
    BY <1>5, Zenon
  <2>3. \A s \in FreeSlots : \E k \in f .. PerChunk - 1 : g[k] = s
    BY <1>5, <1>6, Zenon
  <2> QED BY <2>1, <2>2, <2>3, Zenon DEF Bijection, Injection, Surjection, IsInjective
<1>8. IsFiniteSet(f .. PerChunk - 1) /\ Cardinality(f .. PerChunk - 1) = PerChunk - f
  BY <1>2, FS_Interval, SMTT(30)
<1>9. Cardinality(FreeSlots) = PerChunk - f
  BY <1>7, <1>8, FS_Bijection, Zenon DEF ExistsBijection
<1> QED BY <1>2, <1>4, <1>9, Zenon

\* first_ itself is the first free slot.
LEMMA FirstIsFree ==
    ASSUME NEW f \in 0 .. PerChunk, f < PerChunk
    PROVE  first_available(0 .. f - 1, f) = f /\ FirstAfterUse((0 .. f - 1) \cup {f}, f, f) = f + 1
<1> DEFINE M == {i \in Pos : f <= i /\ i \notin 0 .. f - 1} \cup {PerChunk}
           N == {j \in Pos : j > f /\ j \notin (0 .. f - 1) \cup {f}} \cup {PerChunk}
<1>1. f \in Nat /\ PerChunk \in Nat /\ f \in Pos
  BY VecAssumption, SMTT(30) DEF Pos
<1>2. M \subseteq Nat /\ f \in M /\ \A x \in M : f <= x
  BY <1>1, SMTT(30) DEF Pos
<1>3. N \subseteq Nat /\ f + 1 \in N /\ \A x \in N : f + 1 <= x
  BY <1>1, SMTT(30) DEF Pos
<1>4. Min(M) = f
  <2> HIDE DEF M
  <2>1. M # {}
    BY <1>2, Zenon
  <2>2. Min(M) \in M /\ \A x \in M : Min(M) <= x
    BY <1>2, <2>1, MinOfNats, Zenon
  <2>3. Min(M) \in Nat /\ Min(M) <= f /\ f <= Min(M)
    BY <1>2, <2>2, Zenon
  <2>4. QED
    BY <1>1, <2>3, SMTT(30)
<1>5. Min(N) = f + 1
  <2> HIDE DEF N
  <2>1. N # {}
    BY <1>3, Zenon
  <2>2. Min(N) \in N /\ \A x \in N : Min(N) <= x
    BY <1>3, <2>1, MinOfNats, Zenon
  <2>3. Min(N) \in Nat /\ Min(N) <= f + 1 /\ f + 1 <= Min(N)
    BY <1>3, <2>2, Zenon
  <2>4. QED
    BY <1>1, <2>3, SMTT(30)
<1>6. QED
  BY <1>4, <1>5, Zenon DEF first_available, FirstAfterUse

\* The slot a single thread takes is the one after the last used one.
LEMMA TakeCompact ==
    ASSUME Compact, NEW t \in Thread, \A u \in Thread : u = t, take_slot(t)
    PROVE  Compact'
<1>1. FileOK /\ LocalOK /\ Chunks /\ Header /\ Calls /\ Handed
  BY VecParts, Zenon DEF Compact
<1>2. VecInv' /\ UNCHANGED <<npages, slots, first, data, available, freelist, chk, handed, ops>>
  BY TakeStep, Zenon DEF Compact, take_slot, file, header
<1>3. npages > 0 /\ chk[t] = npages /\ first[npages] < PerChunk
  BY <1>1, Zenon DEF take_slot, Calls
<1>4. npages \in 1 .. npages /\ first[npages] \in 0 .. PerChunk /\ slots[npages] = 0 .. first[npages] - 1
  BY <1>1, <1>3, FullChunk, SMTT(30) DEF Chunks, FileOK
<1>5. first_available(slots[npages], first[npages]) = first[npages]
  BY <1>3, <1>4, FirstIsFree, Zenon
<1>6. /\ pick' = [pick EXCEPT ![t] = [pos |-> first[npages],
                                     ret |-> (npages - 1) * PerChunk + first[npages]]]
      /\ pc' = [pc EXCEPT ![t] = "picked"]
  BY <1>3, <1>5, Zenon DEF take_slot, Offset
<1>7. /\ pc'[t] = "picked" /\ pick'[t].pos = first[npages]
      /\ pick'[t].ret = (npages - 1) * PerChunk + first[npages]
  BY <1>1, <1>6, Zenon DEF LocalOK
<1>8. Calls'
  BY <1>2, <1>3, <1>7, Zenon DEF Calls
<1>9. Chunks' /\ Header' /\ Handed'
  BY <1>1, <1>2, Zenon DEF Chunks, Header, Handed
<1>10. QED
  BY <1>2, <1>8, <1>9, Zenon DEF Compact

\* Filling it leaves no gap before it.
LEMMA FillCompact ==
    ASSUME Compact, NEW t \in Thread, \A u \in Thread : u = t, fill(t)
    PROVE  Compact'
<1> DEFINE f == first[npages]
<1>1. FileOK /\ LocalOK /\ ClientOK /\ Chunks /\ Header /\ Calls /\ Handed
  BY VecParts, Zenon DEF Compact
<1>2. VecInv' /\ UNCHANGED <<npages, ops>>
  BY FillStep, Zenon DEF Compact, fill
<1>3. /\ npages > 0 /\ chk[t] = npages /\ f < PerChunk
      /\ pick[t].pos = f /\ pick[t].ret = (npages - 1) * PerChunk + f
  BY <1>1, Zenon DEF fill, Calls
<1>4. /\ npages \in 1 .. npages /\ npages \in Page /\ npages \in Nat /\ f \in 0 .. PerChunk /\ f \in Pos
      /\ PerChunk \in Nat \ {0} /\ slots[npages] = 0 .. f - 1
  BY <1>1, <1>3, FullChunk, VecAssumption, SMTT(30) DEF Chunks, FileOK, Pos
<1>5. (0 .. f - 1) \cup {f} = 0 .. f
  BY <1>4, SMTT(30)
<1>6. /\ slots' = [slots EXCEPT ![npages] = 0 .. f]
      /\ first' = [first EXCEPT ![npages] = f + 1]
      /\ data' = [data EXCEPT ![npages][f] = last + 1]
      /\ available' = available - 1
      /\ handed' = handed \cup {<<(npages - 1) * PerChunk + f, last + 1>>}
      /\ pc' = [pc EXCEPT ![t] = "idle"]
  <2>1. FirstAfterUse((0 .. f - 1) \cup {f}, f, f) = f + 1
    BY <1>3, <1>4, FirstIsFree, Zenon
  <2>2. first[npages] = f
    BY Zenon
  <2> HIDE DEF f
  <2>3. first' = [first EXCEPT ![npages] = f + 1]
    BY <1>3, <1>4, <2>1, <2>2, Zenon DEF fill
  <2>4. QED
    BY <1>3, <1>4, <1>5, <2>3, Zenon DEF fill
<1>7. /\ slots'[npages] = 0 .. f /\ first'[npages] = f + 1 /\ data'[npages][f] = last + 1
      /\ \A p \in 1 .. npages : p \in Page /\ (p # npages => /\ slots'[p] = slots[p]
                                                         /\ first'[p] = first[p]
                                                         /\ data'[p] = data[p])
      /\ \A i \in Pos : i < f => data'[npages][i] = data[npages][i]
  <2>1. /\ slots \in [Page -> SUBSET Pos] /\ first \in [Page -> 0 .. PerChunk]
        /\ data \in [Page -> [Pos -> 0 .. MaxRecords]]
        /\ \A p \in 1 .. npages : p \in Page
    BY <1>1, VecAssumption, SMTT(30) DEF FileOK, Page
  <2> HIDE DEF f
  <2>2. /\ slots'[npages] = 0 .. f
        /\ first'[npages] = f + 1
        /\ \A p \in 1 .. npages : p # npages => slots'[p] = slots[p] /\ first'[p] = first[p]
    BY <1>4, <1>6, <2>1, Zenon
  <2>3. /\ data'[npages] = [data[npages] EXCEPT ![f] = last + 1]
        /\ \A p \in 1 .. npages : p # npages => data'[p] = data[p]
    BY <1>4, <1>6, <2>1, Zenon
  <2>4. data'[npages][f] = last + 1 /\ \A i \in Pos : i < f => data'[npages][i] = data[npages][i]
    BY <1>4, <2>1, <2>3, SMTT(30)
  <2>5. QED
    BY <2>1, <2>2, <2>3, <2>4, Zenon
<1>8. freelist' = IF f + 1 = PerChunk THEN {} ELSE {npages}
  <2>1. freelist = {npages}
    BY <1>1, <1>3, <1>4, SMTT(30) DEF Header
  <2>2. pick[t].ret - f = (npages - 1) * PerChunk + 0
    <3>1. PICK q \in Int : q = (npages - 1) * PerChunk
      BY <1>4, SMTT(30)
    <3>2. pick[t].ret = q + f
      BY <1>3, <3>1, Zenon
    <3>3. pick[t].ret - f = q + 0
      BY <1>4, <3>1, <3>2, SMTT(30)
    <3>4. QED
      BY <3>1, <3>3, Zenon
  <2>3. 0 \in Pos
    BY <1>4, SMTT(30) DEF Pos
  <2>4. PageOf((npages - 1) * PerChunk + 0) = npages
    BY <1>3, <1>4, <2>3, Position, SMTT(30)
  <2>5. remove_from_free_list(pick[t].ret - f) = {}
    BY <2>1, <2>2, <2>4, Zenon DEF remove_from_free_list
  <2>6. FullWith(0 .. f) <=> f + 1 = PerChunk
    <3>1. ASSUME f + 1 # PerChunk PROVE ~ FullWith(0 .. f)
      <4>1. f + 1 \in Pos /\ f + 1 \notin 0 .. f
        BY <1>3, <1>4, <3>1, SMTT(30) DEF Pos
      <4>2. QED
        BY <4>1, Zenon DEF FullWith
    <3>2. ASSUME f + 1 = PerChunk PROVE FullWith(0 .. f)
      <4>1. PerChunk - 1 = f
        BY <1>4, <3>2, SMTT(30)
      <4>2. QED
        BY <4>1, Zenon DEF FullWith, Pos
    <3>3. QED
      BY <3>1, <3>2, Zenon
  <2>7. freelist' = IF FullWith(0 .. f) THEN remove_from_free_list(pick[t].ret - f) ELSE freelist
    BY <1>3, <1>4, <1>5, Zenon DEF fill
  <2>8. QED
    BY <2>1, <2>5, <2>6, <2>7, Zenon
<1>9. Chunks'
  <2>1. f + 1 - 1 = f
    BY <1>4, SMTT(30)
  <2>2. QED
    BY <1>1, <1>2, <1>4, <1>7, <2>1, SMTT(30) DEF Chunks
<1>10. Header'
  <2>1. available = PerChunk - f
    BY <1>1, <1>3, Zenon DEF Header
  <2>2. available' = PerChunk - (f + 1)
    BY <1>4, <1>6, <2>1, SMTT(30)
  <2>3. QED
    BY <1>2, <1>3, <1>7, <1>8, <2>2, SMTT(30) DEF Header
<1>11. Calls'
  BY <1>1, <1>6, Zenon DEF Calls, LocalOK
<1>12. Handed'
  <2> SUFFICES ASSUME NEW h \in handed'
               PROVE  \E p \in 1 .. npages, i \in Pos :
                          i < first'[p] /\ h[1] = (p - 1) * PerChunk + i /\ data'[p][i] = h[2]
    BY <1>2, Zenon DEF Handed
  <2>1. CASE h = <<(npages - 1) * PerChunk + f, last + 1>>
    <3>1. f < first'[npages]
      BY <1>4, <1>7, SMTT(30)
    <3>2. QED
      BY <2>1, <3>1, <1>4, <1>7, Zenon
  <2>2. CASE h \in handed
    <3>1. PICK p \in 1 .. npages, i \in Pos :
              i < first[p] /\ h[1] = (p - 1) * PerChunk + i /\ data[p][i] = h[2]
      BY <1>1, <2>2, Zenon DEF Handed
    <3>2. CASE p = npages
      <4>1. i < first'[p] /\ data'[p][i] = h[2]
        BY <3>1, <3>2, <1>4, <1>7, SMTT(30) DEF Pos
      <4>2. QED
        BY <3>1, <4>1, Zenon
    <3>3. CASE p # npages
      BY <3>1, <3>3, <1>7, SMTT(30)
    <3>4. QED
      BY <3>2, <3>3, Zenon
  <2>3. QED
    BY <2>1, <2>2, <1>6, Zenon
<1>13. QED
  BY <1>2, <1>9, <1>10, <1>11, <1>12, Zenon DEF Compact

\* The invariant of one thread that only appends and stores is inductive.
LEMMA CompactNext ==
    ASSUME Compact, [Next]_vars, Alone
    PROVE  Compact'
<1>1. CASE Next
  <2>1. "add" \notin ops /\ "erase" \notin ops /\ Calls
    BY Zenon DEF Compact
  <2>2. \A t \in Thread : \A h \in handed : ~ erase(t, h)
    BY <2>1, Zenon DEF erase
  <2>3. PICK t \in Thread : \/ append_choose(t) \/ store_choose(t) \/ take_slot(t) \/ fill(t)
                            \/ add_choose(t) \/ add_find(t) \/ add_store(t)
    BY <1>1, <2>2, Zenon DEF Next
  <2>4. ~ add_choose(t) /\ ~ add_find(t) /\ ~ add_store(t)
    BY <2>1, Zenon DEF add_choose, add_find, add_store, Calls
  <2>5. \A u \in Thread : u = t
    BY Zenon DEF Alone
  <2>6. QED
    BY <2>3, <2>4, <2>5, AppendCompact, StoreCompact, TakeCompact, FillCompact, Zenon
<1>2. CASE UNCHANGED vars
  BY <1>2, SMTT(30) DEF vars, file, header, local, Compact, VecInv, TypeOK, Hints, Picked, Chunks, Header, Calls, Handed
<1>3. QED
  BY <1>1, <1>2, Zenon

\* Nothing else happens to callers that only append and store.
Inserting == Alone /\ ops \cap {"add", "erase"} = {}
LEMMA CompactInvariant == Spec => [](Inserting => Compact)
<1>1. Init => (Inserting => Compact)
  <2> SUFFICES ASSUME Init, Inserting PROVE Compact
    BY Zenon
  <2>1. VecInv
    BY VecAssumption, SMTT(30) DEF Init, VecInv, TypeOK, Hints, Picked, Pos
  <2>2. Chunks /\ Header /\ Calls /\ Handed
    BY SMTT(30) DEF Init, Chunks, Header, Calls, Handed
  <2> QED BY <2>1, <2>2, Zenon DEF Compact, Inserting
<1>2. (Inserting => Compact) /\ [Next]_vars => (Inserting => Compact)'
  <2> SUFFICES ASSUME Inserting => Compact, [Next]_vars, Inserting' PROVE Compact'
    BY Zenon
  <2>1. Inserting
    BY SameOps, Zenon DEF Inserting, Alone
  <2> QED BY <2>1, CompactNext, Zenon DEF Inserting
<1>3. QED
  BY <1>1, <1>2, PTL DEF Spec

-----------------------------------------------------------------------------
\* One thread that never calls store may erase. A record that is handed out is in
\* a used slot, and no two are in the same ...
Places ==
    \A h \in handed :
        \E p \in 1 .. npages, i \in Pos :
            h[1] = (p - 1) * PerChunk + i /\ i \in slots[p] /\ data[p][i] = h[2]
Distinct == \A g \in handed, h \in handed : g[1] = h[1] => g = h

\* ... the free list has pages of the file only, and the counter is 0 before
\* there is one ...
Listed == freelist \subseteq 1 .. npages /\ (npages = 0 => available = 0)

\* ... and append is working on a free slot of the last chunk, add on a free slot
\* of some chunk.
Room ==
    \A t \in Thread :
        /\ pc[t] \in {"chosen", "picked"} => /\ npages > 0 /\ chk[t] = npages
                                            /\ ~ FullWith(slots[npages])
        /\ pc[t] = "picked" => /\ pick[t].pos \in Pos \ slots[npages]
                              /\ pick[t].ret = (npages - 1) * PerChunk + pick[t].pos
        /\ pc[t] = "found" => \E p \in 1 .. npages, i \in Pos :
                                 pick[t].ret = (p - 1) * PerChunk + i /\ i \notin slots[p]

NoStore == Alone /\ "store" \notin ops
Kept == VecInv /\ Places /\ Distinct /\ Listed /\ Room

\* first_available returns a free slot if the chunk has one.
LEMMA FreeFound ==
    ASSUME NEW S \in SUBSET Pos, NEW f \in 0 .. PerChunk, \A j \in Pos : j < f => j \in S,
           ~ FullWith(S) \/ first_available(S, f) \in Pos
    PROVE  first_available(S, f) \in Pos \ S
<1> DEFINE M == {i \in Pos : f <= i /\ i \notin S} \cup {PerChunk}
<1>1. M \subseteq Nat /\ M # {} /\ PerChunk \in Nat /\ PerChunk \notin Pos
  BY VecAssumption, SMTT(30) DEF Pos
<1>2. Min(M) \in M /\ \A x \in M : Min(M) <= x
  BY <1>1, MinOfNats, Zenon
<1>3. Min(M) # PerChunk
  <2>1. CASE ~ FullWith(S)
    <3>1. PICK j \in Pos : j \notin S
      BY <2>1, Zenon DEF FullWith
    <3>2. j \in M /\ j < PerChunk /\ j \in Nat
      BY <3>1, VecAssumption, SMTT(30) DEF Pos
    <3> QED BY <1>1, <1>2, <3>2, SMTT(30)
  <2>2. CASE first_available(S, f) \in Pos
    BY <1>1, <2>2, Zenon DEF first_available
  <2> QED BY <2>1, <2>2, Zenon
<1> QED BY <1>1, <1>2, <1>3, Zenon DEF first_available

\* A new chunk, empty and the last one, changes nothing for the records.
LEMMA ResizeKept ==
    ASSUME FileOK, Places, Distinct, Listed, CanResize, Resize, UNCHANGED handed
    PROVE  /\ Places' /\ Distinct' /\ Listed' /\ npages' = npages + 1 /\ npages' > 0
           /\ ~ FullWith(slots'[npages'])
<1>1. npages \in Nat /\ npages + 1 \in Page /\ PerChunk \in Nat \ {0}
  BY VecAssumption, SMTT(30) DEF FileOK, CanResize, Page
<1>2. /\ npages' = npages + 1 /\ slots'[npages + 1] = {}
      /\ \A p \in 1 .. npages : p \in 1 .. npages + 1 /\ slots'[p] = slots[p]
      /\ data' = data /\ freelist' = freelist \cup {npages + 1}
  BY <1>1, VecAssumption, SMTT(30) DEF Resize, FileOK, Page
<1>3. 0 \in Pos
  BY <1>1, SMTT(30) DEF Pos
<1>4. Places'
  <2> SUFFICES ASSUME NEW h \in handed
               PROVE  \E p \in 1 .. npages', i \in Pos :
                          h[1] = (p - 1) * PerChunk + i /\ i \in slots'[p] /\ data'[p][i] = h[2]
    BY Zenon DEF Places
  <2>1. PICK p \in 1 .. npages, i \in Pos :
            h[1] = (p - 1) * PerChunk + i /\ i \in slots[p] /\ data[p][i] = h[2]
    BY Zenon DEF Places
  <2> QED BY <1>2, <2>1, Zenon
<1>5. Listed'
  <2>1. freelist' \subseteq 1 .. npages + 1 /\ npages + 1 # 0
    BY <1>1, <1>2, SMTT(30) DEF Listed
  <2> QED BY <1>2, <2>1, Zenon DEF Listed
<1>6. npages' > 0
  BY <1>1, <1>2, SMTT(30)
<1> QED BY <1>2, <1>3, <1>4, <1>5, <1>6, Zenon DEF Distinct, FullWith

\* A new record goes into a free slot.
LEMMA PutKept ==
    ASSUME FileOK, Places, Distinct, NEW STATE p, p \in 1 .. npages, NEW STATE i, i \in Pos \ slots[p],
           UNCHANGED npages, slots' = [slots EXCEPT ![p] = slots[p] \cup {i}],
           data' = [data EXCEPT ![p][i] = last + 1],
           handed' = handed \cup {<<(p - 1) * PerChunk + i, last + 1>>}
    PROVE  Places' /\ Distinct'
<1>0. PICK new : new = <<(p - 1) * PerChunk + i, last + 1>>
  BY Zenon
<1>1. \A q \in 1 .. npages : q \in Page /\ q \in Nat \ {0}
  BY VecAssumption, SMTT(30) DEF FileOK, Page
<1>2. slots \in [Page -> SUBSET Pos] /\ data \in [Page -> [Pos -> 0 .. MaxRecords]]
  BY Zenon DEF FileOK
<1>3. /\ slots'[p] = slots[p] \cup {i} /\ data'[p] = [data[p] EXCEPT ![i] = last + 1]
      /\ \A q \in 1 .. npages : q # p => slots'[q] = slots[q] /\ data'[q] = data[q]
  BY <1>1, <1>2, Zenon
<1>4. data'[p][i] = last + 1 /\ \A j \in Pos : j # i => data'[p][j] = data[p][j]
  BY <1>1, <1>2, <1>3, Zenon
<1>5. new[1] = (p - 1) * PerChunk + i /\ new[2] = last + 1 /\ handed' = handed \cup {new}
  BY <1>0, Zenon
<1>6. ASSUME NEW h \in handed
      PROVE  /\ h[1] # new[1]
             /\ \E q \in 1 .. npages', j \in Pos :
                    h[1] = (q - 1) * PerChunk + j /\ j \in slots'[q] /\ data'[q][j] = h[2]
  <2>1. PICK q \in 1 .. npages, j \in Pos :
            h[1] = (q - 1) * PerChunk + j /\ j \in slots[q] /\ data[q][j] = h[2]
    BY Zenon DEF Places
  <2>2. /\ PageOf(h[1]) = q /\ PosOf(h[1]) = j
        /\ PageOf(new[1]) = p /\ PosOf(new[1]) = i
    BY <1>1, <1>5, <2>1, Position, Zenon
  <2>3. ~ (q = p /\ j = i)
    BY <2>1, Zenon
  <2>4. j \in slots'[q] /\ data'[q][j] = h[2]
    BY <1>3, <1>4, <2>1, <2>3, Zenon
  <2> QED BY <2>1, <2>2, <2>3, <2>4, Zenon
<1>7. \E q \in 1 .. npages', j \in Pos :
          new[1] = (q - 1) * PerChunk + j /\ j \in slots'[q] /\ data'[q][j] = new[2]
  <2>1. p \in 1 .. npages' /\ i \in Pos /\ i \in slots'[p] /\ data'[p][i] = new[2]
    BY <1>3, <1>4, <1>5, Zenon
  <2> QED BY <1>5, <2>1, Zenon
<1>8. Places'
  <2> SUFFICES ASSUME NEW h \in handed'
               PROVE  \E q \in 1 .. npages', j \in Pos :
                          h[1] = (q - 1) * PerChunk + j /\ j \in slots'[q] /\ data'[q][j] = h[2]
    BY Zenon DEF Places
  <2>1. CASE h \in handed
    BY <2>1, <1>6, Zenon
  <2>2. CASE h = new
    BY <2>2, <1>7, Zenon
  <2> QED BY <1>5, <2>1, <2>2, Zenon
<1>9. Distinct'
  BY <1>5, <1>6, Zenon DEF Distinct
<1> QED BY <1>8, <1>9, Zenon

\* Nobody is working on a slot.
LEMMA Others ==
    ASSUME Alone, LocalOK, NEW t \in Thread,
           \E w \in {"idle", "adding"} : pc' = [pc EXCEPT ![t] = w]
    PROVE  Room'
<1>1. pc'[t] \in {"idle", "adding"}
  BY Zenon DEF LocalOK
<1>2. \A u \in Thread : pc'[u] \in {"idle", "adding"}
  BY <1>1, Zenon DEF Alone
<1> QED BY <1>2, Zenon DEF Room

\* append chooses the last chunk when it has room, or a new one.
LEMMA AppendKept ==
    ASSUME Kept, NoStore, NEW t \in Thread, append_choose(t)
    PROVE  Kept'
<1>1. FileOK /\ LocalOK /\ Places /\ Distinct /\ Listed /\ Room
  BY VecParts, Zenon DEF Kept
<1>2. VecInv'
  BY AppendStep, Zenon DEF Kept
<1>3. Alone /\ npages \in Nat /\ pc \in [Thread -> {"idle", "chosen", "picked", "adding", "found"}]
      /\ chk \in [Thread -> 0 .. MaxPages]
  BY <1>1, VecAssumption, SMTT(30) DEF NoStore, append_choose, FileOK, LocalOK
<1>4. \E p : Choose(t, p) /\ /\ Places' /\ Distinct' /\ Listed' /\ npages' > 0 /\ p = npages'
                             /\ ~ FullWith(slots'[npages'])
  <2>1. CASE CanResize /\ Resize /\ Choose(t, npages + 1)
    <3>1. UNCHANGED handed
      BY <2>1, Zenon DEF Choose
    <3> QED BY <1>1, <2>1, <3>1, ResizeKept, Zenon
  <2>2. CASE /\ UNCHANGED <<file, header>> /\ Choose(t, npages)
             /\ available # 0 /\ ~ FullWith(slots[npages])
    <3>1. UNCHANGED <<npages, slots, data, available, freelist, handed>>
      BY <2>2, Zenon DEF file, header, Choose
    <3>2. Places' /\ Distinct' /\ Listed'
      BY <1>1, <3>1, Zenon DEF Places, Distinct, Listed
    <3>3. npages > 0
      BY <1>1, <1>3, <2>2, SMTT(30) DEF Listed
    <3> QED BY <2>2, <3>1, <3>2, <3>3, Zenon
  <2> QED BY <2>1, <2>2, Zenon DEF append_choose
<1>5. PICK p : Choose(t, p) /\ /\ Places' /\ Distinct' /\ Listed' /\ npages' > 0 /\ p = npages'
                               /\ ~ FullWith(slots'[npages'])
  BY <1>4, Zenon
<1>6. pc'[t] = "chosen" /\ chk'[t] = npages' /\ \A u \in Thread : u = t
  BY <1>3, <1>5, Zenon DEF Choose, Alone
<1>7. Room'
  BY <1>3, <1>5, <1>6, Zenon DEF Room, Alone
<1> QED BY <1>2, <1>5, <1>7, Zenon DEF Kept

\* The search ends at a free slot of the last chunk.
LEMMA TakeKept ==
    ASSUME Kept, NoStore, NEW t \in Thread, take_slot(t)
    PROVE  Kept'
<1>1. FileOK /\ LocalOK /\ Places /\ Distinct /\ Listed /\ Room
  BY VecParts, Zenon DEF Kept
<1>2. VecInv' /\ UNCHANGED <<npages, slots, first, data, available, freelist, chk, handed>>
  BY TakeStep, Zenon DEF Kept, take_slot, file, header
<1>3. Alone /\ npages > 0 /\ chk[t] = npages /\ ~ FullWith(slots[npages])
  BY <1>1, Zenon DEF NoStore, Room, take_slot
<1>4. npages \in Page
  BY <1>1, <1>3, VecAssumption, SMTT(30) DEF FileOK, Page
<1>5. /\ slots[npages] \in SUBSET Pos /\ first[npages] \in 0 .. PerChunk
      /\ \A j \in Pos : j < first[npages] => j \in slots[npages]
  BY <1>1, <1>4, Zenon DEF FileOK, Hints
<1>6. PICK i : i = first_available(slots[npages], first[npages])
  BY Zenon
<1>7. i \in Pos \ slots[npages]
  BY <1>3, <1>5, <1>6, FreeFound, Zenon
<1>8. /\ pick' = [pick EXCEPT ![t] = [pos |-> i, ret |-> (npages - 1) * PerChunk + i]]
      /\ pc' = [pc EXCEPT ![t] = "picked"]
  BY <1>3, <1>6, Zenon DEF take_slot, Offset
<1>9. /\ pc'[t] = "picked" /\ pick'[t].pos = i /\ pick'[t].ret = (npages - 1) * PerChunk + i
      /\ \A u \in Thread : u = t
  BY <1>1, <1>3, <1>8, Zenon DEF LocalOK, Alone
<1>10. Room'
  BY <1>2, <1>3, <1>7, <1>9, Zenon DEF Room, Alone
<1>11. Places' /\ Distinct' /\ Listed'
  BY <1>1, <1>2, Zenon DEF Places, Distinct, Listed
<1> QED BY <1>2, <1>10, <1>11, Zenon DEF Kept

\* append puts its record there.
LEMMA FillKept ==
    ASSUME Kept, NoStore, NEW t \in Thread, fill(t)
    PROVE  Kept'
<1>1. FileOK /\ LocalOK /\ Places /\ Distinct /\ Listed /\ Room
  BY VecParts, Zenon DEF Kept
<1>2. VecInv'
  BY FillStep, Zenon DEF Kept
<1>3. /\ Alone /\ npages > 0 /\ chk[t] = npages
      /\ pick[t].pos \in Pos \ slots[npages] /\ pick[t].ret = (npages - 1) * PerChunk + pick[t].pos
  BY <1>1, Zenon DEF NoStore, Room, fill
<1>4. npages \in 1 .. npages /\ npages # 0
  BY <1>1, <1>3, VecAssumption, SMTT(30) DEF FileOK
<1>5. PICK i : i = pick[t].pos
  BY Zenon
<1>6. /\ UNCHANGED npages /\ freelist' \subseteq freelist
      /\ slots' = [slots EXCEPT ![npages] = slots[npages] \cup {i}]
      /\ data' = [data EXCEPT ![npages][i] = last + 1]
      /\ handed' = handed \cup {<<(npages - 1) * PerChunk + i, last + 1>>}
      /\ pc' = [pc EXCEPT ![t] = "idle"]
  BY <1>3, <1>5, Zenon DEF fill, remove_from_free_list
<1>7. Places' /\ Distinct'
  BY <1>1, <1>3, <1>4, <1>5, <1>6, PutKept, Zenon
<1>8. Listed'
  BY <1>1, <1>4, <1>6, Zenon DEF Listed
<1>9. Room'
  BY <1>1, <1>3, <1>6, Others, Zenon
<1> QED BY <1>2, <1>7, <1>8, <1>9, Zenon DEF Kept

\* add, up to the choice of a slot, may add a chunk.
LEMMA AddKept ==
    ASSUME Kept, NoStore, NEW t \in Thread, add_choose(t)
    PROVE  Kept'
<1>1. FileOK /\ LocalOK /\ Places /\ Distinct /\ Listed /\ Room
  BY VecParts, Zenon DEF Kept
<1>2. VecInv' /\ handed' = handed /\ pc' = [pc EXCEPT ![t] = "adding"] /\ pc[t] = "idle"
  BY AddChooseStep, Zenon DEF Kept, add_choose
<1>3. Places' /\ Distinct' /\ Listed'
  <2>1. CASE CanResize /\ Resize
    BY <1>1, <1>2, <2>1, ResizeKept, Zenon
  <2>2. CASE UNCHANGED <<file, header>>
    <3>1. UNCHANGED <<npages, slots, data, available, freelist, handed>>
      BY <1>2, <2>2, Zenon DEF file, header
    <3> QED BY <1>1, <3>1, Zenon DEF Places, Distinct, Listed
  <2> QED BY <2>1, <2>2, Zenon DEF add_choose
<1>4. Room'
  BY <1>1, <1>2, Others, Zenon DEF NoStore
<1> QED BY <1>2, <1>3, <1>4, Zenon DEF Kept

\* first_available of the vector returns the position of a free slot.
LEMMA FindKept ==
    ASSUME Kept, NoStore, NEW t \in Thread, add_find(t)
    PROVE  Kept'
<1>1. FileOK /\ HeaderOK /\ LocalOK /\ Places /\ Distinct /\ Listed
  BY VecParts, Zenon DEF Kept
<1>2. VecInv' /\ UNCHANGED <<npages, slots, data, available, freelist, handed>>
  BY AddFindStep, Zenon DEF Kept, add_find, file, header
<1>3. PICK p : p = Min(freelist)
  BY Zenon
<1>4. p \in 1 .. npages /\ p \in Page
  BY <1>1, <1>3, FreeListMin, Zenon DEF add_find, Listed
<1>5. /\ slots[p] \in SUBSET Pos /\ first[p] \in 0 .. PerChunk
      /\ \A j \in Pos : j < first[p] => j \in slots[p]
  BY <1>1, <1>4, Zenon DEF FileOK, Hints
<1>6. PICK i : i = first_available(slots[p], first[p])
  BY Zenon
<1>7. i \in Pos \ slots[p]
  <2>1. first_available(slots[p], first[p]) \in Pos
    BY <1>3, Zenon DEF add_find
  <2> QED BY <1>5, <1>6, <2>1, FreeFound, Zenon
<1>8. /\ pick' = [pick EXCEPT ![t] = [pos |-> i, ret |-> (p - 1) * PerChunk + i]]
      /\ pc' = [pc EXCEPT ![t] = "found"]
  BY <1>3, <1>6, Zenon DEF add_find
<1>9. /\ pc'[t] = "found" /\ pick'[t].ret = (p - 1) * PerChunk + i
      /\ \A u \in Thread : u = t
  BY <1>1, <1>8, Zenon DEF LocalOK, NoStore, Alone
<1>10. Room'
  BY <1>2, <1>4, <1>7, <1>9, Zenon DEF Room
<1>11. Places' /\ Distinct' /\ Listed'
  BY <1>1, <1>2, Zenon DEF Places, Distinct, Listed
<1> QED BY <1>2, <1>10, <1>11, Zenon DEF Kept

\* store_at puts the record into it.
LEMMA StoreAtKept ==
    ASSUME Kept, NoStore, NEW t \in Thread, add_store(t)
    PROVE  Kept'
<1>1. FileOK /\ LocalOK /\ Places /\ Distinct /\ Listed /\ Room
  BY VecParts, Zenon DEF Kept
<1>2. VecInv' /\ pc[t] = "found" /\ pc' = [pc EXCEPT ![t] = "idle"] /\ UNCHANGED npages
  BY AddStoreStep, Zenon DEF Kept, add_store
<1>3. PICK p \in 1 .. npages, i \in Pos : pick[t].ret = (p - 1) * PerChunk + i /\ i \notin slots[p]
  BY <1>1, <1>2, Zenon DEF Room
<1>4. p \in Nat \ {0} /\ npages # 0
  BY <1>1, VecAssumption, SMTT(30) DEF FileOK
<1>5. PageOf(pick[t].ret) = p /\ PosOf(pick[t].ret) = i
  BY <1>3, <1>4, Position, Zenon
<1>6. /\ slots' = [slots EXCEPT ![p] = slots[p] \cup {i}]
      /\ data' = [data EXCEPT ![p][i] = last + 1]
      /\ handed' = handed \cup {<<(p - 1) * PerChunk + i, last + 1>>}
      /\ freelist' \subseteq freelist
  BY <1>3, <1>5, Zenon DEF add_store, remove_from_free_list
<1>7. Places' /\ Distinct'
  BY <1>1, <1>2, <1>3, <1>6, PutKept, Zenon
<1>8. Listed'
  BY <1>1, <1>2, <1>4, <1>6, Zenon DEF Listed
<1>9. Room'
  BY <1>1, <1>2, Others, Zenon DEF NoStore
<1> QED BY <1>2, <1>7, <1>8, <1>9, Zenon DEF Kept

\* erase frees the slot of one record and of no other.
LEMMA EraseKept ==
    ASSUME Kept, NoStore, NEW t \in Thread, NEW h \in handed, erase(t, h)
    PROVE  Kept'
<1>1. FileOK /\ LocalOK /\ ClientOK /\ Places /\ Distinct /\ Listed /\ Room
  BY VecParts, Zenon DEF Kept
<1>2. VecInv'
  BY EraseStep, Zenon DEF Kept
<1>3. PICK p \in 1 .. npages, i \in Pos :
          h[1] = (p - 1) * PerChunk + i /\ i \in slots[p] /\ data[p][i] = h[2]
  BY <1>1, Zenon DEF Places
<1>4. \A q \in 1 .. npages : q \in Page /\ q \in Nat \ {0}
  BY <1>1, VecAssumption, SMTT(30) DEF FileOK, Page
<1>5. PageOf(h[1]) = p /\ PosOf(h[1]) = i
  BY <1>3, <1>4, Position, Zenon
<1>6. /\ slots' = [slots EXCEPT ![p] = slots[p] \ {i}] /\ handed' = handed \ {h}
      /\ available' = available /\ freelist' = freelist
      /\ UNCHANGED <<npages, data, pc, chk, pick>>
  <2>1. i \notin slots[p] \ {i} /\ ~ FullWith(slots[p] \ {i})
    BY <1>3, Zenon DEF FullWith
  <2> QED BY <1>5, <2>1, Zenon DEF erase, local
<1>7. slots'[p] = slots[p] \ {i} /\ \A q \in 1 .. npages : q # p => slots'[q] = slots[q]
  BY <1>1, <1>4, <1>6, Zenon DEF FileOK
<1>8. Places'
  <2> SUFFICES ASSUME NEW g \in handed, g # h
               PROVE  \E q \in 1 .. npages', j \in Pos :
                          g[1] = (q - 1) * PerChunk + j /\ j \in slots'[q] /\ data'[q][j] = g[2]
    BY <1>6, Zenon DEF Places
  <2>1. PICK q \in 1 .. npages, j \in Pos :
            g[1] = (q - 1) * PerChunk + j /\ j \in slots[q] /\ data[q][j] = g[2]
    BY <1>1, Zenon DEF Places
  <2>2. g[1] # h[1]
    BY <1>1, Zenon DEF Distinct
  <2>3. ~ (q = p /\ j = i)
    BY <1>3, <2>1, <2>2, Zenon
  <2>4. j \in slots'[q]
    BY <1>7, <2>1, <2>3, Zenon
  <2> QED BY <1>6, <2>1, <2>4, Zenon
<1>9. Distinct' /\ Listed'
  BY <1>1, <1>6, Zenon DEF Distinct, Listed
<1>10. Room'
  <2>1. pc' = [pc EXCEPT ![t] = "idle"]
    BY <1>1, <1>6, Zenon DEF erase, LocalOK
  <2> QED BY <1>1, <2>1, Others, Zenon DEF NoStore
<1> QED BY <1>2, <1>8, <1>9, <1>10, Zenon DEF Kept

\* The invariant of callers that do not store is inductive.
LEMMA KeptNext ==
    ASSUME Kept, NoStore, [Next]_vars
    PROVE  Kept'
<1>1. CASE UNCHANGED vars
  <2>1. VecInv'
    BY <1>1, Zenon DEF vars, file, header, local, Kept, VecInv, TypeOK, Hints, Picked
  <2>2. UNCHANGED <<npages, slots, data, available, freelist, handed, pc, chk, pick>>
    BY <1>1, Zenon DEF vars, file, header, local
  <2>3. Places' /\ Distinct' /\ Listed'
    BY <2>2, Zenon DEF Kept, Places, Distinct, Listed
  <2>4. Room'
    BY <2>2, Zenon DEF Kept, Room
  <2> QED BY <2>1, <2>3, <2>4, Zenon DEF Kept
<1>2. CASE \E t \in Thread : \E h \in handed : erase(t, h)
  BY <1>2, EraseKept, Zenon
<1>3. CASE \E t \in Thread : append_choose(t) \/ store_choose(t)
  BY <1>3, AppendKept, Zenon DEF store_choose, NoStore
<1>4. CASE \E t \in Thread : take_slot(t) \/ fill(t) \/ add_choose(t) \/ add_find(t) \/ add_store(t)
  BY <1>4, TakeKept, FillKept, AddKept, FindKept, StoreAtKept, Zenon
<1> QED BY <1>1, <1>2, <1>3, <1>4, Zenon DEF Next

\* Nothing else happens to callers that do not store.
LEMMA KeptInvariant == Spec => [](NoStore => Kept)
<1>1. Init => Kept
  <2> SUFFICES ASSUME Init PROVE Kept
    BY Zenon
  <2>1. VecInv
    BY VecAssumption, SMTT(30) DEF Init, VecInv, TypeOK, Hints, Picked, Pos
  <2>2. Places /\ Distinct /\ Listed /\ Room
    BY Zenon DEF Init, Places, Distinct, Listed, Room
  <2> QED BY <2>1, <2>2, Zenon DEF Kept
<1>2. (NoStore => Kept) /\ [Next]_vars => (NoStore => Kept)'
  <2> SUFFICES ASSUME NoStore => Kept, [Next]_vars, NoStore' PROVE Kept'
    BY Zenon
  <2>1. NoStore
    BY SameOps, Zenon DEF NoStore, Alone
  <2> QED BY <2>1, KeptNext, Zenon
<1>3. QED
  BY <1>1, <1>2, PTL DEF Spec

\* Compact and Kept are what the callers rely on.
LEMMA CompactFound ==
    ASSUME Compact
    PROVE  RecordsKept /\ ChunkHasRoom
<1>1. RecordsKept
  <2> SUFFICES ASSUME NEW h \in handed
               PROVE  /\ PageOf(h[1]) \in 1 .. npages
                      /\ PosOf(h[1]) \in slots[PageOf(h[1])]
                      /\ data[PageOf(h[1])][PosOf(h[1])] = h[2]
    BY Zenon DEF RecordsKept
  <2>1. PICK p \in 1 .. npages, i \in Pos :
            i < first[p] /\ h[1] = (p - 1) * PerChunk + i /\ data[p][i] = h[2]
    BY Zenon DEF Compact, Handed
  <2>2. p \in Page /\ p \in Nat \ {0}
    BY VecAssumption, SMTT(30) DEF Compact, VecInv, TypeOK, Page
  <2>3. PageOf(h[1]) = p /\ PosOf(h[1]) = i
    BY <2>1, <2>2, Position, Zenon
  <2>4. i \in slots[p]
    BY <2>1, <2>2, Zenon DEF Compact, VecInv, Hints
  <2> QED BY <2>1, <2>3, <2>4, Zenon
<1>2. ChunkHasRoom
  <2>1. Calls /\ Chunks /\ FileOK
    BY VecParts, Zenon DEF Compact
  <2>2. npages > 0 /\ first[npages] < PerChunk => first[npages] \in Pos
    BY <2>1, FullChunk, VecAssumption, SMTT(30) DEF Pos
  <2> QED BY <2>1, <2>2, SMTT(30) DEF ChunkHasRoom, Calls
<1> QED BY <1>1, <1>2, Zenon

\* The same of Kept.
LEMMA KeptFound ==
    ASSUME Kept
    PROVE  RecordsKept /\ ChunkHasRoom
<1>1. RecordsKept
  <2> SUFFICES ASSUME NEW h \in handed
               PROVE  /\ PageOf(h[1]) \in 1 .. npages
                      /\ PosOf(h[1]) \in slots[PageOf(h[1])]
                      /\ data[PageOf(h[1])][PosOf(h[1])] = h[2]
    BY Zenon DEF RecordsKept
  <2>1. PICK p \in 1 .. npages, i \in Pos :
            h[1] = (p - 1) * PerChunk + i /\ i \in slots[p] /\ data[p][i] = h[2]
    BY Zenon DEF Kept, Places
  <2>2. p \in Nat \ {0}
    BY VecAssumption, SMTT(30) DEF Kept, VecInv, TypeOK
  <2>3. PageOf(h[1]) = p /\ PosOf(h[1]) = i
    BY <2>1, <2>2, Position, Zenon
  <2> QED BY <2>1, <2>3, Zenon
<1>2. ChunkHasRoom
  <2> SUFFICES ASSUME NEW t \in Thread
               PROVE  /\ pc[t] = "chosen" => chk[t] # 0
                      /\ pc[t] = "picked" => pick[t].pos \in Pos
    BY Zenon DEF ChunkHasRoom
  <2>1. pc[t] \in {"chosen", "picked"} => npages > 0 /\ chk[t] = npages
    BY Zenon DEF Kept, Room
  <2>2. pc[t] = "picked" => pick[t].pos \in Pos
    BY Zenon DEF Kept, Room
  <2> QED BY <2>1, <2>2, SMTT(30)
<1> QED BY <1>1, <1>2, Zenon

\* One thread uses the vector, and a vector that is filled by store has nothing
\* erased.
Disciplined == Alone /\ \A P \in Profile : "store" \in P => P \subseteq {"append", "store"}

\* One of the two invariants holds for them.
LEMMA DisciplinedInvariant ==
    ASSUME Disciplined
    PROVE  Spec => [](Compact \/ Kept)
<1>1. VecInv => Inserting \/ NoStore
  <2> SUFFICES ASSUME VecInv PROVE Inserting \/ NoStore
    BY Zenon
  <2>1. ops \in Profile
    BY Zenon DEF VecInv, TypeOK
  <2> QED BY <2>1, SMT DEF Inserting, NoStore, Disciplined
<1> QED BY <1>1, VecInvariant, CompactInvariant, KeptInvariant, PTL

\* For one thread, and every chunk size and number of chunks, the position that
\* append, store and add return leads back to the record, and no record is
\* overwritten while its caller holds it: as long as it only appends and stores,
\* or appends, adds and erases.
THEOREM RecordsTheorem ==
    ASSUME Disciplined
    PROVE  Spec => []RecordsKept
<1>1. Compact \/ Kept => RecordsKept
  BY CompactFound, KeptFound, Zenon
<1> QED BY <1>1, DisciplinedInvariant, PTL

\* append and store of one thread always have a chunk, and it has a free slot: the
\* assertions in them hold, for every chunk size and number of chunks.
THEOREM RoomTheorem ==
    ASSUME Disciplined
    PROVE  Spec => []ChunkHasRoom
<1>1. Compact \/ Kept => ChunkHasRoom
  BY CompactFound, KeptFound, Zenon
<1> QED BY <1>1, DisciplinedInvariant, PTL

\* A single thread that only appends and stores leaves available_slots_ equal to
\* the number of free slots, and exactly the chunks with a free slot on the free
\* list, for every chunk size and number of chunks: store and is_full may trust
\* the header.
THEOREM HeaderTheorem ==
    ASSUME Alone
    PROVE  Spec => []HeaderExact
<1>1. (Inserting => Compact) => HeaderExact
  <2> SUFFICES ASSUME Compact
               PROVE  /\ available = Cardinality(FreeSlots)
                      /\ freelist = {p \in 1 .. npages : ~ FullWith(slots[p])}
    BY Zenon DEF HeaderExact, Inserting
  <2>1. FileOK /\ Chunks /\ Header
    BY VecParts, Zenon DEF Compact
  <2>2. npages \in Nat /\ PerChunk \in Nat \ {0}
    BY <2>1, VecAssumption, SMTT(30) DEF FileOK
  <2>3. CASE npages = 0
    <3>1. 1 .. npages = {}
      BY <2>3, SMTT(30)
    <3>2. FreeSlots = {}
      BY <3>1, Zenon DEF FreeSlots
    <3> QED BY <2>1, <2>3, <3>1, <3>2, FS_EmptySet, Zenon DEF Header
  <2>4. CASE npages > 0
    BY <2>1, <2>4, CompactHeader, Zenon
  <2> QED BY <2>2, <2>3, <2>4, SMTT(30)
<1> QED BY <1>1, CompactInvariant, PTL
=============================================================================
