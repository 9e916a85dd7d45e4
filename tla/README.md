# A TLA+ model of the Poseidon graph database

Poseidon is a graph database. This directory holds a formal model of the parts
of it that are hardest to test: the page cache, the record vectors on its pages,
multi-version transactions over nodes and relationships, the lists that connect
them, property lists and the dictionary, the B+-tree index, the write-ahead log
with recovery, the parallel execution of queries, and the graph searches. The
modules are translated from the code in `src/`, in the default build
(`USE_PFILES`: data in paged files behind a buffer pool; no persistent memory, no
in-memory tables, no CSR delta store, no query compiler).

`PROJECT.json` has, for every definition, the lines of the code it stands for,
for every run what it checks, and the list of hazards the model is aimed at.

## The system

```
   query_batch, pipelines, operators     parallel scans, joins, grouping      Pipelines
   bfs, shortest paths, traversals       searches on one snapshot             Traversals
            |
   query_ctx, graph_db                   begin / commit / abort, add,         Mvto, Versions
     |      |         |        |         update, delete; relationship lists   RshipLists
     |   node and    dict,   index,  walog
     |   relation-   proper-   |       |   B+-tree, redo of changes           NodeIndex, BTree
     |   ship tables ties      |       |                                      Dict, PropertyLists
     |      |         |        |       |                                      Recovery
     |   buffered_vec |        |       |   bitmap, hint, free list            BufferedVec
     |      |         |        |       |
   bufferpool --------+--------+       |   page table, LRU list, pins         BufferPool (PageStore)
            |                          |
   paged_file                          log file                               PagedFile
```

| Part | Source | Module | Modelled |
|---|---|---|---|
| buffer pool, LRU list | `bp_file/bufferpool.*`, `lru_list.*` | `BufferPool` | all operations |
| paged files | `bp_file/paged_file.*` | `PagedFile` (operators), `Recovery` (disk and memory) | all operations |
| what the pool promises | | `PageStore` | abstract specification |
| record vectors | `vec/buffered_vec.hpp` | `BufferedVec` | append, store, store_at, erase, resize; not `clear` and the iteration |
| transactions | `storage/graph_db.cpp`, `graph_db_gc.cpp`, `tx/*` | `Mvto`, `Versions` | all operations on single objects |
| relationship lists | `storage/graph_db.cpp`, `graph_db_gc.cpp`, `query_ctx.cpp` | `RshipLists` | add and delete of relationships, delete and detach-delete of nodes, commit, abort, vacuum, walks |
| scans and reads | `query/interp/query_ctx.cpp` | `Mvto`, `Pipelines` | nodes, relationships and their properties |
| node and relationship tables | `storage/nodes.*`, `relationships.*` | `Mvto`, `BufferedVec`, `RshipLists` | insert, append, add, get, remove |
| properties | `storage/properties.*` | `PropertyLists` | append, update, removal, reads, regular close; import of typed rows |
| dictionary, string pool | `dict/*` | `Dict` | insert, lookups, close and open |
| B+-tree | `btree/pfbtree.hpp` | `BTree` | insert, lookup, scan; erase without underflow of a leaf or branch |
| index maintenance | `storage/graph_db_index.cpp`, `graph_db.cpp` | `NodeIndex` | create_index, commits that insert, update, delete |
| log and recovery | `log/walog.*`, `storage/graph_db_recovery.cpp`, `pool/graph_pool.cpp` | `Recovery` | node records, checkpoints, redo, regular end |
| thread pool, query execution | `query/utils/*`, `query/plan_op/*` | `Pipelines` | scheduling, scans, tasks, the stateful operators |
| searches, CSR export | `analytics/*`, `query_ctx.cpp` | `Traversals` | bfs, shortest and cheapest paths, variable-length traversals, CSR arrays |

## The modules

**PagedFile.** A paged file is a record of its number of pages, the bits in its
header and the contents. `allocate_page` takes the first page whose bit is not
set, or appends one; `free_page` clears the bit; `Accessible` is the condition
under which `read_page` and `write_page` do not throw `index_out_of_range`.

**BufferPool.** The page table, the LRU list, the slot bitmap and the buffer,
and *users*: code that has asked for a page and holds a pointer into the buffer.
A call of the pool runs under its mutex and is one action. What a user does with
the pointer is not under the mutex, and is a sequence of actions: ask for the
page, get the pointer (`fetch_page`: hit, miss, eviction, exceptions), mark it
dirty, write. An iterator fetches, then pins, then reads. Users of one thread
interleave between operations, users of two threads everywhere. Index files
are the only ones that free pages.

**PageStore.** A map from pages to what was written last, with Allocate, Write
and Free. `ImplementsPageStore` maps the pool to it: the contents of a page is
the copy in the buffer if it is cached, else the copy in the file.

**BufferedVec.** Chunks with a bitmap and the hint `first_`, the counter
`available_slots_` and the free list. `append` and `store` are split where the
code leaves `rsz_mtx_`: choice of the chunk, choice of the slot, filling.
`store_at` comes after a call of `first_available`, as a step of its own. Filling a
slot, storing at a position and erasing are one step each, although no mutex
makes them so: that is exact for one thread, and the properties are claimed for
one thread only. The variable `handed` has the positions that were returned to
callers.

**Versions.** The dirty list of an object as `txn_data.hpp` keeps it: which
version a transaction finds, what gc removes, what abort takes out. Used by the
next two modules.

**Mvto.** Every transaction is one member of `Tx`. An object has the record in
its table (position 0) and the dirty list; its properties are abstracted to the
xid of the transaction that wrote them. The steps are those between which the
code can be interrupted: taking the xid and entering `active_tx_`; the rts check,
`try_lock` and the change of `update_node`; storing and locking a new record;
every object of a commit or an abort; the end with `vacuum`. The variable `app`
is what is known of the application: the operations it uses, whether it writes
an object twice, and the states in which it keeps other threads out. A property
whose formula begins with `Disciplined` holds for applications whose calls are
not interleaved inside; those without it hold for all. `wrote` and `reads` are
history variables for the properties.

**RshipLists.** Node and relationship records with their links, under the same
versions. A call of the API, a commit and an abort are one step each. An
operation is an operator from the table to its result (`exc`, new table, objects
appended to the dirty lists), so that `detach_delete_node` can be the fold of
`delete_relationship` over a list, exceptions halfway included. `vacuum` unlinks
in place. `added` and `deleted` are history variables.

**Dict, PropertyLists.** Strings on pages, with their positions as codes; the
hash table is rebuilt by a scan of the pages at `Restart`. A property list is a
chain of sets of `PerSet` items. The actions are what commits, aborts and imports
do to the chains and to the dictionary. `disk` and `dirty` are what is in the files
and which tables are marked to be written: `Restart` writes those only, and a set or
a record that an update has changed in place, through `at()`, is not marked. `lost`
has the nodes of which such a change has not reached the file.

**BTree, NodeIndex.** The tree as a record of pages with arrays that keep stale
keys, as in the file; insert with splits up to a new root, lookup, scan along the
leaf chain, and erase where it meets no leaf and no branch with too few keys
(`Regular`). `NodeIndex` has the commits that maintain an index.

**Recovery.** Log file and its header, node file with its header, the pages in
memory, and the transactions that write them. A crash may come at every point
(also in the middle of a flush, of a commit, of the regular end and of recovery)
and loses everything that is in memory. `open` reads the files; then there is
one action per log record of the redo pass, with the exceptions of `apply_redo`.
`EvalFirst` stands for the order in which the compiler evaluates the arguments of
the warning in `apply_redo`, which matters because `last_used` allocates a page.
`grown` is a history variable: a page was allocated since the log was truncated.

**Pipelines.** A plan is a sequence of operators with their subscribers. The
query thread submits the tasks of a scan, waits for their futures, shuts the pool
down and runs `finish`; the workers check `done`, pop a task and push tuples
through the operators. A thread keeps the calls it has still to make in `out`,
so every call of an operator is a step. What is under a mutex is one step;
`limit_result` and `order_by`, which have none, take two. `distinct_tuples` compares
the texts of the values written one after the other (`Key`), the reference the
tuples. A limit above a scan of several tasks may be exceeded by one tuple for each
further worker, and `ResultRight` says no more than that.

**Traversals.** One step is one turn of the loop of a search, or of the loop over
the relationships of a node. The graph is the sequence of relationships in the
order they were added, which fixes the order of the lists. The transaction sees all
relationships in the lists; a node slot in use of which it sees no version (`hidden`)
makes the CSR export throw. The properties compare the result with definitions that
know neither lists nor queues. Of the two searches for all shortest or cheapest paths,
`PathsRight` says that what they report is right, not that they report all.

**MC modules and Minima.** The `MC` modules give TLC users, threads, symmetry,
applications, plans and graphs. `Minima` has two lemmas about minimum and maximum
of sets of naturals. The modules with the proofs are named under "The proofs".

## The runs

| Run | Question | Bounds |
|---|---|---|
| `bufferpool` | Are page table, LRU list, slots and files consistent; do pinned pages stay; does no write get lost; is the pool a page store? | two files of two pages, two slots, one operation and one iterator in one thread |
| `mvto` | Are reads serializable in timestamp order, is the final state right, are locks released, does vacuum remove neither too much nor too little? | three transactions; four applications: updates of a node and a relationship, deletion and reuse of a slot, calls interleaved inside, detach-deletes of written objects |
| `mvto_staleupdate` (violation) | Is an update of a scanned version ever lost? | two transactions, one node |
| `vec_sound` | Which operations keep a vector right? | three chunks of three slots, seven records |
| `vec_reuse` (violation) | ... and `store` together with `erase`? | three chunks of two slots |
| `recovery_crash` | Does redo restore what the log says, after a sequence of crashes, for objects whose records no checkpoint puts out of order and while no page is new? | two transactions of one write, two pages of one record, three crashes, one regular end |
| `recovery_newpages` (violation) | Are committed nodes on new pages restored? | the same, starting with an empty file |
| `rships` | Do the lists lead to exactly the relationships there are, through commits, aborts and vacuum? | two nodes, three relationship slots (two parallel relationships at the start), three transactions, three calls |
| `index` | Does the tree find every node under its value, and is it well formed? | two keys to a leaf, three to a branch (the fewest the code admits), six keys, three levels, create_index at any time, two updates or deletions |
| `pipelines` | Does a query have the result of its plan, end, and leave no thread behind? | two workers, tasks of two chunks, fifteen plans of up to seven operators, any task may throw |
| `properties` | Are properties and codes read back as they were written? | two nodes, twelve slots for property sets of three items, dictionary pages of a few strings, six calls |
| `traversals` | Does a search return what a definition without lists and queues says? | all graphs of four nodes with three or four relationships; all lists of up to three relationships on three nodes with loops and parallel ones; the export with deleted and invisible nodes |

Why the bounds are enough. The pool needs one slot more than there are pinned
pages and fewer slots than pages to evict; with two slots and up to four pages
every slot is reused and every page comes back from disk. Three transactions are
an old reader, a writer, and one whose end moves `oldest_xid_` on; the known
anomalies of timestamp ordering need no more on one object, and two objects are
there for commits that are half done. Three records per chunk let a hint stand
before, at and behind a freed slot. Three crashes are one in a session, one in
its recovery, and one in the session after that, which is what sets LSNs back
below a checkpoint. (A fourth can put records of one object on both sides of a
checkpoint; see the further instances.) Three relationships are a head, a middle and an end of a
list. Six keys with two to a leaf make leaf, branch and root split, left and
right of the middle, and leave a deletion under a tree of three levels that needs no
merge; an update there needs seven keys (`MaxKey = 7` with one change holds, too). Four chunks, two to a task, give two workers a task each
while another thread is still in `submit`. Four properties overflow a set of
three; two strings fill a page of the dictionary. Four relationships on four
nodes have every cycle, every tie of two paths, and unreachable nodes.

Every module has a type invariant `TypeOK`; it holds on the same instances, and
the run of the pool has it as a part of `PoolInv`. The other runs do not repeat it. Four
properties are conjunctions of named parts: `PoolInv`, `ReadsRight` (a node's properties
as a whole, by name, by scan), `PathsRight` (shortest, cheapest) and `HopsRight`
(traversals without and with a label).

### Fairness

`pipelines` and `traversals` have the liveness property `Terminates`. It needs
weak fairness of the query thread and of every worker, and of the searching
thread: the operating system schedules a thread that can run. No fairness of
single actions is assumed, so a worker may see an empty queue any number of
times, and a scan may throw or not. All other properties are safety properties:
a transaction is driven by its application, which may stop.

Deadlock is checked for the pool. The other models end: their transactions,
calls, records, crashes and queries are bounded.

### What the violations show

* `mvto_staleupdate`: `update_node` locks the version it is given. If that came
  from a scan it may be an old version in the dirty list, and not the object: the
  update is committed and lost.
* `vec_reuse`: `store` takes a slot of a chunk on the free list and computes the
  position from the number of pages. After an `erase` in an earlier chunk the
  position that is returned is wrong.
* `recovery_newpages`: the bits of new pages are written only when the file is
  closed. After a crash, redo of a committed node on such a page throws, and the
  database cannot be opened.

### Further instances

The constants select what an application does. These instances have no run of
their own; TLC finds a counterexample with them in seconds.

Of `Mvto`, with `Profile` one application on one object, `rewrite` FALSE and
`atomic` all of `"begun"`, `"checked"`, `"locked"` unless said otherwise:

| Application | Property that fails | Hazard |
|---|---|---|
| read, update; `atomic` without `"begun"` | `ReadsSerializable` | a commit between taking the xid and entering `active_tx_` |
| scan, update | `ReadsSerializable` | scans do not set rts |
| scan, delete | `ReadsSerializable` | scans pass over deleted records also for older transactions |
| read, delete of a relationship | `ReadsSerializable` | properties of a deleted relationship are gone |
| read, detach_delete | `RemovedUnneeded` | detach-delete after an aborted deletion |

Without the guard on the application that the property begins with:

| Application | Property that fails | Hazard |
|---|---|---|
| read, update; `atomic` without `"checked"` | `ReadsSerializable` | read between rts check and lock |
| read, update; `atomic` without `"locked"` | `ReadsSerializable` | read between lock and first dirty version |
| read, delete | `LocksLive` | version left behind by an aborted deletion |
| read, delete, add; `rewrite` | `FinalState` | insert, delete, abort |
| read, delete, update of a connected node; `rewrite` | `FinalState` | update, failed delete, abort |
| read, delete, update; `rewrite` | `ReadsSerializable` | object twice among the dirty ones |
| update, detach_delete; `rewrite` | `DirtyFound` | record removed between two entries |
| delete, update; `rewrite` | `Vacuumed` | version that is never collected |

Of the other modules:

| Instance | Property that fails | Hazard |
|---|---|---|
| `BufferPool`: two threads, one file, two slots | `CleanCoherent` | a flush or an eviction between `mark_dirty` and the write |
| `BufferPool`: two iterators, three pages, two slots, one thread | `PinnedStays` | one pin bit for two iterators |
| `BufferPool`: one user, `Unmarked = {u1}` | `CleanCoherent` | writes through a reference from `at()` |
| `BufferedVec`: two threads, `Profile <- Sound` | `RecordsKept` | slot chosen outside the mutex |
| `Recovery`: three transactions, one page that is in the file, four crashes, no regular end; `LogReplayed` without `Untangled` | `LogReplayed` | LSNs set back by crashes: the newest record of an object is passed over and an older one replayed ("all redo log entries before this LSN can be ignored") |
| `Recovery`: empty file, four crashes; `LogReplayed` without `grown` | `LogReplayed` | a page allocated after the last checkpoint, a crash between closing the file and truncating the log |
| `RshipLists`: as `rships` | `NodesReleased` | `detach_delete_node` throws after it has locked the node |
| `RshipLists`: `Disciplined = FALSE` | `NodesStay`, `NoOrphan` | a refused `delete_node` of a changed node unlocks its version, and abort removes the node ("remove the node only if it was added but not updated!") |
| `RshipLists`: `Disciplined = FALSE` | `ListsMatch`, `GraphMatches` | a relationship added, deleted and aborted stays in the table |
| `NodeIndex`: `M = 4`, `N = 3`, three keys, four pages, four nodes, `Unique = FALSE`, three changes | `SoleFound` | one entry for several nodes ("For each matching node the consumer function is called.") |
| `Pipelines`: `Plans <- LimitPlans`, `PerThread = 1`, `MayThrow = FALSE` | `LimitKept` | test and increment of `limit_result` are two steps |
| `Pipelines`: `Plans <- OrderPlans`, likewise | `ResultRight` | `order_by` appends without a mutex |
| `Pipelines`: `Plans <- DistinctPlans`, likewise | `ResultRight` | the tuples (1, 23) and (12, 3) have the same key in `distinct_tuples`, and the second one is dropped |
| `Pipelines`: `Plans <- ExceptBelow`, likewise | `BuildFirst` | the larger priority above hides the order below ("execute child2 before child1") |
| `PropertyLists`: as `properties`; `ReadsRight`, `SetsOwned` for all nodes, without `lost` | both | a node is added, the database closed and opened, the node updated, the database closed and opened: the update in place marks no page, and the old values are back |
| `PropertyLists`: `Rows <- ShortRows` | `PropertiesRight` | a row whose last field is empty loses its last property set |
| `PropertyLists`: `Length <- EmptyV` | `CodesRight` | an empty string ends the scan of its page when the code table is rebuilt, so it and the strings behind it get a second code after a restart ("Duplicate strings are ignored and the already assigned code is returned.") |
| `Traversals`: as `traversals` | `LabelComplete` | a relationship with another label hides the rest of its list |
| `Traversals`: as `traversals` | `AllCheapest` | at a tie the path of the old parent is reported again |

The application of `rships` (`Disciplined`) adds relationships only when no
deletion is running or waiting for vacuum, deletes only when no addition is
running or younger, calls `delete_node` only for nodes it has not changed, and
does not delete what it has added itself. Each clause keeps one of the rows above
out, or a new relationship from linking to one that is being vacuumed.

## The proofs

TLAPS checks these for every value of the constants that the named assumptions
(`FileAssumption`, `PoolAssumption`, `VecAssumption`, `RecoveryAssumption`,
`MvtoAssumption`, `PipelinesAssumption`) allow. Each proof has one lemma per
action or group of actions.

**`PoolInvariant`** (`BufferPoolProofs`). `TypeOK`, `SlotsExclusive`,
`LruMatchesTable` and `CachedAccessible` together (`PoolInv`) are inductive, for any number of threads: an eviction finds a slot because list and
table name the same pages, and does not throw because cached pages are
accessible. The steps are split into what makes room (`RoomOK`), what loads a
page, and what only changes flags or users.

**`CoherenceTheorem`, `PageStoreTheorem`** (`BufferPoolRefinement`). Under
`SingleThread` (one thread, and no user that writes without `mark_dirty`) clean
pages equal their file, and the pool implements `PageStore`, for every size of
the pool and any number of users. The invariant adds to the one above that at
most one user is in the middle of an operation (`OneBusy`), that its pointer is
the slot of its page and the page is marked before the write (`Holds`), and that
bits belong to pages of the file. A step is simulated in two parts: what makes
room leaves the view of every page as it is, and the load, the write or the
allocation then is a step of the store or a stutter.

**`PinTheorem`** (`BufferPoolRefinement`). With one thread and one iterator
(`OneIterator`) the page of the iterator stays in its slot: an eviction passes
over pinned pages, and nobody else unpins it.

**`HintTheorem`** (`BufferedVecProofs`). With one thread (`Alone`) and any mixture of
operations, also those after which records are lost, the hint of a chunk is right,
because `bchunk::set` changes bitmap and hint together.

**`RecordsTheorem`, `RoomTheorem`** (`BufferedVecProofs`). Every record is found at
the position that was returned for it, and the assertions of `append` and `store`
hold, for callers that are `Disciplined`: there is one thread, and a vector that is
filled by `store` has nothing erased and nothing added. Neither property is inductive,
and there are two reasons for them. With `store`, the invariant `Compact` says
that all chunks but the last are full, that used slots are those before the hint,
and that counter and free list say so: this is what makes `Offset`, which always
names the last chunk, right, and what `erase` destroys. Without `store`, the
invariant `Kept` says that the records handed out are in used slots, no two in
the same, and that `append` works on a free slot of the last chunk. Both halves of
the discipline are needed: `vec_reuse`, and the two threads of the instances
above.

**`HeaderTheorem`** (`BufferedVecProofs`). With one thread, and as long as nothing
is erased or added, `available_slots_` is the number of free slots and the free
list has the chunks with one. It follows from `Compact`: the free slots are an
interval of the last chunk, whose size `FreeSlots` has by a bijection.

**`OldestTheorem`** (`MvtoProofs`). If no application lets `begin_transaction` be
interrupted (`"begun"` is in `atomic` for every member of `Profile`), no running
transaction is older than `oldest_xid_`. The invariant adds that xids are unique
and come from a growing clock, and that running transactions are in `active_tx_`.
The first row of the instances above shows that the assumption is needed.

**`SerializableTheorem`, `FinalStateTheorem`, `LocksTheorem`, `DirtyTheorem`**
(`MvtoVersions`, `MvtoProofs`). For any number of transactions, objects and
values: `ReadsSerializable`, `FinalState`, `LocksLive` and `DirtyFound`, of
applications that read and update objects by id and in which neither
`begin_transaction` nor the steps of `update_node` up to the first version are
interrupted (the ASSUME of the theorems). Commits and aborts do interleave, object
by object, with everything. The invariant `SerialInv` describes an object by
`Shape`: its record has the last change that a commit has processed, and a version
without a lock is an earlier one, in whose interval of timestamps no other
committed change falls. To it are added who has the lock (`ObjectOK`); that gc has left
a version for every running transaction (`Covered`, which needs `OldestInv`); that
what was read is protected by rts and the lock against an older update that comes
later (`ReadsOK`); and that the dirty lists hold what a transaction has changed,
each object once (`Listed`). `MvtoVersions` states all this first of a record, a
dirty list and a set of dates, without variables. TLC checks `SerialInv` with three
transactions on a node and a relationship (476,235 states). The rows of the
instances above show that the assumption on `atomic` is needed; with insertions
and deletions the four properties are only model-checked.

**`CheckpointTheorem`** (`RecoveryProofs`). A record that recovery skips because
of its LSN is before a checkpoint. LSNs are not unique, because a crash sets them
back to what the header of the log has. The invariant `LsnInv` says that a
checkpoint is at most one above the header, and that the first record of a
transaction is a BOT record, which takes that one LSN; so later data records
are above every checkpoint.

**`ReplayTheorem`** (`RecoveryProofs`). `LogReplayed`, for any number of
transactions, pages, crashes and regular ends. The invariant `ReplayInv` is about
the last record of every object that is `Untangled`. If a checkpoint follows the
record, the file has what the record says, and recovery may pass over it. If not,
the record is still to be replayed: by `LsnInv` its LSN is above every checkpoint.
In the middle of the scan the table has the effect of the last record that was not
passed over, or what the file has (`Scanned`). In a session the table has what the
record says, because a transaction has locked what it is going to commit (`Owned`)
and vacuum removes only what the last record deleted (`Buried`). As long as no page
was allocated (`grown`), the bits in the file cover all records, so that
`apply_redo` does not throw (`Known`).

**`QuietTheorem`** (`PipelinesProofs`). For all plans, tables and numbers of
workers: when a scan has returned or thrown, no worker is alive and no task is
left. The invariant adds that a worker has calls to make only while it executes
a task, so that a worker that has stopped cannot call an operator.

Only model-checked, and why:

* `Terminates` of `Pipelines` and `Traversals`: liveness under fairness.
* `BuildFirst`, `FinishLast`, `ResultRight` and the other properties of `Pipelines`
  but `Quiet`: the calls of an operator pass through sequences that are filtered,
  sorted and flattened, and what those functions return is known by induction
  over the sequence only.
* `RshipLists`, `PropertyLists`, `Traversals`: lists are followed by folds and by
  recursive functions, and the properties compare them with recursive references;
  the same for the descent in the tree of `NodeIndex`.
* `RemovedUnneeded` and `Vacuumed` of `Mvto`: they are about deletions, and hold at
  once for the applications of the theorems above.

## What the model leaves out

* A crash is the end of the process, not a power failure: a write that has
  returned is in the file, and log records are whole. (The code calls `fsync`
  for the header and at checkpoints only.)
* In `Recovery` the database fits into the pool, so pages are written by flushes
  only; the regular end happens without running transactions, through
  `graph_pool::close`. Which slot an insert takes is left open there; it is the
  subject of `BufferedVec`. Log records about relationships and strings are left
  out; neither strings inserted by `update_node` nor properties are logged at all.
* A member function of a list, bitmap or map is one step; memory that is freed
  while another thread reads it is not modelled.
* xids grow. (They are readings of the system clock.)
* In `Mvto` a node is deleted as if the answer to "does it have relationships"
  did not change meanwhile (`Connected`); `RshipLists` computes it.
* A reader may miss an object that an older transaction inserts later: the code
  has nothing against such phantoms, and `ReadsSerializable` allows for them.
* In `RshipLists` a call is one step, and half an unlinking is not followed. A
  transaction that follows a list it has added to stops after its own
  relationship; `WalkRight` leaves it out.
* `BTree` has erase only where it meets no leaf and no branch with too few keys;
  merging and rotation are left out. `underflowAtLeafLevel` loads both neighbours
  of the leaf before it asks whether there are any, by links that a split in the
  middle of the tree does not keep up; `underflowAtBranchLevel` uses page ids as
  pointers. So `IndexRight` and `Shape` say nothing of a tree after such an erase. Root and depth reach the file header only at a regular
  close.
* Keys with equal hash values are one string to `code_table` and one group to
  `group_by`; the hash functions of the instances are injective.
* Values in the plans of `Pipelines` are natural numbers and null. No plan of the run
  has different tuples with the same key in `distinct_tuples`, or a scan of two tasks
  below `order_by`; both are among the further instances.
* A search of `Traversals` runs on a quiescent snapshot: nobody changes the graph
  meanwhile, deleted relationships are vacuumed, and `rship_by_id` throws for none.
  What it returns is then valid for the transaction, so the `is_valid_for` after it
  in `host_csr_build` holds. `parallel_host_csr_build` is left out.
* In `PropertyLists` each of the two tables is one chunk that stays in the pool, so an
  eviction does not write or lose a page in between.
* Weights are natural numbers. The k cheapest paths
  (`k_weighted_shortest_path`, which deletes and re-adds relationships and never
  sets the weights of its candidates) and the callbacks of a visitor are left out.

Not modelled, and why:

* persistent memory, in-memory tables and the CSR delta store (`log/pm_ulog.*`,
  `btree/fptree.hpp`, `vec/nvm_*`, `vec/mem_*`, `storage/csr_delta.*`): not in the
  default build;
* the query compiler and its LLVM code, the UPMEM and GPU code: optional builds
  for other machines;
* the parser and its run-time library: generated and vendored code, most of the
  lines of the repository; the planner that walks its tree appears as the plans
  of `Pipelines`;
* CSV parsing, command line, benchmark driver, Python binding: input and output
  around calls that are modelled;
* materialized view and radix index: not used by the engine.
