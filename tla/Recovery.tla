------------------------------ MODULE Recovery ------------------------------
(***************************************************************************)
(* The write-ahead log (src/log/walog.cpp), what transactions write to it  *)
(* (src/storage/graph_db.cpp), and the recovery that reads it when the     *)
(* database is opened (src/storage/graph_db_recovery.cpp), over the node   *)
(* table and its paged file.                                               *)
(*                                                                         *)
(* A crash is the end of the process: what was written to a file stays,    *)
(* what was in memory is lost. The database fits into the buffer pool, so  *)
(* pages are written by flush only, never by an eviction. A record is the  *)
(* label of a node and the transaction that has locked it.                 *)
(***************************************************************************)
EXTENDS Integers, Sequences, FiniteSetsExt

CONSTANTS
    Values,     \* labels
    PerPage,    \* records on a page
    MaxPages,   \* bound on the pages of the node file
    InitPages,  \* how many pages the database may have when it was closed last
    MaxTx,      \* bound on the number of transactions
    MaxWrites,  \* bound on the objects a transaction writes
    MaxCrash,   \* bound on the number of crashes
    MaxClose,   \* bound on the number of regular ends
    EvalFirst,  \* which argument of the warning in apply_redo is evaluated first
    Free, Dead, Initial

ASSUME RecoveryAssumption ==
    /\ PerPage \in Nat \ {0} /\ MaxPages \in Nat /\ InitPages \subseteq 0 .. MaxPages
    /\ MaxTx \in Nat /\ MaxWrites \in Nat /\ MaxCrash \in Nat /\ MaxClose \in Nat
    /\ EvalFirst \subseteq {"last_used", "is_used"} /\ EvalFirst # {}
    /\ Free \notin Values /\ Dead \notin Values /\ Free # Dead /\ Initial \in Values

Tx == 1 .. MaxTx            \* in the order of their xids
NoTx == 0
Page == 1 .. MaxPages
Oid == 0 .. PerPage * MaxPages - 1
PageOf(o) == o \div PerPage + 1

Label == Values \cup {Free, Dead}
Cell == [val : Label, own : Tx \cup {NoTx}]
Empty == [val |-> Free, own |-> NoTx]

Data == {"insert", "update", "delete"}
Write == [op : Data, oid : Oid, val : Label]
LogRecord == [kind : Data \cup {"bot", "commit", "abort", "chkpt"}, lsn : Nat,
              tx : Tx \cup {NoTx}, oid : Nat, val : Label]

VARIABLES
    mode,     \* what the process is doing
    log,      \* the records of the log file
    header,   \* last_lsn_ in the header of the log file
    lsn,      \* header_.last_lsn_ in memory
    cursor,   \* the position of the iterator in apply_log
    maxlsn,   \* max_lsn of apply_log
    redone,   \* redo_performed of apply_log
    file,     \* the node file: number of pages, page bits in its header, records
    valid,    \* the page bits in memory
    table,    \* the records in the buffer pool
    dirty,    \* the pages marked dirty
    grown,    \* history: a page was allocated since the log was truncated last
    state,    \* of a transaction
    todo,     \* the objects it has still to commit
    garbage,  \* deleted objects with the transaction that has deleted them
    oldest,   \* oldest_xid_
    crashes, closes

logs == <<log, header, lsn>>
scan == <<cursor, maxlsn, redone>>
pages == <<file, valid, table, dirty, grown>>
txs == <<state, todo, garbage, oldest>>
counts == <<crashes, closes>>
vars == <<mode, logs, scan, pages, txs, counts>>

Modes == {"up", "down", "redo", "flush", "checkpoint", "logclose", "failed",
          "shutflush", "shutfile", "shutlog", "truncate"}

TypeOK ==
    /\ mode \in Modes
    /\ log \in Seq(LogRecord) /\ header \in Nat /\ lsn \in Nat
    /\ cursor \in Nat /\ maxlsn \in Nat /\ redone \in BOOLEAN
    /\ file \in [npages : 0 .. MaxPages, slots : SUBSET Page, cells : [Oid -> Cell]]
    /\ valid \subseteq Page
    /\ table \in [Oid -> Cell]
    /\ dirty \subseteq Page /\ grown \in BOOLEAN
    /\ state \in [Tx -> {"new", "active", "committing", "ended"}]
    /\ todo \in [Tx -> Seq(Write)]
    /\ garbage \subseteq Oid \X Tx
    /\ oldest \in 0 .. MaxTx
    /\ crashes \in 0 .. MaxCrash /\ closes \in 0 .. MaxClose

InitCell(o, n) == IF PageOf(o) <= n THEN [val |-> Initial, own |-> NoTx] ELSE Empty

Init ==
    /\ mode = "down" /\ log = <<>> /\ header = 0
    /\ \E n \in InitPages :
          file = [npages |-> n, slots |-> 1 .. n, cells |-> [o \in Oid |-> InitCell(o, n)]]
    /\ lsn = 0 /\ cursor = 1 /\ maxlsn = 0 /\ redone = FALSE
    /\ valid = {} /\ table = [o \in Oid |-> Empty] /\ dirty = {} /\ grown = FALSE
    /\ todo = [t \in Tx |-> <<>>] /\ garbage = {} /\ oldest = 0
    /\ state = [t \in Tx |-> "new"] /\ crashes = 0 /\ closes = 0

-----------------------------------------------------------------------------
(* Appending to the log. *)

IsData(r) == r.kind \in Data

Entry(kind, t, o, v) == [kind |-> kind, lsn |-> lsn + 1, tx |-> t, oid |-> o, val |-> v]

\* wa_log::append with next_lsn; the file has no buffer.
append(kind, t, o, v) ==
    /\ log' = Append(log, Entry(kind, t, o, v))
    /\ lsn' = lsn + 1
    /\ UNCHANGED header

append_tx(kind, t) == append(kind, t, 0, Free)

-----------------------------------------------------------------------------
(* The transactions of a session. *)

Active == {t \in Tx : state[t] = "active"}

\* Mutant: no BOT record.
begin_transaction_silent(t) ==
    /\ mode = "up" /\ state[t] = "new" /\ \A u \in 1 .. t - 1 : state[u] # "new"
    /\ state' = [state EXCEPT ![t] = "active"]
    /\ UNCHANGED <<mode, logs, scan, pages, todo, garbage, oldest, counts>>

begin_transaction(t) ==
    /\ mode = "up" /\ state[t] = "new" /\ \A u \in 1 .. t - 1 : state[u] # "new"
    /\ append_tx("bot", t)
    /\ state' = [state EXCEPT ![t] = "active"]
    /\ UNCHANGED <<mode, scan, pages, todo, garbage, oldest, counts>>

\* paged_file::allocate_page: a page of the file without a bit, else one more.
Unused == (1 .. file.npages) \ valid
NextPage == IF Unused # {} THEN Min(Unused) ELSE file.npages + 1

Erased(cells, p) == [o \in Oid |-> IF PageOf(o) = p THEN Empty ELSE cells[o]]

\* The page is zeroed in the file, its bit set in memory.
allocate_page ==
    /\ NextPage \in Page
    /\ file' = [file EXCEPT !.npages = IF Unused # {} THEN @ ELSE @ + 1,
                            !.cells = Erased(@, NextPage)]
    /\ valid' = valid \cup {NextPage}
    /\ grown' = TRUE

Pending(t, op, o, v) ==
    /\ Len(todo[t]) < MaxWrites
    /\ todo' = [todo EXCEPT ![t] = Append(@, [op |-> op, oid |-> o, val |-> v])]
Lock(t, o) == table' = [table EXCEPT ![o].own = t]
Reserved(t) == [val |-> Free, own |-> t]

\* add_node: store takes a slot, on a page it may have to allocate, and marks
\* the page dirty. Which slot it takes is the subject of BufferedVec.
add_node(t, o, v) ==
    /\ mode = "up" /\ t \in Active
    /\ \/ /\ PageOf(o) \in valid /\ table[o] = Empty
          /\ table' = [table EXCEPT ![o] = Reserved(t)]
          /\ UNCHANGED <<file, valid, grown>>
       \/ /\ PageOf(o) = NextPage
          /\ allocate_page
          /\ table' = [Erased(table, NextPage) EXCEPT ![o] = Reserved(t)]
    /\ dirty' = dirty \cup {PageOf(o)}
    /\ Pending(t, "insert", o, v)
    /\ UNCHANGED <<mode, logs, scan, state, garbage, oldest, counts>>

\* update_node and delete_node of an object that nobody has locked. The lock
\* and the new version are put into the record, whose page is not marked.
change_node(t, op, o, v) ==
    /\ mode = "up" /\ t \in Active
    /\ PageOf(o) \in valid /\ table[o].val \in Values /\ table[o].own = NoTx
    /\ Lock(t, o)
    /\ Pending(t, op, o, v)
    /\ UNCHANGED <<mode, logs, scan, file, valid, dirty, grown, state, garbage, oldest, counts>>

\* oldest_xid_ after t has left active_tx_.
Oldest(t) == IF Active \ {t} = {} THEN t ELSE Min(Active \ {t})

commit_transaction(t) ==
    /\ mode = "up" /\ t \in Active
    /\ oldest' = Oldest(t)
    /\ state' = [state EXCEPT ![t] = "committing"]
    /\ UNCHANGED <<mode, logs, scan, pages, todo, garbage, counts>>

\* commit_dirty_node: the log record, then the change of the record in place.
commit_dirty_node(t) ==
    /\ mode = "up" /\ state[t] = "committing" /\ todo[t] # <<>>
    /\ LET w == Head(todo[t])
       IN  /\ append(w.op, t, w.oid, w.val)
           /\ table' = [table EXCEPT ![w.oid] =
                            [val |-> IF w.op = "delete" THEN Dead ELSE w.val, own |-> NoTx]]
           /\ garbage' = IF w.op = "delete" THEN garbage \cup {<<w.oid, t>>} ELSE garbage
    /\ todo' = [todo EXCEPT ![t] = Tail(@)]
    /\ UNCHANGED <<mode, scan, file, valid, dirty, grown, state, oldest, counts>>

\* vacuum removes the deleted objects that no running transaction can see, and
\* marks their pages. An abort also removes what was inserted, and unlocks.
vacuum(old, inserted, unlocked) ==
    LET items == {g \in garbage : g[2] <= old}
        oids == {g[1] : g \in items} \cup inserted
    IN  /\ table' = [o \in Oid |-> CASE o \in oids -> Empty
                                    [] o \in unlocked \ oids -> [table[o] EXCEPT !.own = NoTx]
                                    [] OTHER -> table[o]]
        /\ dirty' = dirty \cup {PageOf(o) : o \in oids}
        /\ garbage' = garbage \ items

commit_end(t) ==
    /\ mode = "up" /\ state[t] = "committing" /\ todo[t] = <<>>
    /\ append_tx("commit", t)
    /\ vacuum(oldest, {}, {})
    /\ state' = [state EXCEPT ![t] = "ended"]
    /\ UNCHANGED <<mode, scan, file, valid, grown, todo, oldest, counts>>

\* abort_transaction of a transaction that has not begun to commit.
Written(t, ops) == {todo[t][i].oid : i \in {j \in DOMAIN todo[t] : todo[t][j].op \in ops}}

abort_transaction(t) ==
    /\ mode = "up" /\ t \in Active
    /\ oldest' = Oldest(t)
    /\ vacuum(Oldest(t), Written(t, {"insert"}), Written(t, {"update", "delete"}))
    /\ append_tx("abort", t)
    /\ state' = [state EXCEPT ![t] = "ended"]
    /\ todo' = [todo EXCEPT ![t] = <<>>]
    /\ UNCHANGED <<mode, scan, file, valid, grown, counts>>

-----------------------------------------------------------------------------
(* Writing the pages. *)

\* Mutant: the page is taken for written.
WritePageLost(p) == dirty' = dirty \ {p} /\ UNCHANGED file

\* write_page_to_file, and the page is not dirty any more.
WritePage(p) ==
    /\ file' = [file EXCEPT !.cells = [o \in Oid |-> IF PageOf(o) = p THEN table[o] ELSE @[o]]]
    /\ dirty' = dirty \ {p}

\* flush_all writes one dirty page after the other: a session may call it at
\* any time, recovery and graph_pool::close call it to write all of them.
flush(p) ==
    /\ mode \in {"up", "flush", "shutflush"} /\ p \in dirty
    /\ WritePage(p)
    /\ UNCHANGED <<mode, logs, scan, valid, table, grown, txs, counts>>

\* The end of the process.
LoseMemory ==
    /\ lsn' = 0 /\ cursor' = 1 /\ maxlsn' = 0 /\ redone' = FALSE
    /\ valid' = {} /\ table' = [o \in Oid |-> Empty] /\ dirty' = {}
    /\ todo' = [t \in Tx |-> <<>>] /\ garbage' = {} /\ oldest' = 0

\* graph_pool::close of a database without running transactions: flush, write
\* the header of the file, write the header of the log, truncate the log.
close ==
    /\ mode = "up" /\ closes < MaxClose
    /\ \A t \in Tx : state[t] \in {"new", "ended"}
    /\ mode' = "shutflush" /\ closes' = closes + 1
    /\ UNCHANGED <<logs, scan, pages, txs, crashes>>

close_flushed ==
    /\ mode = "shutflush" /\ dirty = {}
    /\ mode' = "shutfile"
    /\ UNCHANGED <<logs, scan, pages, txs, counts>>

close_file ==
    /\ mode = "shutfile"
    /\ file' = [file EXCEPT !.slots = valid]
    /\ mode' = "shutlog"
    /\ UNCHANGED <<logs, scan, valid, table, dirty, grown, txs, counts>>

close_log ==
    /\ mode = "shutlog"
    /\ header' = lsn
    /\ mode' = "truncate"
    /\ UNCHANGED <<log, lsn, scan, pages, txs, counts>>

truncate ==
    /\ mode = "truncate"
    /\ log' = <<>> /\ grown' = FALSE
    /\ mode' = "down" /\ LoseMemory
    /\ UNCHANGED <<header, file, state, counts>>

crash ==
    /\ mode # "down" /\ crashes < MaxCrash
    /\ mode' = "down" /\ LoseMemory
    /\ state' = [t \in Tx |-> IF state[t] = "new" THEN "new" ELSE "ended"]
    /\ crashes' = crashes + 1
    /\ UNCHANGED <<log, header, file, grown, closes>>

-----------------------------------------------------------------------------
(* Opening the database: apply_log. *)

Checkpoints == {i \in DOMAIN log : log[i].kind = "chkpt"}

\* The analysis pass: the LSN of the last checkpoint of the log. The losers it
\* also finds are given to apply_undo, which is empty.
MaxLsn == IF Checkpoints = {} THEN 0 ELSE log[Max(Checkpoints)].lsn

open ==
    /\ mode = "down"
    /\ lsn' = header /\ valid' = file.slots /\ table' = file.cells /\ dirty' = {}
    /\ maxlsn' = MaxLsn /\ cursor' = 1 /\ redone' = FALSE
    /\ mode' = "redo"
    /\ UNCHANGED <<log, header, file, grown, txs, counts>>

Skips(r) == r.lsn <= maxlsn \/ ~ IsData(r)

redo_skip ==
    /\ mode = "redo" /\ cursor \in DOMAIN log /\ Skips(log[cursor])
    /\ cursor' = cursor + 1
    /\ UNCHANGED <<mode, logs, maxlsn, redone, pages, txs, counts>>

Effect(r) == IF r.kind = "delete" THEN Empty ELSE [val |-> r.val, own |-> NoTx]

\* apply_redo on a page the file knows: store_at, or remove.
redo ==
    /\ mode = "redo" /\ cursor \in DOMAIN log /\ ~ Skips(log[cursor])
    /\ PageOf(log[cursor].oid) \in valid
    /\ table' = [table EXCEPT ![log[cursor].oid] = Effect(log[cursor])]
    /\ dirty' = dirty \cup {PageOf(log[cursor].oid)}
    /\ cursor' = cursor + 1 /\ redone' = TRUE
    /\ UNCHANGED <<mode, logs, maxlsn, file, valid, grown, txs, counts>>

\* The bit of the page was lost: store_at throws. Evaluating the arguments of
\* the warning, last_used allocates a page if the file has no valid one. Then
\* store_at is called again, with success if that was the missing page.
Missing == mode = "redo" /\ cursor \in DOMAIN log /\ ~ Skips(log[cursor])
               /\ PageOf(log[cursor].oid) \notin valid
Repairs == /\ "last_used" \in EvalFirst
           /\ log[cursor].kind # "delete"
           /\ valid = {} /\ NextPage = PageOf(log[cursor].oid)

redo_repair ==
    /\ Missing /\ Repairs
    /\ allocate_page
    /\ table' = [Erased(table, NextPage) EXCEPT ![log[cursor].oid] = Effect(log[cursor])]
    /\ dirty' = dirty \cup {NextPage}
    /\ cursor' = cursor + 1 /\ redone' = TRUE
    /\ UNCHANGED <<mode, logs, maxlsn, txs, counts>>

\* Otherwise, and if is_used is evaluated first, the exception leaves apply_log
\* and the constructor of graph_db, and nobody catches it: the process can only
\* end. last_used may have erased a page before.
redo_throw ==
    /\ Missing
    /\ \/ /\ "is_used" \in EvalFirst \/ log[cursor].kind = "delete" \/ valid # {}
          /\ UNCHANGED <<file, valid, grown>>
       \/ /\ "last_used" \in EvalFirst /\ log[cursor].kind # "delete"
          /\ valid = {} /\ ~ Repairs
          /\ allocate_page
    /\ mode' = "failed"
    /\ UNCHANGED <<logs, scan, table, dirty, txs, counts>>

redo_end ==
    /\ mode = "redo" /\ cursor \notin DOMAIN log
    /\ mode' = IF redone THEN "flush" ELSE "logclose"
    /\ UNCHANGED <<logs, scan, pages, txs, counts>>

redo_flushed ==
    /\ mode = "flush" /\ dirty = {}
    /\ mode' = "checkpoint"
    /\ UNCHANGED <<logs, scan, pages, txs, counts>>

checkpoint ==
    /\ mode = "checkpoint"
    /\ append_tx("chkpt", NoTx)
    /\ mode' = "logclose"
    /\ UNCHANGED <<scan, pages, txs, counts>>

\* The log of apply_log is closed, which writes its header, and opened again.
log_close ==
    /\ mode = "logclose"
    /\ header' = lsn
    /\ cursor' = 1 /\ maxlsn' = 0 /\ redone' = FALSE
    /\ mode' = "up"
    /\ UNCHANGED <<log, lsn, pages, txs, counts>>

Next ==
    \/ \E t \in Tx :
          \/ begin_transaction(t) \/ commit_transaction(t) \/ commit_dirty_node(t)
          \/ commit_end(t) \/ abort_transaction(t)
          \/ \E o \in Oid, v \in Values : add_node(t, o, v) \/ change_node(t, "update", o, v)
          \/ \E o \in Oid : change_node(t, "delete", o, Free)
    \/ \E p \in Page : flush(p)
    \/ close \/ close_flushed \/ close_file \/ close_log \/ truncate
    \/ crash \/ open \/ redo_skip \/ redo \/ redo_repair \/ redo_throw \/ redo_end
    \/ redo_flushed \/ checkpoint \/ log_close

Spec == Init /\ [][Next]_vars

-----------------------------------------------------------------------------
Records(o) == {i \in DOMAIN log : IsData(log[i]) /\ log[i].oid = o}

LastRecord(o) == log[Max(Records(o))]
Restored(o) == PageOf(o) \in valid /\ table[o].val = Effect(LastRecord(o)).val
AfterRedo == {"flush", "checkpoint", "logclose"}

\* No recovery passes over the last record about the object because of its LSN
\* and still replays an older one, as it does when crashes have set the LSNs
\* back and the LSN of a checkpoint has come to lie between the two.
Untangled(o) ==
    \A c \in Checkpoints, i \in Records(o) :
        LastRecord(o).lsn <= log[c].lsn => log[i].lsn <= log[c].lsn

\* Recovery brings every object back to what the last record about it in the
\* log says, whatever happened between: pages flushed half-way, crashes during
\* recovery itself, checkpoints with LSNs that were given before (apply_log).
\* This is so unless a page was allocated since the log was truncated last,
\* whose bit the header of the file lacks after a crash, and for the objects
\* whose records no checkpoint puts out of order.
LogReplayed ==
    ~ grown =>
        /\ mode # "failed"
        /\ mode \in AfterRedo =>
              \A o \in Oid : Records(o) # {} /\ Untangled(o) => Restored(o)

CommitLogged(t) == \E i \in DOMAIN log : log[i].kind = "commit" /\ log[i].tx = t

\* When apply_log ends, normally or with an exception, what a transaction with
\* a commit record has written is there, on whatever page: the "check that we
\* have one insert" of test/recovery_test.cpp.
CommittedRestored ==
    mode \in AfterRedo \cup {"failed"} =>
        \A o \in Oid : Records(o) # {} /\ CommitLogged(LastRecord(o).tx) => Restored(o)

\* A record that recovery passes over because of its LSN was written before the
\* checkpoint it stops at: no later change is ever taken for an older one,
\* although a crash sets the LSNs back (apply_log, wa_log::next_lsn).
CheckpointCovers ==
    \A i \in DOMAIN log : IsData(log[i]) /\ log[i].lsn <= MaxLsn
        => \E j \in Checkpoints : i < j
=============================================================================
