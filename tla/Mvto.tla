-------------------------------- MODULE Mvto --------------------------------
(***************************************************************************)
(* Multi-version timestamp ordering as src/storage/graph_db.cpp and        *)
(* src/tx/txn_data.hpp implement it.                                       *)
(*                                                                         *)
(* An object is a node or a relationship: its record in the node or        *)
(* relationship table (the cell at position 0) and its dirty list (cells   *)
(* with growing positions, the front of the list being the largest). The   *)
(* properties an object carries are abstracted to the xid of the           *)
(* transaction that wrote them.                                            *)
(*                                                                         *)
(* One member of Tx is one transaction, run by a thread of its own. The    *)
(* steps of two transactions interleave at every point where the code      *)
(* holds no mutex that keeps the other one out, except in the states       *)
(* app.atomic, where the application keeps other threads out.              *)
(***************************************************************************)
EXTENDS Versions, Integers, Sequences, FiniteSetsExt

CONSTANTS
    Tx,          \* transactions
    Obj,         \* slots of the node and the relationship table
    Rship,       \* those of the relationship table
    Connected,   \* nodes with a relationship that every transaction can see
    MaxXid,      \* bound on the clock
    Profile,     \* the applications considered
    Absent,      \* what a reader learns from unknown_id
    Lost,        \* what it finds in property lists that have been removed
    NoObj

INF == MaxXid + 1
Xid == 0 .. MaxXid
State == {"idle", "begun", "active", "checked", "locked", "failed",
          "committing", "aborting", "committed", "aborted"}
Operation == {"read", "scan", "add", "update", "scan_update", "delete", "detach_delete"}
Writes == {"update", "scan_update", "delete", "detach_delete"}
Value == Xid \cup {Absent, Lost}

\* What is known of an application: the objects there are at the start, the
\* operations it uses, whether it deletes objects it has written before, and
\* the states of a transaction in which it lets no other one run.
Application == [obj : SUBSET Obj, op : SUBSET Operation, rewrite : BOOLEAN, atomic : SUBSET State]

ASSUME MvtoAssumption ==
    /\ MaxXid \in Nat
    /\ Rship \subseteq Obj /\ Connected \subseteq Obj \ Rship
    /\ Profile \subseteq Application
    /\ Absent \notin Int /\ Lost \notin Int /\ NoObj \notin Obj

Cell == [pos : Nat, lock : Xid, bts : Xid, cts : 0 .. INF, rts : Xid,
         val : Value, upd : BOOLEAN]

VARIABLES
    app,       \* the application that runs: a member of Profile
    used,      \* the slots whose bit is set
    main,      \* the persistent record of a slot
    vers,      \* its dirty list
    clock,     \* system_clock
    state, xid,
    call,      \* the write a transaction is in: [op, obj, ref]
    nodes,     \* dirty_nodes_
    rships,    \* dirty_rships_
    todo,      \* the dirty objects commit or abort still has to process
    active,    \* active_tx_
    oldest,    \* oldest_xid_
    garbage,   \* garbage_
    wrote,     \* history: how a transaction has changed an object
    reads      \* history: what it has read in versions of others

table == <<used, main, vers>>
txn == <<state, xid, call, nodes, rships, todo>>
shared == <<clock, active, oldest, garbage>>
history == <<wrote, reads>>
vars == <<app, table, txn, shared, history>>

Kind == {"none", "insert", "update", "delete"}
NoCall == [op |-> "read", obj |-> NoObj, ref |-> 0]

TypeOK ==
    /\ app \in Profile
    /\ used \subseteq Obj
    /\ main \in [Obj -> Cell]
    /\ vers \in [Obj -> SUBSET Cell]
    /\ clock \in Xid
    /\ state \in [Tx -> State]
    /\ xid \in [Tx -> Xid]
    /\ call \in [Tx -> [op : Operation, obj : Obj \cup {NoObj}, ref : Nat]]
    /\ nodes \in [Tx -> Seq(Obj)] /\ rships \in [Tx -> Seq(Obj)] /\ todo \in [Tx -> Seq(Obj)]
    /\ active \subseteq Xid
    /\ oldest \in Xid
    /\ garbage \subseteq Obj
    /\ wrote \in [Tx -> [Obj -> Kind]]
    /\ reads \in [Tx -> SUBSET (Obj \X Value)]

-----------------------------------------------------------------------------
has_dirty_versions(o) == vers[o] # {}

\* The cell a reference refers to.
CellAt(o, ref) == IF ref = 0 THEN main[o] ELSE CHOOSE v \in vers[o] : v.pos = ref

\* node_by_id and rship_by_id, once rts has been set: the slot may be unused.
by_id(o, x) == IF o \in used THEN get_valid_version(main[o], vers[o], x) ELSE [exc |-> "unknown_id", ref |-> 0]

\* The properties a reader gets out of the version find_valid_version returns.
FoundValue(o, x) ==
    LET f == find_valid_version(vers[o], x)
    IN  [exc |-> f.exc, val |-> IF f.exc = "none" THEN CellAt(o, f.ref).val ELSE Absent]

\* get_node_description and get_rship_description: the properties come from
\* the property table, or from the dirty list when a newer transaction has
\* written to the object. For relationships the code does not tell a deleted
\* record from one that is still there.
Described(o, x) ==
    LET r == by_id(o, x)
    IN  IF r.exc # "none" THEN [exc |-> r.exc, val |-> Absent]
        ELSE IF r.ref = 0 /\ (~ has_dirty_versions(o) \/ o \in Rship \/ main[o].cts = INF)
        THEN [exc |-> "none", val |-> main[o].val]
        ELSE FoundValue(o, x)

\* query_ctx::nodes passes over records with a commit timestamp and over
\* those that raise unknown_id. It never sets rts.
Scanned(o, x) ==
    IF o \notin used \/ main[o].cts # INF THEN [exc |-> "unknown_id", ref |-> 0]
    ELSE get_valid_version(main[o], vers[o], x)

\* get_valid_node_property_value of what the scan has found.
ScanValue(o, x) ==
    LET r == Scanned(o, x)
    IN  IF r.exc # "none" THEN [exc |-> r.exc, val |-> Absent]
        ELSE IF ~ has_dirty_versions(o) THEN [exc |-> "none", val |-> main[o].val]
        ELSE FoundValue(o, x)

-----------------------------------------------------------------------------
\* What the table holds in a slot that was filled by an earlier run.
Record(v) == [pos |-> 0, lock |-> 0, bts |-> 0, cts |-> INF, rts |-> 0, val |-> v, upd |-> FALSE]

Init ==
    /\ app \in Profile
    /\ used = app.obj
    /\ main = [o \in Obj |-> Record(IF o \in app.obj THEN 0 ELSE Lost)]
    /\ vers = [o \in Obj |-> {}]
    /\ clock = 0
    /\ state = [t \in Tx |-> "idle"] /\ xid = [t \in Tx |-> 0]
    /\ call = [t \in Tx |-> NoCall]
    /\ nodes = [t \in Tx |-> <<>>] /\ rships = [t \in Tx |-> <<>>] /\ todo = [t \in Tx |-> <<>>]
    /\ active = {} /\ oldest = 0 /\ garbage = {}
    /\ wrote = [t \in Tx |-> [o \in Obj |-> "none"]]
    /\ reads = [t \in Tx |-> {}]

\* t is in state s, and no other transaction is in the middle of a step that
\* the application protects.
At(t, s) == state[t] = s /\ \A u \in Tx \ {t} : state[u] \notin app.atomic

-----------------------------------------------------------------------------
\* begin_transaction: the transaction takes its xid from the clock ...
begin_transaction(t) ==
    /\ At(t, "idle") /\ clock < MaxXid
    /\ clock' = clock + 1
    /\ xid' = [xid EXCEPT ![t] = clock + 1]
    /\ state' = [state EXCEPT ![t] = "begun"]
    /\ UNCHANGED <<table, call, nodes, rships, todo, active, oldest, garbage, history>>

\* ... and, once the log has its begin record, enters active_tx_.
begin_active(t) ==
    /\ At(t, "begun")
    /\ active' = active \cup {xid[t]}
    /\ state' = [state EXCEPT ![t] = "active"]
    /\ UNCHANGED <<table, xid, call, nodes, rships, todo, clock, oldest, garbage, history>>

\* Mutant: reads are not recorded.
set_rts_nothing(o, x) == main

\* set_rts on the record of o.
set_rts(o, x) ==
    IF o \in used THEN [main EXCEPT ![o].rts = IF @ < x THEN x ELSE @] ELSE main

\* What t learns from reading v in o: nothing about others when it has written
\* the object itself.
Learn(t, o, v) ==
    reads' = IF wrote[t][o] = "none" THEN [reads EXCEPT ![t] = @ \cup {<<o, v>>}] ELSE reads

\* get_node_description and get_rship_description.
read(t, o) ==
    LET d == Described(o, xid[t])
    IN  /\ At(t, "active") /\ "read" \in app.op
        /\ main' = set_rts(o, xid[t])
        /\ \/ /\ d.exc = "transaction_abort"
              /\ state' = [state EXCEPT ![t] = "failed"] /\ UNCHANGED reads
           \/ /\ d.exc # "transaction_abort"
              /\ Learn(t, o, d.val) /\ UNCHANGED state
        /\ UNCHANGED <<used, vers, xid, call, nodes, rships, todo, shared, wrote>>

\* A scan reaching o.
scan(t, o) ==
    LET d == ScanValue(o, xid[t])
    IN  /\ At(t, "active") /\ "scan" \in app.op
        /\ \/ /\ d.exc = "transaction_abort"
              /\ state' = [state EXCEPT ![t] = "failed"] /\ UNCHANGED reads
           \/ /\ d.exc # "transaction_abort"
              /\ Learn(t, o, d.val) /\ UNCHANGED state
        /\ UNCHANGED <<table, xid, call, nodes, rships, todo, shared, wrote>>

-----------------------------------------------------------------------------
\* The writing operations. First they get the object, by its id or from a
\* scan, and compare its rts with their own timestamp.
check_rts(t, o, op) ==
    LET x == xid[t]
        m == IF op = "scan_update" THEN main ELSE set_rts(o, x)
        r == IF op = "scan_update" THEN Scanned(o, x) ELSE by_id(o, x)
        c == IF r.ref = 0 THEN m[o] ELSE CellAt(o, r.ref)
    IN  /\ At(t, "active") /\ op \in app.op
        /\ op \in {"delete", "detach_delete"} /\ wrote[t][o] # "none" => app.rewrite
        /\ op = "detach_delete" => o \notin Rship \cup Connected
        /\ main' = m
        /\ \/ /\ r.exc = "unknown_id"
              /\ Learn(t, o, Absent) /\ UNCHANGED <<state, call>>
           \/ /\ r.exc = "transaction_abort" \/ (r.exc = "none" /\ c.rts > x)
              /\ state' = [state EXCEPT ![t] = "failed"] /\ UNCHANGED <<call, reads>>
           \/ /\ r.exc = "none" /\ c.rts <= x
              /\ Learn(t, o, c.val)
              /\ state' = [state EXCEPT ![t] = "checked"]
              /\ call' = [call EXCEPT ![t] = [op |-> op, obj |-> o, ref |-> r.ref]]
        /\ UNCHANGED <<used, vers, xid, nodes, rships, todo, shared, wrote>>

\* The tables after the cell that ref refers to has become c.
Put(o, ref, c) ==
    IF ref = 0 THEN main' = [main EXCEPT ![o] = c] /\ UNCHANGED vers
    ELSE vers' = [vers EXCEPT ![o] = (@ \ {CellAt(o, ref)}) \cup {c}] /\ UNCHANGED main

\* Mutant: the lock of another transaction is overridden.
try_lock_always(t) ==
    LET o == call[t].obj
        c == CellAt(o, call[t].ref)
    IN  /\ At(t, "checked") /\ call[t].op \in Writes
        /\ Put(o, call[t].ref, [c EXCEPT !.lock = xid[t]])
        /\ state' = [state EXCEPT ![t] = "locked"]
        /\ UNCHANGED <<used, xid, call, nodes, rships, todo, shared, history>>

\* Then they lock the version they got, or give up.
try_lock(t) ==
    LET o == call[t].obj
        c == CellAt(o, call[t].ref)
    IN  /\ At(t, "checked") /\ call[t].op \in Writes
        /\ \/ /\ c.lock \in {0, xid[t]}
              /\ Put(o, call[t].ref, [c EXCEPT !.lock = xid[t]])
              /\ state' = [state EXCEPT ![t] = "locked"]
           \/ /\ c.lock \notin {0, xid[t]}
              /\ state' = [state EXCEPT ![t] = "failed"] /\ UNCHANGED <<main, vers>>
        /\ UNCHANGED <<used, xid, call, nodes, rships, todo, shared, history>>

\* Mutant: the new version keeps the old properties.
NewVersionStale(V, c, x, v, cts) ==
    [c EXCEPT !.pos = NextPos(V), !.bts = x, !.cts = cts, !.upd = TRUE]

\* The copies of c that add_dirty_version puts into the list V: the version
\* older transactions may still read, and the one of transaction x itself.
OldVersion(V, c, x, v) ==
    [c EXCEPT !.pos = NextPos(V), !.cts = x, !.lock = 0, !.val = v, !.upd = TRUE]
NewVersion(V, c, x, v, cts) ==
    [c EXCEPT !.pos = NextPos(V), !.bts = x, !.cts = cts, !.val = v, !.upd = TRUE]

\* The object joins the list of dirty nodes or of dirty relationships of t.
MarkDirty(t, o) ==
    IF o \in Rship THEN rships' = [rships EXCEPT ![t] = Append(@, o)] /\ UNCHANGED nodes
    ELSE nodes' = [nodes EXCEPT ![t] = Append(@, o)] /\ UNCHANGED rships

Wrote(t, o, kind) ==
    wrote' = [wrote EXCEPT ![t][o] = IF @ = "insert" /\ kind = "update" THEN @ ELSE kind]

\* update_node and update_relationship: in place when t has a version of its
\* own already, otherwise in a new one.
update(t) ==
    LET o == call[t].obj
        x == xid[t]
        c == CellAt(o, call[t].ref)
        own == {v \in vers[o] : v.lock = x}
        old == OldVersion(vers[o], c, x, main[o].val)
        new == NewVersion(vers[o] \cup {old}, c, x, x, INF)
    IN  /\ At(t, "locked") /\ call[t].op \in {"update", "scan_update"}
        /\ \/ /\ own # {}
              /\ LET v == FrontOf(own)
                 IN  vers' = [vers EXCEPT ![o] = (@ \ {v}) \cup {[v EXCEPT !.val = x]}]
              /\ UNCHANGED <<nodes, rships>>
           \/ /\ own = {}
              /\ vers' = [vers EXCEPT ![o] = @ \cup {old, new}]
              /\ MarkDirty(t, o)
        /\ Wrote(t, o, "update")
        /\ state' = [state EXCEPT ![t] = "active"] /\ call' = [call EXCEPT ![t] = NoCall]
        /\ UNCHANGED <<used, main, xid, todo, shared, reads>>

\* delete_node gives up when the node has relationships, after it has released
\* the lock of the version it got.
delete_orphaned(t) ==
    LET o == call[t].obj
    IN  /\ At(t, "locked") /\ call[t].op = "delete" /\ o \in Connected
        /\ Put(o, call[t].ref, [CellAt(o, call[t].ref) EXCEPT !.lock = 0])
        /\ state' = [state EXCEPT ![t] = "failed"] /\ call' = [call EXCEPT ![t] = NoCall]
        /\ UNCHANGED <<used, xid, nodes, rships, todo, shared, history>>

\* Whether the old version is kept for older readers: always in delete_node,
\* only for an empty list in detach_delete_node and delete_relationship.
KeepsOld(o, op) == (o \notin Rship /\ op = "delete") \/ ~ has_dirty_versions(o)

delete(t) ==
    LET o == call[t].obj
        x == xid[t]
        c == CellAt(o, call[t].ref)
        old == IF KeepsOld(o, call[t].op) THEN {OldVersion(vers[o], c, x, main[o].val)} ELSE {}
        new == NewVersion(vers[o] \cup old, c, x, Lost, x)
    IN  /\ At(t, "locked") /\ call[t].op \in {"delete", "detach_delete"} /\ o \notin Connected
        /\ vers' = [vers EXCEPT ![o] = @ \cup old \cup {new}]
        /\ MarkDirty(t, o)
        /\ Wrote(t, o, "delete")
        /\ state' = [state EXCEPT ![t] = "active"] /\ call' = [call EXCEPT ![t] = NoCall]
        /\ UNCHANGED <<used, main, xid, todo, shared, reads>>

\* add_node: the record goes into a free slot of the table ...
add_store(t, o) ==
    /\ At(t, "active") /\ "add" \in app.op
    /\ o \notin used
    /\ used' = used \cup {o}
    /\ main' = [main EXCEPT ![o] = Record(Lost)]
    /\ vers' = [vers EXCEPT ![o] = {}]
    /\ state' = [state EXCEPT ![t] = "checked"]
    /\ call' = [call EXCEPT ![t] = [op |-> "add", obj |-> o, ref |-> 0]]
    /\ UNCHANGED <<xid, nodes, rships, todo, shared, history>>

\* ... is locked there (txn::lock takes the lock whoever has it), and gets a dirty version with its properties.
add_lock(t) ==
    LET o == call[t].obj
        c == [main[o] EXCEPT !.lock = xid[t]]
    IN  /\ At(t, "checked") /\ call[t].op = "add"
        /\ main' = [main EXCEPT ![o] = c]
        /\ vers' = [vers EXCEPT ![o] = @ \cup {[c EXCEPT !.pos = NextPos(vers[o]), !.val = xid[t]]}]
        /\ MarkDirty(t, o)
        /\ Wrote(t, o, "insert")
        /\ state' = [state EXCEPT ![t] = "active"] /\ call' = [call EXCEPT ![t] = NoCall]
        /\ UNCHANGED <<used, xid, todo, shared, reads>>

-----------------------------------------------------------------------------
\* Mutant: the youngest transaction counts.
LeaveYoungest(t) ==
    /\ active' = active \ {xid[t]}
    /\ oldest' = IF active' # {} THEN Max(active') ELSE xid[t]
    /\ UNCHANGED <<table, xid, call, nodes, rships, clock, garbage, history>>

\* Both ends of a transaction first leave active_tx_ and recompute oldest_xid_.
Leave(t) ==
    /\ active' = active \ {xid[t]}
    /\ oldest' = IF active' # {} THEN Min(active') ELSE xid[t]
    /\ UNCHANGED <<table, xid, call, nodes, rships, clock, garbage, history>>

commit_transaction(t) ==
    /\ At(t, "active")
    /\ state' = [state EXCEPT ![t] = "committing"]
    /\ todo' = [todo EXCEPT ![t] = rships[t] \o nodes[t]]
    /\ Leave(t)

abort_transaction(t) ==
    /\ At(t, "active") \/ At(t, "failed")
    /\ state' = [state EXCEPT ![t] = "aborting"]
    /\ todo' = [todo EXCEPT ![t] = nodes[t] \o rships[t]]
    /\ Leave(t)

\* The record c once version f has been committed: deletion only sets cts and
\* removes the properties, insertion and update make f the record.
Committed(c, f, x) ==
    IF IsDeletion(f) THEN [c EXCEPT !.lock = 0, !.cts = x, !.val = Lost]
    ELSE [c EXCEPT !.lock = 0, !.bts = x, !.cts = INF, !.val = f.val]

\* commit_dirty_node and commit_dirty_relationship. The exception for a record
\* or a version that is missing leaves commit_transaction in the middle.
commit_dirty(t) ==
    LET o == Head(todo[t])
        x == xid[t]
        f == FrontOf(vers[o])
        deleted == main[o].cts # INF
    IN  /\ At(t, "committing") /\ todo[t] # <<>>
        /\ \/ /\ o \notin used \/ (~ deleted /\ ~ has_dirty_versions(o))
              /\ state' = [state EXCEPT ![t] = "failed"]
              /\ UNCHANGED <<main, vers, todo, garbage>>
           \/ /\ o \in used /\ deleted
              /\ vers' = [vers EXCEPT ![o] = remove_dirty_version(@, 0, INF)]
              /\ todo' = [todo EXCEPT ![t] = Tail(@)]
              /\ UNCHANGED <<main, state, garbage>>
           \/ /\ o \in used /\ ~ deleted /\ has_dirty_versions(o)
              /\ main' = [main EXCEPT ![o] = Committed(@, f, x)]
              /\ vers' = [vers EXCEPT ![o] = gc(IF f.upd THEN PopUnlock(@) ELSE @ \ {f}, oldest)]
              /\ garbage' = IF IsDeletion(f) THEN garbage \cup {o} ELSE garbage
              /\ todo' = [todo EXCEPT ![t] = Tail(@)]
              /\ UNCHANGED state
        /\ UNCHANGED <<used, xid, call, nodes, rships, clock, active, oldest, history>>

\* What abort_transaction does with a dirty object. It, too, is left with
\* unknown_id when the record is gone.
abort_dirty(t) ==
    LET o == Head(todo[t])
        x == xid[t]
        own == {v \in vers[o] : v.lock = x}
        updated == own # {} /\ FrontOf(own).upd
    IN  /\ At(t, "aborting") /\ todo[t] # <<>>
        /\ \/ /\ o \notin used
              /\ state' = [state EXCEPT ![t] = "failed"]
              /\ UNCHANGED <<table, todo>>
           \/ /\ o \in used
              /\ vers' = [vers EXCEPT ![o] = remove_dirty_version(@, x, INF)]
              /\ main' = [main EXCEPT ![o].lock = 0]
              /\ used' = IF updated THEN used ELSE used \ {o}
              /\ todo' = [todo EXCEPT ![t] = Tail(@)]
              /\ UNCHANGED state
        /\ UNCHANGED <<xid, call, nodes, rships, shared, history>>

\* vacuum: an object that was deleted and has no version left is removed.
vacuum ==
    LET removed == {o \in garbage \cap used : gc(vers[o], oldest) = {}}
    IN  /\ vers' = [o \in Obj |-> IF o \in garbage THEN gc(vers[o], oldest) ELSE vers[o]]
        /\ main' = [o \in Obj |-> IF o \in removed THEN Record(Lost) ELSE main[o]]
        /\ used' = used \ removed
        /\ garbage' = garbage \ removed

commit_end(t) ==
    /\ At(t, "committing") /\ todo[t] = <<>>
    /\ vacuum
    /\ state' = [state EXCEPT ![t] = "committed"]
    /\ UNCHANGED <<xid, call, nodes, rships, todo, clock, active, oldest, history>>

abort_end(t) ==
    /\ At(t, "aborting") /\ todo[t] = <<>>
    /\ vacuum
    /\ state' = [state EXCEPT ![t] = "aborted"]
    /\ UNCHANGED <<xid, call, nodes, rships, todo, clock, active, oldest, history>>

Step(t) ==
    \/ begin_transaction(t) \/ begin_active(t)
    \/ \E o \in app.obj : read(t, o) \/ scan(t, o) \/ add_store(t, o)
    \/ \E o \in app.obj, op \in Writes : check_rts(t, o, op)
    \/ try_lock(t) \/ update(t) \/ delete_orphaned(t) \/ delete(t) \/ add_lock(t)
    \/ commit_transaction(t) \/ commit_dirty(t) \/ commit_end(t)
    \/ abort_transaction(t) \/ abort_dirty(t) \/ abort_end(t)

Next == (\E t \in Tx : Step(t)) /\ UNCHANGED app

Spec == Init /\ [][Next]_vars

-----------------------------------------------------------------------------
Ended == {"idle", "committed", "aborted"}
Decided == {"committing", "committed"}

\* Applications that let no two calls overlap and never delete what they have
\* written in the same transaction.
Disciplined == {"checked", "locked"} \subseteq app.atomic /\ ~ app.rewrite

\* Applications whose deletions, if any, are all refused.
Deletes == app.op \cap {"delete", "detach_delete"} # {} /\ ~ (app.obj \subseteq Connected)

\* The transactions up to timestamp x whose commit has been called and that
\* have changed o.
Writers(o, x) == {t \in Tx : state[t] \in Decided /\ wrote[t][o] # "none" /\ xid[t] <= x}
LastWriter(o, x) == CHOOSE t \in Writers(o, x) : \A u \in Writers(o, x) : xid[u] <= xid[t]

\* The value o has for timestamp x when the transactions run one after the
\* other in the order of their timestamps.
Snapshot(o, x) ==
    IF Writers(o, x) = {} THEN IF o \in app.obj THEN 0 ELSE Absent
    ELSE IF wrote[LastWriter(o, x)][o] = "delete" THEN Absent ELSE xid[LastWriter(o, x)]

\* A reader may miss an object that an older transaction inserts and commits
\* later: nothing in the code remembers that it has looked for it.
Phantom(o, x) == \E t \in Writers(o, x) : wrote[t][o] = "insert"

\* What a transaction has read is what it would have read had the committed
\* transactions run one by one in timestamp order: no version is read that
\* was never committed, and no older transaction slips a version in later
\* (rts check of update_node, find_valid_version, gc).
ReadsSerializable ==
    Disciplined => \A t \in Tx : state[t] # "aborted" =>
        \A r \in reads[t] :
            \/ r[2] = Snapshot(r[1], xid[t] - 1)
            \/ r[2] = Absent /\ Phantom(r[1], xid[t] - 1)

\* Once every transaction has ended the tables hold what the committed ones
\* wrote last, in timestamp order, and nothing of those that aborted.
FinalState ==
    Disciplined /\ (\A t \in Tx : state[t] \in Ended) =>
        \A o \in Obj :
            LET v == Snapshot(o, MaxXid)
            IN  IF v = Absent THEN o \notin used \/ main[o].cts # INF
                ELSE o \in used /\ main[o].cts = INF /\ main[o].val = v

\* Locks are only held by transactions that still run: none is left behind on
\* a record or on a version when its owner has committed or aborted (an
\* aborted deletion leaves its version, and the lock on it, in the list).
LocksLive ==
    ~ Deletes => \A o \in used : \A c \in {main[o]} \cup vers[o] :
        c.lock # 0 => \E t \in Tx : xid[t] = c.lock /\ state[t] \notin Ended

\* gc and vacuum keep what a running transaction can still ask for: as long
\* as o exists in the snapshot of an active transaction its slot is not
\* released.
RemovedUnneeded ==
    ~ app.rewrite => \A t \in Tx, o \in Obj \ used :
        state[t] \in {"begun", "active", "checked", "locked"} /\ wrote[t][o] = "none"
            => Snapshot(o, xid[t]) = Absent

\* When all transactions have ended, vacuum has removed the deleted objects
\* nobody can ask for any more.
Vacuumed ==
    ~ app.rewrite /\ (\A t \in Tx : state[t] \in Ended) => \A o \in garbage : main[o].cts > oldest

\* The transactions that have entered active_tx_ and not yet left it.
Running == {"active", "checked", "locked"}

\* No running transaction is older than oldest_xid_: gc, which removes what
\* ended up to there, keeps every version such a transaction can read.
OldestSafe ==
    \A t \in Tx : state[t] \in Running => xid[t] \in active /\ oldest <= xid[t]

\* commit_dirty_node and abort_transaction find the records and the versions
\* they work on, so that they do not end in the middle with an exception.
DirtyFound ==
    ~ app.rewrite => \A t \in Tx : state[t] \in {"committing", "aborting"} /\ todo[t] # <<>> =>
        LET o == Head(todo[t])
        IN  /\ o \in used
            /\ state[t] = "committing" /\ main[o].cts = INF => has_dirty_versions(o)
=============================================================================
