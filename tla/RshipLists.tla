----------------------------- MODULE RshipLists -----------------------------
(***************************************************************************)
(* The relationship lists of src/storage/graph_db.cpp: a node record holds *)
(* the first relationship it is the from-node of and the first it is the   *)
(* to-node of, a relationship record the next one in either list. They are *)
(* changed under multi-versioning by transactions that add and delete, and *)
(* in place by vacuum (graph_db_gc.cpp).                                   *)
(*                                                                         *)
(* An object is [used, rec, vers]: the bit of its slot, its record and its *)
(* dirty list (module Versions). The link of a node is the head of a list, *)
(* that of a relationship its next relationship, one for each direction.   *)
(*                                                                         *)
(* A call of the API is one step, as is the whole of commit and of abort:  *)
(* Mvto has the steps inside them. Transactions begin in the order of      *)
(* their numbers, which are their timestamps.                              *)
(***************************************************************************)
EXTENDS Versions, Sequences, SequencesExt

CONSTANTS
    Tx,          \* timestamps of the transactions: 1 .. n
    Node,        \* slots of the node table
    MaxRship,    \* number of slots of the relationship table
    Graph,       \* the ends of the relationships in its first slots
    Pair,        \* the ends of what the transactions add
    MaxCalls,    \* bound on the calls of all transactions
    Disciplined, \* whether the application keeps additions and deletions apart
    UNKNOWN

Dir == {"from", "to"}
Rship == 1 .. MaxRship
Obj == Node \cup Rship
INF == Cardinality(Tx) + 1
Xid == 0 .. Cardinality(Tx)
Link == Rship \cup {UNKNOWN}
NoLink == [d \in Dir |-> UNKNOWN]

ASSUME RshipListsAssumption ==
    /\ Tx = 1 .. Cardinality(Tx) /\ MaxCalls \in Nat /\ Disciplined \in BOOLEAN
    /\ Node \cap Rship = {} /\ UNKNOWN \notin Obj
    /\ MaxRship \in Nat /\ Graph \in Seq([Dir -> Node]) /\ Len(Graph) <= MaxRship
    /\ Pair \subseteq [Dir -> Node]

Cell == [pos : Nat, lock : Xid, bts : Xid, cts : 0 .. INF, rts : Xid, upd : BOOLEAN,
         link : [Dir -> Link]]

VARIABLES
    tab,      \* the node and the relationship table
    ends,     \* src_node and dest_node of a relationship
    by,       \* history: who has added the relationship in a slot
    state,
    calls,    \* number of calls so far
    dirty,    \* dirty_nodes_ and dirty_rships_
    oldest,   \* oldest_xid_
    garbage,  \* garbage_
    raised,   \* history: vacuum has run into an exception
    added,    \* history: <<relationship, ends>> a transaction has added
    deleted   \* history: <<slot, adder>> of what it has deleted, nodes as <<node, 0>>

vars == <<tab, ends, by, state, calls, dirty, oldest, garbage, raised, added, deleted>>

TypeOK ==
    /\ tab \in [Obj -> [used : BOOLEAN, rec : Cell, vers : SUBSET Cell]]
    /\ ends \in [Rship -> [Dir -> Node]]
    /\ by \in [Rship -> Xid]
    /\ state \in [Tx -> {"idle", "active", "failed", "committed", "aborted"}]
    /\ calls \in 0 .. MaxCalls
    /\ dirty \in [Tx -> [nodes : Seq(Node), rships : Seq(Rship)]]
    /\ oldest \in Xid
    /\ garbage \in Seq(Obj)
    /\ raised \in BOOLEAN
    /\ added \in [Tx -> SUBSET (Rship \X [Dir -> Node])]
    /\ deleted \in [Tx -> SUBSET (Obj \X Xid)]

-----------------------------------------------------------------------------
(* Versions of an object in table T. *)

Fresh(link) == [pos |-> 0, lock |-> 0, bts |-> 0, cts |-> INF, rts |-> 0, upd |-> FALSE, link |-> link]

CellAt(T, o, ref) == IF ref = 0 THEN T[o].rec ELSE CHOOSE v \in T[o].vers : v.pos = ref
Put(T, o, ref, c) ==
    IF ref = 0 THEN [T EXCEPT ![o].rec = c]
    ELSE [T EXCEPT ![o].vers = (@ \ {CellAt(T, o, ref)}) \cup {c}]

set_rts(T, o, x) == [T EXCEPT ![o].rec.rts = IF @ < x THEN x ELSE @]

\* node_by_id and rship_by_id: what they throw or return, and the table after it.
by_id(T, o, x) ==
    IF ~ T[o].used THEN [exc |-> "unknown_id", ref |-> 0, tab |-> T]
    ELSE LET r == get_valid_version(T[o].rec, T[o].vers, x)
         IN  [exc |-> r.exc, ref |-> r.ref, tab |-> set_rts(T, o, x)]

\* The check of rts and the lock that come before every change of the version ref.
Locked(T, o, ref, x) ==
    LET c == CellAt(T, o, ref)
    IN  IF c.rts > x \/ c.lock \notin {0, x} THEN [exc |-> "transaction_abort", tab |-> T]
        ELSE [exc |-> "none", tab |-> Put(T, o, ref, [c EXCEPT !.lock = x])]

\* The two copies of cell c that add_dirty_version puts in front of list V.
OldVersion(V, c, x) == [c EXCEPT !.pos = NextPos(V), !.cts = x, !.lock = 0, !.upd = TRUE]
NewVersion(V, c, x, cts) ==
    [c EXCEPT !.pos = NextPos(V), !.bts = x, !.cts = cts, !.upd = TRUE]
AddDirty(T, o, c) == [T EXCEPT ![o].vers = @ \cup {c}]

-----------------------------------------------------------------------------
(* Walks along a list. They end at UNKNOWN or, with unknown_id, at a slot    *)
(* that is not in use; no list is longer than there are slots.               *)

MaxHops == 0 .. MaxRship

\* The records from h on, as rships_->get and the records' own links give them.
RecordPath(T, h, d) ==
    LET next(r) == IF r # UNKNOWN /\ T[r].used THEN T[r].rec.link[d] ELSE UNKNOWN
        p[k \in MaxHops] == IF k = 0 THEN h ELSE next(p[k - 1])
    IN  [k \in MaxHops |-> p[k]]
OnPath(p) == {p[k] : k \in MaxHops} \ {UNKNOWN}
Dangling(T, p) == \E r \in OnPath(p) : ~ T[r].used
Endless(p) == p[MaxRship] # UNKNOWN

\* foreach_from_relationship_of_node and foreach_to_relationship_of_node: the
\* versions rship_by_id finds, and the links of these versions.
Walk(T, h, d, x) ==
    LET got == [r \in Rship |-> by_id(T, r, x)]
        next(r) == IF r # UNKNOWN /\ got[r].exc = "none" THEN CellAt(T, r, got[r].ref).link[d] ELSE UNKNOWN
        p[k \in MaxHops] == IF k = 0 THEN h ELSE next(p[k - 1])
        visited == OnPath([k \in MaxHops |-> p[k]])
        failed == {r \in visited : got[r].exc # "none"}
    IN  [exc |-> IF failed = {} THEN "none" ELSE got[CHOOSE r \in failed : TRUE].exc,
         visited |-> visited,
         found |-> {r \in visited \ failed : CellAt(T, r, got[r].ref).cts = INF}]

\* The relationships of list d, starting at h, that x may still see according
\* to detach_delete_node and delete_relationship(src, dest).
has_valid_version(V, x) == find_valid_version(V, x).exc = "none"
StillValid(T, r, x) ==
    IF T[r].rec.lock = x THEN has_valid_version(T[r].vers, x) ELSE is_valid_for(T[r].rec, x)

\* Mutant: a relationship the transaction has locked itself is not looked at.
has_valid_rships_own(T, h, d, x) == IF h # UNKNOWN /\ T[h].rec.lock = x THEN "no" ELSE
    IF h # UNKNOWN /\ T[h].used /\ StillValid(T, h, x) THEN "orphaned_relationship" ELSE "no"

\* has_valid_from_rships and has_valid_to_rships: the first relationship that
\* x has not locked itself decides.
has_valid_rships(T, h, d, x) ==
    LET p == RecordPath(T, h, d)
        stops(k) ==
            p[k] # UNKNOWN /\ (~ T[p[k]].used \/ T[p[k]].rec.lock # x \/ StillValid(T, p[k], x))
        first == {k \in MaxHops : stops(k) /\ \A j \in 0 .. k - 1 : ~ stops(j)}
    IN  IF \E k \in first : ~ T[p[k]].used THEN "unknown_id"
        ELSE IF \E k \in first : StillValid(T, p[k], x) THEN "orphaned_relationship"
        ELSE "no"

-----------------------------------------------------------------------------
(* The operations, as functions of the table: [exc, tab, nodes, rships] with *)
(* the objects they append to the dirty lists of the transaction.            *)

Result(exc, T, ns, rs) == [exc |-> exc, tab |-> T, nodes |-> ns, rships |-> rs]

\* Mutant: the rest of the list is lost.
Prepend_only(T, n, v, r, d) == Put(T, n, v.pos, [v EXCEPT !.link[d] = r])

\* Version v of n gets r as the new head of list d; the record of r gets the
\* old head as its next relationship.
Prepend(T, n, v, r, d) ==
    [Put(T, n, v.pos, [v EXCEPT !.link[d] = r]) EXCEPT ![r].rec.link[d] = v.link[d]]

\* update_from_node and update_to_node.
update_end(T, n, ref, r, d, x) ==
    LET l == Locked(T, n, ref, x)
        c == CellAt(l.tab, n, ref)
        V == l.tab[n].vers
        own == {v \in V : v.lock = x}
        old == OldVersion(V, c, x)
        new == NewVersion(V \cup {old}, c, x, INF)
    IN  IF l.exc # "none" THEN Result(l.exc, l.tab, <<>>, <<>>)
        ELSE IF own # {} THEN Result("none", Prepend(l.tab, n, FrontOf(own), r, d), <<>>, <<>>)
        ELSE Result("none", Prepend(AddDirty(AddDirty(l.tab, n, old), n, new), n, new, r, d),
                    <<n>>, <<>>)

\* add_relationship into slot r. Its dirty version is copied before the links
\* of the record are set.
AddRship(T, r, e, x) ==
    LET f == by_id(T, e["from"], x)
        g == by_id(f.tab, e["to"], x)
        rec == [Fresh(NoLink) EXCEPT !.lock = x]
        T1 == [g.tab EXCEPT ![r] = [used |-> TRUE, rec |-> rec, vers |-> {[rec EXCEPT !.pos = 1]}]]
        u1 == update_end(T1, e["from"], f.ref, r, "from", x)
        u2 == update_end(u1.tab, e["to"], g.ref, r, "to", x)
    IN  IF f.exc # "none" THEN Result(f.exc, f.tab, <<>>, <<>>)
        ELSE IF g.exc # "none" THEN Result(g.exc, g.tab, <<>>, <<>>)
        ELSE IF u1.exc # "none" THEN Result(u1.exc, u1.tab, <<>>, <<r>>)
        ELSE Result(u2.exc, u2.tab, u1.nodes \o u2.nodes, <<r>>)

\* delete_relationship(id).
DeleteRship(T, r, x) ==
    LET f == by_id(T, r, x)
        l == Locked(f.tab, r, f.ref, x)
        c == CellAt(l.tab, r, f.ref)
        T1 == IF l.tab[r].vers = {} THEN AddDirty(l.tab, r, OldVersion({}, c, x)) ELSE l.tab
    IN  IF f.exc # "none" THEN Result(f.exc, f.tab, <<>>, <<>>)
        ELSE IF l.exc # "none" THEN Result(l.exc, l.tab, <<>>, <<>>)
        ELSE Result("none", AddDirty(T1, r, NewVersion(T1[r].vers, c, x, x)), <<>>, <<r>>)

\* delete_node releases the version it got when it refuses.
DeleteNode(T, n, x) ==
    LET f == by_id(T, n, x)
        l == Locked(f.tab, n, f.ref, x)
        c == CellAt(l.tab, n, f.ref)
        T1 == AddDirty(l.tab, n, OldVersion(l.tab[n].vers, c, x))
        connected == LET from == has_valid_rships(l.tab, c.link["from"], "from", x)
                     IN  IF from # "no" THEN from ELSE has_valid_rships(l.tab, c.link["to"], "to", x)
    IN  IF f.exc # "none" THEN Result(f.exc, f.tab, <<>>, <<>>)
        ELSE IF l.exc # "none" THEN Result(l.exc, l.tab, <<>>, <<>>)
        ELSE IF connected = "unknown_id" THEN Result("unknown_id", l.tab, <<>>, <<>>)
        ELSE IF connected = "orphaned_relationship"
        THEN Result("orphaned_relationship", Put(l.tab, n, f.ref, [c EXCEPT !.lock = 0]), <<>>, <<>>)
        ELSE Result("none", AddDirty(T1, n, NewVersion(T1[n].vers, c, x, x)), <<n>>, <<>>)

\* detach_delete_node: the relationships of both lists, then the node.
DetachDeleteNode(T, n, x) ==
    LET f == by_id(T, n, x)
        l == Locked(f.tab, n, f.ref, x)
        c == CellAt(l.tab, n, f.ref)
        path(d) == RecordPath(l.tab, c.link[d], d)
        rships(d) == SelectSeq([k \in 1 .. MaxRship |-> path(d)[k - 1]],
                               LAMBDA r : r # UNKNOWN /\ StillValid(l.tab, r, x))
        del == FoldLeft(LAMBDA a, r :
                            IF a.exc # "none" THEN a
                            ELSE LET b == DeleteRship(a.tab, r, x)
                                 IN  [b EXCEPT !.rships = a.rships \o b.rships],
                        Result("none", l.tab, <<>>, <<>>), rships("from") \o rships("to"))
        T1 == IF del.tab[n].vers = {} THEN AddDirty(del.tab, n, OldVersion({}, c, x)) ELSE del.tab
    IN  IF f.exc # "none" THEN Result(f.exc, f.tab, <<>>, <<>>)
        ELSE IF l.exc # "none" THEN Result(l.exc, l.tab, <<>>, <<>>)
        ELSE IF \E d \in Dir : Dangling(l.tab, path(d)) THEN Result("unknown_id", l.tab, <<>>, <<>>)
        ELSE IF del.exc # "none" THEN del
        ELSE [del EXCEPT !.tab = AddDirty(T1, n, NewVersion(T1[n].vers, c, x, x)), !.nodes = <<n>>]

\* delete_relationship(src, dest): the first one it finds, if any.
DeleteBetween(T, n, m, x) ==
    LET f == by_id(T, n, x)
        p == RecordPath(f.tab, CellAt(f.tab, n, f.ref).link["from"], "from")
        stops(k) ==
            p[k] # UNKNOWN /\ (~ T[p[k]].used \/ (StillValid(T, p[k], x) /\ ends[p[k]]["to"] = m))
        first == {k \in MaxHops : stops(k) /\ \A j \in 0 .. k - 1 : ~ stops(j)}
    IN  IF f.exc # "none" THEN Result(f.exc, f.tab, <<>>, <<>>)
        ELSE IF first = {} THEN Result("none", f.tab, <<>>, <<>>)
        ELSE DeleteRship(f.tab, p[CHOOSE k \in first : TRUE], x)

-----------------------------------------------------------------------------
(* The end of a transaction. *)

\* The record c of o once version f has been committed. Only nodes take their
\* links from the version.
Committed(c, f, o, x) ==
    IF IsDeletion(f) THEN [c EXCEPT !.lock = 0, !.cts = x]
    ELSE [c EXCEPT !.lock = 0, !.bts = x, !.cts = INF, !.link = IF o \in Node THEN f.link ELSE @]

\* commit_dirty_relationship and commit_dirty_node; a is [exc, tab, garbage].
commit_dirty(a, o, x, old) ==
    LET c == a.tab[o].rec
        V == a.tab[o].vers
        f == FrontOf(V)
    IN  IF a.exc # "none" THEN a
        ELSE IF ~ a.tab[o].used THEN [a EXCEPT !.exc = "unknown_id"]
        ELSE IF c.cts # INF THEN [a EXCEPT !.tab[o].vers = remove_dirty_version(V, 0, INF)]
        ELSE IF V = {} THEN [a EXCEPT !.exc = "transaction_abort"]
        ELSE [a EXCEPT !.tab[o].rec = Committed(c, f, o, x),
                       !.tab[o].vers = gc(IF f.upd THEN PopUnlock(V) ELSE V \ {f}, old),
                       !.garbage = IF IsDeletion(f) THEN Append(@, o) ELSE @]

\* Mutant: what was added stays.
abort_dirty_keep(a, o, x) ==
    IF a.exc # "none" THEN a
    ELSE IF ~ a.tab[o].used THEN [a EXCEPT !.exc = "unknown_id"]
    ELSE [a EXCEPT !.tab[o].vers = remove_dirty_version(@, x, INF), !.tab[o].rec.lock = 0]

\* Mutant: an object that stays keeps its lock.
abort_dirty_locked(a, o, x) ==
    LET own == {v \in a.tab[o].vers : v.lock = x}
    IN  IF a.exc # "none" THEN a
        ELSE IF ~ a.tab[o].used THEN [a EXCEPT !.exc = "unknown_id"]
        ELSE [a EXCEPT !.tab[o].vers = remove_dirty_version(@, x, INF),
                       !.tab[o].used = own # {} /\ FrontOf(own).upd]

\* What abort_transaction does with a dirty object.
abort_dirty(a, o, x) ==
    LET own == {v \in a.tab[o].vers : v.lock = x}
    IN  IF a.exc # "none" THEN a
        ELSE IF ~ a.tab[o].used THEN [a EXCEPT !.exc = "unknown_id"]
        ELSE [a EXCEPT !.tab[o].vers = remove_dirty_version(@, x, INF),
                       !.tab[o].rec.lock = 0,
                       !.tab[o].used = own # {} /\ FrontOf(own).upd]

\* Mutant: only the head of a list is unlinked.
unlink_head(T, r, d) ==
    IF T[ends[r][d]].rec.link[d] = r THEN [T EXCEPT ![ends[r][d]].rec.link[d] = T[r].rec.link[d]] ELSE T

\* vacuum takes r out of the list d of its node: the head or the next
\* relationship of the first record that has r as its next one changes.
unlink(T, r, d) ==
    LET n == ends[r][d]
        next == T[r].rec.link[d]
        prev == {q \in OnPath(RecordPath(T, T[n].rec.link[d], d)) : T[q].used /\ T[q].rec.link[d] = r}
    IN  IF T[n].rec.link[d] = r THEN [T EXCEPT ![n].rec.link[d] = next]
        ELSE IF prev = {} THEN T
        ELSE [T EXCEPT ![CHOOSE q \in prev : TRUE].rec.link[d] = next]

\* The nodes and the relationships that unlinking r makes vacuum look up are there.
Reachable(T, r) ==
    \A d \in Dir :
        /\ T[ends[r][d]].used
        /\ LET p == RecordPath(T, T[ends[r][d]].rec.link[d], d) IN r \in OnPath(p) \/ ~ Dangling(T, p)

\* One item of garbage_; a is [raised, tab, garbage]. What half an unlinking
\* leaves behind when a look-up throws is not followed: VacuumFinds ends there.
vacuum_item(a, o, old) ==
    LET T == [a.tab EXCEPT ![o].vers = gc(@, old)]
        T1 == IF o \in Node THEN T ELSE unlink(unlink(T, o, "from"), o, "to")
    IN  IF a.raised THEN [a EXCEPT !.garbage = Append(@, o)]
        ELSE IF ~ T[o].used THEN [a EXCEPT !.raised = TRUE, !.garbage = Append(@, o)]
        ELSE IF T[o].vers # {} THEN [a EXCEPT !.tab = T, !.garbage = Append(@, o)]
        ELSE IF o \in Rship /\ ~ Reachable(T, o)
        THEN [raised |-> TRUE, tab |-> T, garbage |-> Append(a.garbage, o)]
        ELSE [a EXCEPT !.tab = [T1 EXCEPT ![o].used = FALSE]]

vacuum(T, g, old) ==
    LET a == FoldLeft(LAMBDA b, o : vacuum_item(b, o, old),
                      [raised |-> FALSE, tab |-> T, garbage |-> <<>>], g)
    IN  /\ tab' = a.tab
        /\ garbage' = a.garbage
        /\ raised' = (raised \/ a.raised)

-----------------------------------------------------------------------------
\* The last relationship of list d of node n that was added before r.
Before(r, n, d) ==
    LET S == {q \in 1 .. Len(Graph) : q < r /\ Graph[q][d] = n}
    IN  IF S = {} THEN UNKNOWN ELSE CHOOSE q \in S : \A q2 \in S : q2 <= q

Init ==
    /\ ends = [r \in Rship |->
                  IF r <= Len(Graph) THEN Graph[r] ELSE [d \in Dir |-> CHOOSE n \in Node : TRUE]]
    /\ tab = [o \in Obj |->
                 [used |-> o \in Node \cup 1 .. Len(Graph), vers |-> {},
                  rec |-> Fresh([d \in Dir |->
                              IF o \in Node THEN Before(MaxRship + 1, o, d)
                              ELSE IF o <= Len(Graph) THEN Before(o, Graph[o][d], d) ELSE UNKNOWN])]]
    /\ by = [r \in Rship |-> 0]
    /\ state = [t \in Tx |-> "idle"] /\ calls = 0
    /\ dirty = [t \in Tx |-> [nodes |-> <<>>, rships |-> <<>>]]
    /\ oldest = 0 /\ garbage = <<>> /\ raised = FALSE
    /\ added = [t \in Tx |-> {}] /\ deleted = [t \in Tx |-> {}]

Running == {t \in Tx : state[t] \in {"active", "failed"}}

begin_transaction(t) ==
    /\ state[t] = "idle" /\ \A u \in 1 .. t - 1 : state[u] # "idle"
    /\ state' = [state EXCEPT ![t] = "active"]
    /\ UNCHANGED <<tab, ends, by, calls, dirty, oldest, garbage, raised, added, deleted>>

\* A call with result R. transaction_abort and orphaned_relationship make the
\* application give the transaction up.
Call(t, R) ==
    /\ state[t] = "active" /\ calls < MaxCalls
    /\ tab' = R.tab
    /\ calls' = calls + 1
    /\ dirty' = [dirty EXCEPT ![t] = [nodes |-> @.nodes \o R.nodes, rships |-> @.rships \o R.rships]]
    /\ state' = [state EXCEPT ![t] = IF R.exc \in {"none", "unknown_id"} THEN @ ELSE "failed"]
    /\ UNCHANGED <<oldest, garbage, raised>>

\* What a disciplined application does: nothing is added while deletions of
\* others are under way or not vacuumed yet, nothing is deleted while others
\* add or by a transaction that has begun before one that has added,
\* delete_node is called when all earlier deletions are vacuumed, and not for
\* a node the transaction has changed itself, and no transaction deletes a
\* relationship it has added.
MayAdd(t) == Disciplined => garbage = <<>> /\ \A u \in Running \ {t} : deleted[u] = {}
MayDelete(t) == Disciplined => \A u \in Tx \ {t} : u > t \/ u \in Running => added[u] = {}
MayDeleteNode(t, n) ==
    MayDelete(t) /\ (Disciplined => garbage = <<>> /\ n \notin Range(dirty[t].nodes))

\* What a deletion with result R has deleted.
DeletedBy(R) ==
    {<<r, by[r]>> : r \in Range(R.rships)} \cup {<<n, 0>> : n \in Range(R.nodes)}

add_relationship(t, r, e) ==
    LET R == AddRship(tab, r, e, t)
    IN  /\ ~ tab[r].used /\ MayAdd(t)
        /\ Call(t, R)
        /\ IF R.rships = <<>> THEN UNCHANGED <<ends, by, added>>
           ELSE /\ ends' = [ends EXCEPT ![r] = e]
                /\ by' = [by EXCEPT ![r] = t]
                /\ added' = [added EXCEPT ![t] = @ \cup {<<r, e>>}]
        /\ UNCHANGED deleted

Deletion(t, R) ==
    /\ Disciplined => \A r \in Range(R.rships) : by[r] # t
    /\ Call(t, R)
    /\ deleted' = [deleted EXCEPT ![t] = @ \cup DeletedBy(R)]
    /\ UNCHANGED <<ends, by, added>>

delete_relationship(t, r) == MayDelete(t) /\ Deletion(t, DeleteRship(tab, r, t))
delete_between(t, n, m) == MayDelete(t) /\ Deletion(t, DeleteBetween(tab, n, m, t))
delete_node(t, n) == MayDeleteNode(t, n) /\ Deletion(t, DeleteNode(tab, n, t))
detach_delete_node(t, n) == MayDelete(t) /\ Deletion(t, DetachDeleteNode(tab, n, t))

\* A query that follows a list of node n.
foreach_relationship_of_node(t, n, d) ==
    LET f == by_id(tab, n, t)
        w == Walk(f.tab, CellAt(f.tab, n, f.ref).link[d], d, t)
        T == [o \in Obj |-> IF o \in Rship /\ o \in w.visited /\ f.tab[o].used
                            THEN set_rts(f.tab, o, t)[o] ELSE f.tab[o]]
    IN  /\ Call(t, IF f.exc # "none" THEN Result(f.exc, f.tab, <<>>, <<>>)
                   ELSE Result(w.exc, T, <<>>, <<>>))
        /\ UNCHANGED <<ends, by, added, deleted>>

\* oldest_xid_ once t has left active_tx_.
OldestWithout(t) ==
    IF Running \ {t} = {} THEN t
    ELSE CHOOSE u \in Running \ {t} : \A v \in Running \ {t} : u <= v

\* Mutant: the nodes come first.
commit_transaction_nodes_first(t) ==
    LET a == FoldLeft(LAMBDA b, o : commit_dirty(b, o, t, oldest'),
                      [exc |-> "none", tab |-> tab, garbage |-> garbage],
                      dirty[t].nodes \o dirty[t].rships)
    IN  /\ state[t] = "active"
        /\ oldest' = OldestWithout(t)
        /\ IF a.exc = "none"
           THEN vacuum(a.tab, a.garbage, oldest') /\ state' = [state EXCEPT ![t] = "committed"]
           ELSE /\ tab' = a.tab /\ garbage' = a.garbage /\ UNCHANGED raised
                /\ state' = [state EXCEPT ![t] = "failed"]
        /\ UNCHANGED <<ends, by, calls, dirty, added, deleted>>

\* Relationships come before nodes.
commit_transaction(t) ==
    LET a == FoldLeft(LAMBDA b, o : commit_dirty(b, o, t, oldest'),
                      [exc |-> "none", tab |-> tab, garbage |-> garbage],
                      dirty[t].rships \o dirty[t].nodes)
    IN  /\ state[t] = "active"
        /\ oldest' = OldestWithout(t)
        /\ IF a.exc = "none"
           THEN vacuum(a.tab, a.garbage, oldest') /\ state' = [state EXCEPT ![t] = "committed"]
           ELSE /\ tab' = a.tab /\ garbage' = a.garbage /\ UNCHANGED raised
                /\ state' = [state EXCEPT ![t] = "failed"]
        /\ UNCHANGED <<ends, by, calls, dirty, added, deleted>>

abort_transaction(t) ==
    LET a == FoldLeft(LAMBDA b, o : abort_dirty(b, o, t), [exc |-> "none", tab |-> tab],
                      dirty[t].nodes \o dirty[t].rships)
    IN  /\ t \in Running
        /\ oldest' = OldestWithout(t)
        /\ IF a.exc = "none" THEN vacuum(a.tab, garbage, oldest')
           ELSE tab' = a.tab /\ UNCHANGED <<garbage, raised>>
        /\ state' = [state EXCEPT ![t] = "aborted"]
        /\ UNCHANGED <<ends, by, calls, dirty, added, deleted>>

Next ==
    \E t \in Tx :
        \/ begin_transaction(t) \/ commit_transaction(t) \/ abort_transaction(t)
        \/ \E r \in Rship, e \in Pair : add_relationship(t, r, e)
        \/ \E r \in Rship : delete_relationship(t, r)
        \/ \E n, m \in Node : delete_between(t, n, m)
        \/ \E n \in Node : delete_node(t, n) \/ detach_delete_node(t, n)
        \/ \E n \in Node, d \in Dir : foreach_relationship_of_node(t, n, d)

Spec == Init /\ [][Next]_vars

-----------------------------------------------------------------------------
Quiet == Running = {}
Live(o) == tab[o].used /\ tab[o].rec.cts = INF

\* The relationships, as <<slot, adder, ends>>, that there are for timestamp x
\* when the committed transactions run one after the other.
Committed_upto(x) == {t \in Tx : state[t] = "committed" /\ t <= x}
Edges(x) ==
    {e \in {<<r, 0, Graph[r]>> : r \in 1 .. Len(Graph)}
            \cup UNION {{<<p[1], t, p[2]>> : p \in added[t]} : t \in Committed_upto(x)} :
        \A t \in Committed_upto(x) : <<e[1], e[2]>> \notin deleted[t]}

\* Once every transaction has ended, each list of each node holds exactly the
\* relationships of that node (those that wait for vacuum included), ends,
\* and leads through no slot that is free: what add_relationship and vacuum
\* do to the links agrees, whatever was aborted in between.
ListsMatch ==
    Quiet => \A n \in Node, d \in Dir : Live(n) =>
        LET p == RecordPath(tab, tab[n].rec.link[d], d)
        IN  ~ Endless(p) /\ OnPath(p) = {r \in Rship : tab[r].used /\ ends[r][d] = n}

\* Once every transaction has ended, the relationships of the table are those
\* that the committed transactions have added and not deleted.
GraphMatches ==
    Quiet => {<<r, by[r], ends[r]>> : r \in {q \in Rship : Live(q)}} = Edges(INF)

\* delete_node and detach_delete_node leave no relationship behind: both ends
\* of a relationship that is there are there as well.
NoOrphan == Quiet => \A r \in Rship : Live(r) => \A d \in Dir : Live(ends[r][d])

\* vacuum finds all the records that it needs to unlink a relationship.
VacuumFinds == ~ raised

\* A query that follows a list without being interrupted gets the relationships
\* its transaction can see, each of them and no other. What newer transactions
\* delete it may miss: versions that have an end are passed over. A
\* transaction that has added to the list itself is not considered.
WalkRight ==
    \A t \in Tx, n \in Node, d \in Dir :
        LET f == by_id(tab, n, t)
            w == Walk(f.tab, CellAt(f.tab, n, f.ref).link[d], d, t)
            seen == {e \in Edges(t) : e[3][d] = n /\ <<e[1], e[2]>> \notin deleted[t]}
            newer == UNION {deleted[u] : u \in {v \in Tx : v > t}}
        IN  state[t] = "active" /\ (\A p \in added[t] : p[2][d] # n) /\ f.exc = "none" /\ w.exc = "none"
            => /\ w.found \subseteq {e[1] : e \in seen}
               /\ {e[1] : e \in {e1 \in seen : <<e1[1], e1[2]>> \notin newer}} \subseteq w.found

\* No relationship stays locked by a transaction that has ended, whichever of
\* its calls has thrown halfway: delete_relationship puts a relationship among
\* the dirty ones together with its lock.
RshipsReleased ==
    \A r \in Rship : tab[r].used /\ tab[r].rec.lock # 0 => tab[r].rec.lock \in Running

\* The same of nodes. It does not hold: detach_delete_node locks the node
\* first and registers it last, so that a relationship another transaction
\* has locked leaves the node locked for ever.
NodesReleased ==
    \A n \in Node : tab[n].used /\ tab[n].rec.lock # 0 => tab[n].rec.lock \in Running

\* A node leaves the table only by a deletion that was committed: none of the
\* nodes here was added, so that abort_transaction has none to remove.
NodesStay ==
    \A n \in Node : ~ tab[n].used => \E t \in Tx : state[t] = "committed" /\ <<n, 0>> \in deleted[t]
=============================================================================
