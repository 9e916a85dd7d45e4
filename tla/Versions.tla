------------------------------ MODULE Versions ------------------------------
(***************************************************************************)
(* The versions of one object, as src/tx/txn_data.hpp keeps them: the      *)
(* record in the table (the cell at position 0) and the dirty list, a set  *)
(* of cells with growing positions, the front of the list being the        *)
(* largest. A cell has at least the fields                                 *)
(*    pos, lock, bts, cts, upd                                             *)
(* and whatever the object carries. Shared by Mvto, where an object        *)
(* carries its properties, and RshipLists, where it carries its links.     *)
(***************************************************************************)
EXTENDS Integers

\* txn::is_valid_for and is_locked of a cell.
is_valid_for(c, x) == c.bts <= x /\ x < c.cts
Free(c) == c.lock = 0

\* The front of a dirty list, and the position push_front gives a new version.
FrontOf(V) == CHOOSE v \in V : \A w \in V : w.pos <= v.pos
NextPos(V) == IF V = {} THEN 1 ELSE FrontOf(V).pos + 1

\* find_valid_version walks the list from its front. It skips what others have
\* locked, stops at a version that is valid for x or that says x has deleted
\* the object, and gives the transaction up when it has seen only versions
\* that are too new or too old.
Seen(V, x) == {v \in V : v.lock \in {0, x}}
Stops(V, x) == {v \in Seen(V, x) : is_valid_for(v, x) \/ (v.lock = x /\ v.bts = v.cts)}

find_valid_version(V, x) ==
    IF Stops(V, x) # {}
    THEN LET v == FrontOf(Stops(V, x))
         IN  IF is_valid_for(v, x) THEN [exc |-> "none", ref |-> v.pos]
             ELSE [exc |-> "unknown_id", ref |-> 0]
    ELSE [exc |-> IF Seen(V, x) # {} THEN "transaction_abort" ELSE "unknown_id", ref |-> 0]

\* get_valid_node_version and get_valid_rship_version of record c with list V.
get_valid_version(c, V, x) ==
    IF Free(c) /\ is_valid_for(c, x) THEN [exc |-> "none", ref |-> 0]
    ELSE find_valid_version(V, x)

\* Mutants: the version the oldest transaction reads goes, too, or nothing does.
gc_early(V, oldest) == {v \in V : v.cts > oldest + 1}
gc_nothing(V, oldest) == V

\* txn::gc of a dirty list.
gc(V, oldest) == {v \in V : v.cts > oldest}

\* pop_front, and unlock() of the version that is the front after it.
PopUnlock(V) ==
    LET rest == V \ {FrontOf(V)}
    IN  IF rest = {} THEN {}
        ELSE (rest \ {FrontOf(rest)}) \cup {[FrontOf(rest) EXCEPT !.lock = 0]}

\* Mutant: the versions stay.
remove_dirty_version_nothing(V, x, inf) == V

\* remove_dirty_version.
remove_dirty_version(V, x, inf) == {v \in V : ~ (v.lock = x /\ v.cts = inf)}

\* A version that says its object is deleted.
IsDeletion(f) == f.upd /\ f.bts = f.cts
=============================================================================
