------------------------------ MODULE NodeIndex ------------------------------
(***************************************************************************)
(* An index on one property of the nodes with one label:                   *)
(* storage/graph_db_index.cpp and its calls in graph_db::                  *)
(* commit_dirty_node, on the B+ tree of module BTree.                      *)
(*                                                                         *)
(* A commit changes the property of one node and the index with it, and    *)
(* commits are not concurrent here (commit_transaction of two threads on   *)
(* one index is not protected by any mutex of the index).                  *)
(***************************************************************************)
EXTENDS BTree, SequencesExt

CONSTANTS
    Unique,     \* TRUE: no two nodes have the same value of the property
    MaxChanges  \* bound on commits that update or delete a node

Node == Value

VARIABLES
    tree,       \* the index
    created,    \* create_index has been called
    value,      \* [Node -> value of the property, 0: no such node]
    shared,     \* values that two nodes have had at a time
    rising,     \* every key put into the tree was larger than those before
    changes     \* updates and deletes so far

vars == <<tree, created, value, shared, rising, changes>>

Live == {n \in Node : value[n] # 0}

\* The index knows key already, or it is larger than all it ever held.
Rising(t, key) == \A p \in t.used : \A i \in DOMAIN t.page[p].keys : t.page[p].keys[i] < key

Init ==
    /\ tree = EmptyTree
    /\ created = FALSE
    /\ value = [n \in Node |-> 0]
    /\ shared = {}
    /\ rising = TRUE
    /\ changes = 0

-----------------------------------------------------------------------------
(* The index operations. *)

index_insert(t, n, key) == insert(t, key, n)

index_delete(t, n, key) == erase(t, key)

\* Mutant: the new entry first.
index_update_swap(t, n, old, new) == index_delete(index_insert(t, n, new), n, old)

index_update(t, n, old, new) == index_insert(index_delete(t, n, old), n, new)

\* create_index: the nodes in the order of the table.
create_index ==
    /\ ~created
    /\ created' = TRUE
    /\ LET add(t, n) == index_insert(t, n, value[n])
       IN  tree' = FoldLeft(add, EmptyTree, SetToSortSeq(Live, <))
    /\ rising' = \A m, n \in Live : m < n => value[m] < value[n]
    /\ UNCHANGED <<value, shared, changes>>

-----------------------------------------------------------------------------
(* commit_dirty_node: get_index finds the index once it is registered.      *)

Free(key) == Unique => \A n \in Node : value[n] # key

Set(n, key) ==
    /\ value' = [value EXCEPT ![n] = key]
    /\ shared' = shared \cup {k \in {key} : \E m \in Live : m # n /\ value[m] = k}
    /\ UNCHANGED created

Change(n, key) ==
    /\ changes < MaxChanges
    /\ changes' = changes + 1
    /\ created => Regular(tree, value[n])
    /\ Set(n, key)

\* A new node takes the first free slot of the table.
CommitInsert(n, key) ==
    /\ value[n] = 0 /\ \A m \in Node : m < n => value[m] # 0
    /\ Free(key)
    /\ Set(n, key)
    /\ UNCHANGED changes
    /\ tree' = IF created THEN index_insert(tree, n, key) ELSE tree
    /\ rising' = (rising /\ (created => Found(tree, key) \/ Rising(tree, key)))

CommitUpdate(n, key) ==
    /\ value[n] # 0
    /\ key = value[n] \/ Free(key)
    /\ Change(n, key)
    /\ tree' = IF created THEN index_update(tree, n, value[n], key) ELSE tree
    /\ rising' = (rising /\ (created => Rising(tree, key)))

CommitDelete(n) ==
    /\ value[n] # 0
    /\ Change(n, 0)
    /\ tree' = IF created THEN index_delete(tree, n, value[n]) ELSE tree
    /\ UNCHANGED rising

Next ==
    \/ create_index
    \/ \E n \in Node : CommitDelete(n)
    \/ \E n \in Node, key \in Key : CommitInsert(n, key) \/ CommitUpdate(n, key)

Spec == Init /\ [][Next]_vars

-----------------------------------------------------------------------------
(* Properties. *)

\* Page ids, counts of keys and values of the property are in range.
TypeOK ==
    /\ tree.used \subseteq Page /\ tree.root \in tree.used /\ tree.depth \in 0 .. MaxPage
    /\ \A p \in tree.used :
          /\ tree.page[p].num \in 0 .. (IF p \in Level(tree, tree.depth) THEN M ELSE N)
          /\ tree.page[p].next \in {0} \cup tree.used
    /\ created \in BOOLEAN /\ rising \in BOOLEAN
    /\ value \in [Node -> {0} \cup Key] /\ shared \subseteq Key
    /\ changes \in 0 .. MaxChanges

\* The index has exactly the values the nodes have, each with its node, as
\* index_lookup and node_id_from_index expect; no entry is in a leaf where
\* lookup does not look for it.
IndexRight ==
    created /\ Unique =>
       /\ Contents(tree) = [k \in {value[n] : n \in Live} |-> CHOOSE n \in Live : value[n] = k]
       /\ Entries(tree) = {<<value[n], n>> : n \in Live}

\* No page is used by two parents, none is lost, and a leaf has keys in order.
Shape ==
    LET levels == 0 .. tree.depth
        kids(d) == UNION {{<<p, i>> : i \in 0 .. tree.page[p].num} : p \in Level(tree, d)}
    IN  /\ tree.used = UNION {Level(tree, d) : d \in levels}
        /\ \A d \in levels : d < tree.depth =>
              \A x, y \in kids(d) : x # y => tree.page[x[1]].vals[x[2]] # tree.page[y[1]].vals[y[2]]
        /\ \A p \in tree.used : \A i \in 1 .. tree.page[p].num - 1 :
              tree.page[p].keys[i - 1] < tree.page[p].keys[i]

\* As long as keys come in rising order, scan() visits every entry, once and
\* in order: then only the last leaf is split and its next is 0.
ScanRight ==
    created /\ rising =>
       /\ {scan(tree)[i] : i \in DOMAIN scan(tree)} = Entries(tree)
       /\ \A i \in DOMAIN scan(tree) : i > 1 => scan(tree)[i - 1][1] < scan(tree)[i][1]

\* A node whose value no other node has had is found by it (graph_db.hpp:370:
\* "For each matching node the consumer function is called.").
SoleFound ==
    created => \A n \in Live : value[n] \notin shared =>
                  Found(tree, value[n]) /\ lookup(tree, value[n]) = n
=============================================================================
