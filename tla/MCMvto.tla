------------------------------- MODULE MCMvto -------------------------------
(* Instances of Mvto for model checking. *)
EXTENDS Mvto, TLC

CONSTANTS t1, t2, t3, n1, n2, r1

Whole == {"begun", "checked", "locked"}

\* Applications whose calls are not interleaved, reading and updating a node
\* and a relationship, or a node that is also deleted and added again.
Updating == [obj |-> {n1, r1}, op |-> {"read", "update"}, rewrite |-> FALSE, atomic |-> Whole]
Deleting == [obj |-> {n1}, op |-> {"read", "update", "delete", "add"}, rewrite |-> FALSE,
             atomic |-> Whole]
\* Threads that interleave inside their calls. The node has relationships.
Interleaved == [obj |-> {n2}, op |-> {"read", "scan", "update", "delete"}, rewrite |-> FALSE,
                atomic |-> {"begun"}]
\* A transaction that deletes what it has written, and writes what a scan gave it.
Rewriting == [obj |-> {n1}, op |-> {"scan_update", "detach_delete"}, rewrite |-> TRUE,
              atomic |-> Whole]
Applications == {Updating, Deleting, Interleaved, Rewriting}

Scanning == {[obj |-> {n1}, op |-> {"scan_update"}, rewrite |-> FALSE, atomic |-> Whole]}
Overtaken == {[obj |-> {n1}, op |-> {"read", "update"}, rewrite |-> FALSE,
               atomic |-> {"checked", "locked"}]}

Symmetry == Permutations(Tx)
=============================================================================
