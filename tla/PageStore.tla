------------------------------ MODULE PageStore ------------------------------
(***************************************************************************)
(* What the bufferpool promises its clients: a store of pages, each absent *)
(* or holding the payload written to it last. Caching, eviction, flushing  *)
(* and reading change nothing a client can see.                            *)
(***************************************************************************)
CONSTANTS Page, Values, Zero, Absent

VARIABLE content

Init == content = [p \in Page |-> Absent]

\* Allocated pages start out empty.
Allocate(p) ==
    /\ content[p] = Absent
    /\ content' = [content EXCEPT ![p] = Zero]

Write(p, v) ==
    /\ content[p] # Absent
    /\ content' = [content EXCEPT ![p] = v]

Free(p) ==
    /\ content[p] # Absent
    /\ content' = [content EXCEPT ![p] = Absent]

Next ==
    \E p \in Page :
        \/ Allocate(p)
        \/ Free(p)
        \/ \E v \in Values : Write(p, v)

Spec == Init /\ [][Next]_content
=============================================================================
