---------------------------- MODULE MCRshipLists ----------------------------
(* Instances of RshipLists for model checking. *)
EXTENDS RshipLists

CONSTANTS n1, n2

\* Two relationships from n1 to n2.
Parallel == <<[from |-> n1, to |-> n2], [from |-> n1, to |-> n2]>>
\* What is added: another one, and one from n1 to itself.
Pairs == {[from |-> n1, to |-> n2], [from |-> n1, to |-> n1]}
=============================================================================
