---------------------------- MODULE MCTraversals ----------------------------
(***************************************************************************)
(* The calls TLC goes through. The searches for paths run on all graphs of *)
(* four nodes with three or four relationships between different nodes,    *)
(* the weighted ones with all weights 1 and 3; a smaller set of graphs has *)
(* loops, parallel relationships and a label to pass over. The traversals  *)
(* over a variable number of hops run on all sequences of up to three      *)
(* relationships on three nodes, so every order in the lists occurs.       *)
(***************************************************************************)
EXTENDS Traversals

\* A relationship from a to b.
Rel(a, b, l, w) == [src |-> a, dst |-> b, label |-> l, weight |-> w]
Pairs(S) == {p \in S \X S : p[1] # p[2]}
Sequences(S, k) == UNION {[1 .. n -> S] : n \in 0 .. k}

\* The graphs with k or k - 1 relationships, each in one order of the lists.
Plain(k) ==
    {LET s == SetToSeq(P) IN [i \in DOMAIN s |-> Rel(s[i][1], s[i][2], Label, 1)] :
       P \in kSubset(k, Pairs(0 .. 3)) \cup kSubset(k - 1, Pairs(0 .. 3))}

\* The graphs of three nodes with at most k relationships with the labels L
\* and the weights W.
Mixed(k, L, W) ==
    {[i \in DOMAIN g |-> Rel(g[i][1], g[i][2], g[i][3], g[i][4])] :
       g \in Sequences((0 .. 2) \X (0 .. 2) \X L \X W, k)}

Call(alg, g, nodes, stop, way, min, max) ==
    [alg |-> alg, graph |-> g, nodes |-> nodes, start |-> 0, stop |-> stop, way |-> way,
     min |-> min, max |-> max, hidden |-> {}]

\* The searches without weights.
PathCalls ==
    {Call(a, g, 0 .. 3, 3, w, 1, 1) :
       a \in {"bfs", "path_bfs", "shortest", "all_shortest"}, g \in Plain(4), w \in {"out", "both"}}

\* The weighted searches on the graphs with relationships at start and stop.
CheapCalls ==
    {Call(a, [i \in DOMAIN g |-> [g[i] EXCEPT !.weight = w[i]]], 0 .. 3, 3, "out", 1, 1) :
       a \in {"cheapest", "all_cheapest"}, w \in [1 .. 4 -> {1, 3}],
       g \in {h \in Plain(4) : 0 \in {r.src : r \in ToSet(h)} /\ 3 \in {r.dst : r \in ToSet(h)}}}

\* Loops, parallel relationships, other labels, weight 0, and start = stop.
SmallCalls(algs, weights, stops) ==
    {Call(a, g, 0 .. 2, s, w, 1, 1) :
       a \in algs, g \in Mixed(2, {Label, "other"}, weights), s \in stops, w \in {"out", "both"}}

VariableCalls(way) ==
    {Call("variable", g, 0 .. 2, 0, way, b[1], b[2]) :
       g \in Mixed(3, {Label}, {1}), b \in {<<1, 1>>, <<1, 2>>, <<2, 3>>}}
LabelCalls(way, labels, ranges) ==
    {Call("variable_label", g, 0 .. 2, 0, way, b[1], b[2]) : g \in Mixed(3, labels, {1}), b \in ranges}

\* Two weights in the smaller graphs; node 1 is deleted in the graphs of the
\* second set, and its slot is in use in the third, with or without slot 3.
CsrCalls ==
    {Call("csr", g, 0 .. 3, 0, w, 1, 1) :
       g \in Mixed(3, {Label}, {1}) \cup Mixed(2, {Label}, {1, 3}), w \in {"out", "both"}}
CsrDeletedCalls ==
    {Call("csr", SelectSeq(g, LAMBDA r : 1 \notin {r.src, r.dst}), {0, 2}, 0, w, 1, 1) :
       g \in Mixed(3, {Label}, {1}), w \in {"out", "both"}}
CsrHiddenCalls ==
    {[c EXCEPT !.hidden = H] : c \in CsrDeletedCalls, H \in {{1}, {3}, {1, 3}}}

AllCalls ==
    {PathCalls, CheapCalls,
     SmallCalls({"bfs", "path_bfs", "shortest", "all_shortest"}, {1}, {0, 2}),
     SmallCalls({"cheapest", "all_cheapest"}, {1}, {0}),
     SmallCalls({"cheapest", "all_cheapest"}, {0, 1}, {2}),
     VariableCalls("out"), VariableCalls("in"),
     LabelCalls("out", {Label, "other"}, {<<1, 2>>, <<2, 3>>}),
     LabelCalls("in", {Label}, {<<1, 1>>, <<1, 2>>, <<1, 3>>}),
     CsrCalls, CsrDeletedCalls, CsrHiddenCalls}
=============================================================================
