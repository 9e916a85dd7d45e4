----------------------------- MODULE Traversals -----------------------------
(***************************************************************************)
(* The searches that follow relationships: breadth-first search            *)
(* (src/analytics/bfs.cpp), shortest and cheapest paths                    *)
(* (src/analytics/shortest_path.cpp), the traversal over a variable number *)
(* of hops (src/query/interp/query_ctx.cpp) and the export of the graph as *)
(* CSR arrays (src/analytics/graph_db_analytics.cpp).                      *)
(*                                                                         *)
(* A search runs inside one transaction on one snapshot, so the graph does *)
(* not change. It is the sequence of the relationships in the order they   *)
(* were added: add_relationship puts a relationship at the head of the     *)
(* lists of its two nodes, so a list has the newest one first. One step is *)
(* one turn of the main loop of the function called, or of the loop over   *)
(* the relationships of a node where that one changes more than the queue. *)
(*                                                                         *)
(* The snapshot is one in which the transaction sees a version of every    *)
(* relationship in the lists, so that rship_by_id does not throw and the   *)
(* is_valid_for that follows it in the export holds. A node slot in use of *)
(* which it sees no version (an insert that is not committed or came       *)
(* later, a delete that is not vacuumed) is in hidden; only the export     *)
(* comes to such a slot, because it goes through all of them.              *)
(***************************************************************************)
EXTENDS Integers, SequencesExt

CONSTANTS
    MaxNode,   \* the largest node id
    Calls      \* sets of calls; a call is a graph, a function and its arguments

Node == 0 .. MaxNode
UNKNOWN == 0                                    \* no relationship: the ids start with 1
Label == "knows"                                \* the relationships rpred accepts

Relationship == [src : Node, dst : Node, label : {Label, "other"}, weight : Nat]
Search == {"bfs", "path_bfs", "shortest", "all_shortest", "cheapest", "all_cheapest"}
Traversal == {"variable", "variable_label"}

ASSUME CallsAssumption ==
    \A C \in Calls : \A c \in C :
       /\ c.alg \in Search \cup Traversal \cup {"csr"}
       /\ c.graph \in Seq(Relationship)
       /\ c.nodes \subseteq Node /\ c.hidden \subseteq Node \ c.nodes
       /\ {c.start, c.stop} \subseteq c.nodes
       /\ \A r \in ToSet(c.graph) : {r.src, r.dst} \subseteq c.nodes
       /\ c.way \in {"out", "in", "both"}
       /\ c.min \in Nat /\ c.max \in Nat

VARIABLES
    call,      \* the call that runs
    queue,     \* frontier, rship_queue
    visited,   \* visited, rship_set
    dist,      \* distance, weight
    parent,    \* parent
    node,      \* the node whose relationships are followed, with the path to it
    todo,      \* what is left of them
    recent,    \* mr_n_hop, mr_n_hop_rship_id and n_hop_rship_cnt
    out,       \* what the callback and the caller got
    csr,       \* nid, row_offsets, col_indices and edge_values
    status     \* running, returned or the exception that ended the call

vars == <<call, queue, visited, dist, parent, node, todo, recent, out, csr, status>>
local == <<queue, visited, dist, parent, node, todo, recent, out, csr>>

graph == call.graph
\* UNKNOWN and UNKNOWN_WEIGHT: more than any path can cost.
Infinite == FoldLeft(LAMBDA sum, r : sum + r.weight, MaxNode + 2, graph)

-----------------------------------------------------------------------------
\* The node in whose outgoing (incoming) list r is, and the one it leads to.
Origin(r, way) == IF way = "out" THEN graph[r].src ELSE graph[r].dst
Target(r, way) == IF way = "out" THEN graph[r].dst ELSE graph[r].src

\* The relationships in the list of node n, newest first.
List(n, way) ==
    SelectSeq([i \in DOMAIN graph |-> Len(graph) + 1 - i], LAMBDA r : Origin(r, way) = n)

\* from_rship_list and to_rship_list.
First(n, way) == IF List(n, way) = <<>> THEN UNKNOWN ELSE List(n, way)[1]

\* Mutant: the next relationship is passed over.
After_skip(r, way) ==
    LET l == SelectSeq(List(Origin(r, way), way), LAMBDA s : s < r - 1)
    IN  IF l = <<>> THEN UNKNOWN ELSE l[1]

\* next_src_rship and next_dest_rship.
After(r, way) ==
    LET l == SelectSeq(List(Origin(r, way), way), LAMBDA s : s < r)
    IN  IF l = <<>> THEN UNKNOWN ELSE l[1]

rpred(r) == graph[r].label = Label

\* The relationships a search does not pass over.
Accepted == {r \in DOMAIN graph : rpred(r)}

\* The nodes a search comes to from n over the relationships of R, in the order
\* of its two loops.
Steps(n, R) ==
    LET Hops(way) ==
          LET l == SelectSeq(List(n, way), LAMBDA r : r \in R)
          IN  [i \in DOMAIN l |-> [to |-> Target(l[i], way), weight |-> graph[l[i]].weight]]
    IN  IF call.way = "both" THEN Hops("out") \o Hops("in") ELSE Hops("out")

Init ==
    /\ \E C \in Calls : call \in C
    /\ queue = IF call.alg \in Search THEN << <<call.start>> >>
               ELSE << <<First(call.start, call.way), 1>> >>
    /\ visited = IF call.alg \in {"shortest", "all_shortest"} THEN {call.start} ELSE {}
    /\ dist = [n \in Node |-> IF n = call.start THEN 0 ELSE Infinite]
    /\ parent = [n \in Node |-> n]
    /\ node = <<>> /\ todo = <<>>
    /\ recent = [hops |-> 1, id |-> First(call.start, call.way), left |-> Len(List(call.start, call.way))]
    /\ out = <<>>
    /\ csr = [nid |-> 0, rows |-> <<0>>, cols |-> <<>>, vals |-> <<>>]
    /\ status = "running"

Running(algs) == status = "running" /\ call.alg \in algs

-----------------------------------------------------------------------------
\* Mutant: a node is visited when it is queued a second time, too.
bfs_again(u, v) ==
    /\ visited' = visited \cup {v}
    /\ out' = Append(out, u)
    /\ LET steps == Steps(v, Accepted)
       IN  queue' = Tail(queue) \o
                    (IF v \in visited THEN <<>>
                     ELSE [i \in DOMAIN steps |-> Append(u, steps[i].to)])

\* Mutant: the test of visited comes before the pop.
bfs_continue(u, v) ==
    IF v \in visited
    THEN UNCHANGED <<queue, visited, out>>
    ELSE /\ visited' = visited \cup {v}
         /\ out' = Append(out, u)
         /\ LET steps == Steps(v, Accepted)
            IN  queue' = Tail(queue) \o [i \in DOMAIN steps |-> Append(u, steps[i].to)]

\* One turn of bfs and path_bfs with the path u to node v; bfs keeps only the
\* last node of a path.
bfs(u, v) ==
    IF v \in visited
    THEN queue' = Tail(queue) /\ UNCHANGED <<visited, out>>
    ELSE /\ visited' = visited \cup {v}
         /\ out' = Append(out, u)
         /\ LET steps == Steps(v, Accepted)
            IN  queue' = Tail(queue) \o
                         [i \in DOMAIN steps |-> IF call.alg = "bfs" THEN <<steps[i].to>>
                                                 ELSE Append(u, steps[i].to)]

Bfs ==
    /\ Running({"bfs", "path_bfs"})
    /\ queue # <<>>
    /\ bfs(queue[1], Last(queue[1]))
    /\ UNCHANGED <<call, dist, parent, node, todo, recent, csr, status>>

\* unweighted_shortest_path and all_unweighted_shortest_paths: the next path
\* of the frontier. The search for one path ends once it is found.
Expand ==
    /\ Running({"shortest", "all_shortest"})
    /\ todo = <<>> /\ queue # <<>>
    /\ ~ (call.alg = "shortest" /\ out # <<>>)
    /\ node' = queue[1]
    /\ queue' = Tail(queue)
    /\ todo' = Steps(Last(queue[1]), Accepted)
    /\ UNCHANGED <<call, visited, dist, parent, recent, out, csr, status>>

\* Mutant: a node as far away as stop may extend its path to it.
Follows_late(uid, vid) ==
    \/ vid \notin visited
    \/ call.alg = "all_shortest" /\ vid = call.stop /\ dist[uid] <= dist[call.stop]

\* The condition on node vid, found from uid.
Follows(uid, vid) ==
    \/ vid \notin visited
    \/ call.alg = "all_shortest" /\ vid = call.stop /\ dist[uid] < dist[call.stop]

\* The next relationship of the node.
Follow ==
    /\ Running({"shortest", "all_shortest"})
    /\ todo # <<>>
    /\ todo' = Tail(todo)
    /\ LET uid == Last(node)
           vid == todo[1].to
           path == Append(node, vid)
       IN  IF ~ Follows(uid, vid) THEN UNCHANGED <<visited, dist, queue, out>>
           ELSE /\ visited' = visited \cup {vid}
                /\ dist' = [dist EXCEPT ![vid] = dist[uid] + 1]
                /\ queue' = Append(queue, path)
                /\ out' = IF vid = call.stop
                          THEN Append(out, [path |-> path, cost |-> dist[uid] + 1]) ELSE out
    /\ UNCHANGED <<call, parent, node, recent, csr, status>>

-----------------------------------------------------------------------------
\* path_item::trace_path.
RECURSIVE trace_path(_)
trace_path(v) == IF v = call.start THEN <<v>> ELSE Append(trace_path(parent[v]), v)

Item == [path |-> trace_path(call.stop), cost |-> dist[call.stop]]

\* The nodes that are left, and the first of the nearest of them.
Open == {n \in Node \ visited : dist[n] # Infinite}
min_nid ==
    CHOOSE n \in Open : \A m \in Open : dist[n] < dist[m] \/ (dist[n] = dist[m] /\ n <= m)

\* weighted_shortest_path and all_weighted_shortest_paths: one turn of the
\* loop over i. Only the search for one path ends with stop.
Settle ==
    /\ Running({"cheapest", "all_cheapest"})
    /\ todo = <<>>
    /\ out' = IF Open # {} /\ min_nid = call.stop THEN Append(out, Item) ELSE out
    /\ IF Open = {} \/ (min_nid = call.stop /\ call.alg = "cheapest")
       THEN status' = "returned" /\ UNCHANGED <<visited, node, todo>>
       ELSE /\ visited' = visited \cup {min_nid}
            /\ node' = <<min_nid>>
            /\ todo' = Steps(min_nid, Accepted)
            /\ UNCHANGED status
    /\ UNCHANGED <<call, queue, dist, parent, recent, csr>>

\* A better path to vid through n.
better(n, vid, d) ==
    /\ dist' = [dist EXCEPT ![vid] = d]
    /\ parent' = [parent EXCEPT ![vid] = n]

\* The next relationship of the node.
Relax ==
    /\ Running({"cheapest", "all_cheapest"})
    /\ todo # <<>>
    /\ todo' = Tail(todo)
    /\ LET vid == todo[1].to
           d == dist[node[1]] + todo[1].weight
       IN  IF vid \notin visited /\ d < dist[vid]
           THEN better(node[1], vid, d) /\ UNCHANGED out
           ELSE /\ out' = IF call.alg = "all_cheapest" /\ vid = call.stop /\ d = dist[vid]
                          THEN Append(out, Item) ELSE out
                /\ UNCHANGED <<dist, parent>>
    /\ UNCHANGED <<call, queue, visited, node, recent, csr, status>>

-----------------------------------------------------------------------------
\* The end of a list, or too many hops.
TooFar(id, hops) == id = UNKNOWN \/ hops > call.max

\* foreach_variable_from_relationship_of_node (and to): one turn.
Variable ==
    /\ Running({"variable"})
    /\ queue # <<>>
    /\ LET id == queue[1][1]
           hops == queue[1][2]
       IN  IF TooFar(id, hops) THEN queue' = Tail(queue) /\ UNCHANGED out
           ELSE /\ out' = IF hops >= call.min THEN Append(out, id) ELSE out
                /\ queue' = Tail(queue) \o << <<After(id, call.way), hops>>,
                                             <<First(Target(id, call.way), call.way), hops + 1>> >>
    /\ UNCHANGED <<call, visited, dist, parent, node, todo, recent, csr, status>>

\* The whole list of node n with its end, as entries of the queue.
WholeList(n, hops) ==
    LET l == Append(List(n, call.way), UNKNOWN) IN [i \in DOMAIN l |-> <<l[i], hops>>]

\* What happens to the last entry of the queue when its label is another one:
\* the search tries what is left of the list it has seen last, or the rest of
\* the list of this relationship.
Retry(id, hops, now) ==
    IF now.left > 0
    THEN IF now.id = UNKNOWN
         THEN status' = "unknown_id" /\ UNCHANGED <<queue, recent>>
         ELSE /\ queue' = << <<After(now.id, call.way), now.hops>> >>
              /\ recent' = [now EXCEPT !.id = After(now.id, call.way)]
              /\ UNCHANGED status
    ELSE /\ UNCHANGED status
         /\ LET next == After(id, call.way)
            IN  IF next = UNKNOWN THEN queue' = <<>> /\ recent' = now
                ELSE /\ queue' = << <<next, hops>> >>
                     /\ recent' = [hops |-> hops, id |-> next,
                                   left |-> Len(SelectSeq(List(Origin(id, call.way), call.way),
                                                          LAMBDA r : r < id))]

\* foreach_variable_from_relationship_of_node (and to) with a label: one turn.
VariableLabel ==
    /\ Running({"variable_label"})
    /\ queue # <<>>
    /\ LET id == queue[1][1]
           hops == queue[1][2]
           rest == Tail(queue)
           now == IF hops = recent.hops THEN [recent EXCEPT !.id = id, !.left = @ - 1] ELSE recent
           seen == hops >= call.min /\ id \in visited
       IN  CASE ~ TooFar(id, hops) /\ ~ rpred(id) /\ rest = <<>> ->
                  Retry(id, hops, now) /\ UNCHANGED <<visited, out>>
             [] ~ TooFar(id, hops) /\ rpred(id) /\ ~ seen ->
                  /\ IF hops >= call.min
                     THEN visited' = visited \cup {id} /\ out' = Append(out, id)
                     ELSE UNCHANGED <<visited, out>>
                  /\ queue' = rest \o << <<After(id, call.way), hops>> >>
                                   \o WholeList(Target(id, call.way), hops + 1)
                  /\ recent' = now
                  /\ UNCHANGED status
             [] OTHER ->
                  queue' = rest /\ recent' = now /\ UNCHANGED <<visited, out, status>>
    /\ UNCHANGED <<call, dist, parent, node, todo, csr>>

\* The loop of a search with a queue ends.
Return ==
    /\ Running({"bfs", "path_bfs", "shortest", "all_shortest"} \cup Traversal)
    /\ todo = <<>>
    /\ queue = <<>> \/ (call.alg = "shortest" /\ out # <<>>)
    /\ status' = "returned"
    /\ UNCHANGED <<call, local>>

-----------------------------------------------------------------------------
\* Mutant: an unused node has no row.
Row_used(n) == IF n \in call.nodes THEN <<Len(csr.cols) + Len(Steps(n, DOMAIN graph))>> ELSE <<>>

\* The row of node n ends where its relationships end.
Row(n) == <<Len(csr.cols) + (IF n \in call.nodes THEN Len(Steps(n, DOMAIN graph)) ELSE 0)>>

\* The slots up to last_used().
Slots == 0 .. Max(call.nodes \cup call.hidden)

\* host_csr_build: one node. node_by_id throws for a slot in use without a
\* version that the transaction sees.
Csr ==
    /\ Running({"csr"})
    /\ LET n == csr.nid
           steps == IF n \in call.nodes THEN Steps(n, DOMAIN graph) ELSE <<>>
       IN  CASE n \notin Slots -> status' = "returned" /\ UNCHANGED csr
             [] n \in call.hidden -> status' = "thrown" /\ UNCHANGED csr
             [] OTHER ->
                  /\ csr' = [nid  |-> n + 1,
                             rows |-> csr.rows \o Row(n),
                             cols |-> csr.cols \o [i \in DOMAIN steps |-> steps[i].to],
                             vals |-> csr.vals \o [i \in DOMAIN steps |-> steps[i].weight]]
                  /\ UNCHANGED status
    /\ UNCHANGED <<call, queue, visited, dist, parent, node, todo, recent, out>>

Next == Bfs \/ Expand \/ Follow \/ Settle \/ Relax \/ Variable \/ VariableLabel \/ Return \/ Csr

\* The thread that calls the search runs on.
Spec == Init /\ [][Next]_vars /\ WF_vars(Next)

-----------------------------------------------------------------------------
\* The reference: what the graph holds, without lists, queues and orders.
Edges ==
    LET k == {r \in ToSet(graph) : r.label = Label}
    IN  {<<r.src, r.dst, r.weight>> : r \in k} \cup
        (IF call.way = "both" THEN {<<r.dst, r.src, r.weight>> : r \in k} ELSE {})

\* The paths without a cycle that start with start and have at most k relationships.
RECURSIVE PathsUpTo(_)
PathsUpTo(k) ==
    IF k = 0 THEN {<<call.start>>}
    ELSE LET P == PathsUpTo(k - 1)
         IN  P \cup UNION {{Append(p, e[2]) : e \in {d \in Edges : d[1] = Last(p) /\ d[2] \notin ToSet(p)}} : p \in P}

PathsTo(n) == {p \in PathsUpTo(MaxNode) : Last(p) = n}
Hops(n) == Min({Len(p) : p \in PathsTo(n)}) - 1
Cost(p) ==
    FoldLeft(LAMBDA sum, i : sum + Min({e[3] : e \in {d \in Edges : d[1] = p[i] /\ d[2] = p[i + 1]}}),
             0, [i \in 1 .. Len(p) - 1 |-> i])
LeastCost(n) == Min({Cost(p) : p \in PathsTo(n)})

\* The walks of k relationships from start, over the relationships in R.
Walks(k, R) ==
    {w \in [1 .. k -> R] : /\ Origin(w[1], call.way) = call.start
                           /\ \A i \in 1 .. k - 1 : Target(w[i], call.way) = Origin(w[i + 1], call.way)}

Returned(algs) == status = "returned" /\ call.alg \in algs

-----------------------------------------------------------------------------
\* The variables have their types.
TypeOK ==
    /\ queue \in Seq(IF call.alg \in Search THEN Seq(Node) ELSE (0 .. Len(graph)) \X (1 .. call.max + 1))
    /\ visited \subseteq (IF call.alg \in Search THEN Node ELSE DOMAIN graph)
    /\ dist \in [Node -> 0 .. Infinite]
    /\ parent \in [Node -> Node]
    /\ node \in Seq(Node) /\ todo \in Seq([to : Node, weight : Nat])
    /\ recent \in [hops : 1 .. call.max + 1, id : 0 .. Len(graph), left : Int]
    /\ csr.rows \in Seq(Nat) /\ csr.cols \in Seq(Node) /\ csr.vals \in Seq(Nat)
    /\ status \in {"running", "returned", "unknown_id", "thrown"}

\* bfs and path_bfs visit every node that can be reached exactly once, none
\* after one that is farther, and path_bfs with a shortest path to it.
BfsRight ==
    Returned({"bfs", "path_bfs"}) =>
      LET nodes == [i \in DOMAIN out |-> Last(out[i])]
      IN  /\ ToSet(nodes) = {n \in Node : PathsTo(n) # {}}
          /\ IsInjective(nodes)
          /\ \A i, j \in DOMAIN out : i < j => Hops(nodes[i]) <= Hops(nodes[j])
          /\ call.alg = "path_bfs" =>
               \A i \in DOMAIN out : out[i] \in PathsTo(nodes[i]) /\ Len(out[i]) = Hops(nodes[i]) + 1

\* unweighted_shortest_path finds a path exactly when stop is another node
\* that can be reached, and all_unweighted_shortest_paths then finds at least
\* one; whatever they report is a shortest path with its number of hops. That
\* all_... reports every shortest path is not claimed.
ShortestRight ==
    Returned({"shortest", "all_shortest"}) =>
      /\ (out # <<>>) <=> (call.stop # call.start /\ PathsTo(call.stop) # {})
      /\ \A i \in DOMAIN out :
           /\ out[i].path \in PathsTo(call.stop)
           /\ out[i].cost = Len(out[i].path) - 1
           /\ out[i].cost = Hops(call.stop)
      /\ call.alg = "shortest" => Len(out) <= 1

\* weighted_shortest_path and all_weighted_shortest_paths succeed exactly
\* when stop can be reached. The one path has the least weight, and the weight
\* reported is that of the path; all the weights all_... reports are the ones
\* of its paths, and one of them is the least. That all_... reports every path
\* of the least weight is not claimed (AllCheapest).
CheapestRight ==
    Returned({"cheapest", "all_cheapest"}) =>
      /\ (out # <<>>) <=> (PathsTo(call.stop) # {})
      /\ \A i \in DOMAIN out : out[i].path \in PathsTo(call.stop) /\ out[i].cost = Cost(out[i].path)
      /\ out # <<>> => \E i \in DOMAIN out : out[i].cost = LeastCost(call.stop)
      /\ call.alg = "cheapest" => Len(out) <= 1

\* What the four searches for a path from start to stop return is right; that
\* the two all_... forms return all there is to return is not part of it.
PathsRight == ShortestRight /\ CheapestRight

\* The traversal over min to max hops calls the consumer for a relationship
\* once for every walk of that many hops that ends with it.
WalksRight ==
    Returned({"variable"}) =>
      \A r \in DOMAIN graph :
         Cardinality({i \in DOMAIN out : out[i] = r}) =
         Cardinality(UNION {{w \in Walks(k, DOMAIN graph) : w[k] = r} : k \in call.min .. call.max})

\* The relationships with the label that end a walk of min to max hops over
\* relationships with the label.
Asked ==
    {w[Len(w)] : w \in UNION {Walks(k, Accepted) : k \in (1 .. call.max) \cap (call.min .. call.max)}}

\* The traversal with a label calls the consumer at most once for a
\* relationship, only for one that was asked for, and does not run off the
\* end of a list. It misses none when all relationships have the label and
\* max is 1 or does not cut a walk short.
LabelRight ==
    call.alg = "variable_label" =>
      /\ status # "unknown_id"
      /\ IsInjective(out)
      /\ ToSet(out) \subseteq Asked
      /\ status = "returned" /\ Accepted = DOMAIN graph /\ (call.max = 1 \/ call.max >= Len(graph))
           => Asked \subseteq ToSet(out)

\* The two traversals over min to max hops call the consumer for the right
\* relationships, without a label and with one.
HopsRight == WalksRight /\ LabelRight

\* "Scans all FROM relationships with the given label code recursivley
\* starting from the the given node" (src/query/interp/query_ctx.hpp). It does
\* not hold: a relationship with another label hides the rest of its list.
LabelComplete == Returned({"variable_label"}) => Asked \subseteq ToSet(out)

\* "searches for all the shortest paths between start and stop nodes, having
\* with equal distance/weight" (src/analytics/shortest_path.hpp). It does not
\* hold: the path reported at a tie is the one of the old parent.
AllCheapest ==
    Returned({"all_cheapest"}) /\ PathsTo(call.stop) # {} =>
      {p \in PathsTo(call.stop) : Cost(p) = LeastCost(call.stop)} = {out[i].path : i \in DOMAIN out}

\* The row of a node in the CSR arrays of host_csr_build names a node and a
\* weight once for every relationship with that weight that leads to it, and
\* an unused slot has an empty row. The export ends with an exception, and not
\* with arrays that leave something out, exactly when it meets a slot in use
\* whose node the transaction does not see.
CsrRight ==
    call.alg = "csr" =>
      /\ status = "returned" => call.hidden = {}
      /\ status = "thrown" => call.hidden # {}
      /\ status = "returned" =>
           /\ Len(csr.rows) = Max(call.nodes) + 2
           /\ Len(csr.vals) = Len(csr.cols)
           /\ \A n \in Slots, m \in Node, w \in {r.weight : r \in ToSet(graph)} :
                LET Between(a, b) ==
                      Cardinality({r \in DOMAIN graph : graph[r].src = a /\ graph[r].dst = b /\ graph[r].weight = w})
                IN  Cardinality({i \in csr.rows[n + 1] + 1 .. csr.rows[n + 2] : csr.cols[i] = m /\ csr.vals[i] = w}) =
                      Between(n, m) + (IF call.way = "both" THEN Between(m, n) ELSE 0)

\* Every search ends, also on a graph with cycles.
Terminates == <>(status # "running")
=============================================================================
