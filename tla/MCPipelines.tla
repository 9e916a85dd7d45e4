----------------------------- MODULE MCPipelines -----------------------------
(* Instances of Pipelines: plans as the planner wires them.                 *)
EXTENDS Pipelines

Op(kind, next, side, prio, arg) ==
    [kind |-> kind, next |-> next, side |-> side, prio |-> prio, arg |-> arg, chunks |-> <<>>]
ScanOf(chunks, next, side, prio) ==
    [kind |-> "scan", next |-> next, side |-> side, prio |-> prio, arg |-> 0, chunks |-> chunks]
Sink == Op("collect", 0, "", 0, 0)

\* Four chunks, of which one is empty.
Table == << << <<1>>, <<2>> >>, <<>>, << <<1>> >>, << <<2>>, <<3>> >> >>
Small == << << <<2>> >>, << <<3>> >>, << <<2>> >> >>
One == << << <<2>>, <<1>> >> >>
\* Tuples of two values, of which two are the same.
Pairs == << << <<2, 1>> >>, << <<2, 3>> >>, << <<2, 1>> >> >>

\* One scan and an operator on it.
Unary(table, kind, arg) == <<ScanOf(table, 2, "process", 0), Op(kind, 3, "process", 0, arg), Sink>>

\* A join: the planner visits the left child first. For left outer join and
\* except the left child is the probe side.
JoinPlan(kind, left, right) ==
    IF kind \in {"cross", "hash"}
    THEN <<ScanOf(left, 3, "build", 1), ScanOf(right, 3, "probe", 0), Op(kind, 4, "process", 0, 0), Sink>>
    ELSE <<ScanOf(left, 3, "probe", 0), ScanOf(right, 3, "build", 1), Op(kind, 4, "process", 0, 0), Sink>>

UnionPlan ==
    <<ScanOf(One, 3, "build", 0), ScanOf(Small, 3, "probe", 0), Op("union", 4, "process", 0, 0),
      Op("distinct", 5, "process", 0, 0), Sink>>

\* A join below the build side of another one, and an aggregate on top.
NestedPlan ==
    <<ScanOf(One, 3, "build", 1), ScanOf(One, 3, "probe", 0), Op("hash", 5, "build", 1, 0),
      ScanOf(Small, 5, "probe", 0), Op("hash", 6, "process", 0, 0),
      Op("aggregate", 7, "process", 0, 0), Sink>>

GoodPlans ==
    {Unary(Table, k, 0) : k \in {"distinct", "aggregate", "group"}}
    \cup {Unary(Small, "limit", 1), Unary(One, "order", 0), UnionPlan, NestedPlan,
          JoinPlan("left", One, Table), JoinPlan("left", One, Pairs), JoinPlan("left", One, << <<>> >>),
          Unary(Pairs, "distinct", 0)}
    \cup {JoinPlan(k, Small, Table) : k \in Binary}

\* limit above a scan of two tasks.
LimitPlans == {Unary(Small, "limit", 1)}
\* distinct above two tuples whose values have the same text when joined.
DistinctPlans == {Unary(<< << <<1, 23>>, <<12, 3>> >> >>, "distinct", 0)}
\* order_by above a scan of two tasks.
OrderPlans == {Unary(Small, "order", 0)}
\* except below the build side of a hash join.
ExceptBelow ==
    {<<ScanOf(One, 3, "probe", 0), ScanOf(Small, 3, "build", 1), Op("except", 5, "build", 1, 0),
       ScanOf(One, 5, "probe", 0), Op("hash", 6, "process", 0, 0), Sink>>}
=============================================================================
