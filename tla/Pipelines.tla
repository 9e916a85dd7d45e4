------------------------------ MODULE Pipelines ------------------------------
(***************************************************************************)
(* The execution of a query: query_batch runs its pipelines one after the  *)
(* other; a pipeline starts with a scan that cuts the chunks of a table    *)
(* into tasks for a thread_pool (query_ctx::parallel_nodes and             *)
(* parallel_relationships); the worker threads push every tuple through    *)
(* the operators (plan_op/qop*.cpp), which they share.                     *)
(*                                                                         *)
(* A plan is a sequence of operators [kind, next, side, prio, arg, chunks]:*)
(* next is the subscriber and side its function that consume_ is bound to, *)
(* prio is priority_; a scan has the chunks of its table, each a sequence  *)
(* of tuples. Sources come before the operators that consume from them,    *)
(* the last operator is collect_result. A tuple is a sequence of values.   *)
(*                                                                         *)
(* What happens under a mutex is one step; limit_result and order_by have  *)
(* none, so theirs takes two.                                              *)
(***************************************************************************)
EXTENDS Integers, Sequences, FiniteSets, SequencesExt, FiniteSetsExt

CONSTANTS
    Worker,      \* threads of a thread_pool
    PerThread,   \* CHUNKS_PER_THREAD
    Plans,       \* the plans
    MayThrow     \* a scan may meet a record that another transaction has locked

Main == "main"
Thread == Worker \cup {Main}

ASSUME PipelinesAssumption == PerThread \in Nat \ {0} /\ Plans # {} /\ Main \notin Worker

NULL == 0

VARIABLES
    plan,      \* the plan
    order,     \* pipeline_seq_: the sources in the order they are run
    cur,       \* position in order
    pc,        \* where the thread is that runs the query
    start,     \* parallel_nodes: first chunk of the next task, from 1
    queue,     \* work_queue: tasks [id, todo]
    fut,       \* futures of the tasks: "open", "done", "thrown"
    done,      \* thread_pool::done
    wpc,       \* [Worker -> where the worker thread is]
    task,      \* [Worker -> task it is executing]
    out,       \* [Thread -> calls of operators still to be made, in order]
    st,        \* [operator -> [built, n, sum, phases]]
    finishes   \* calls of collect_result::finish

vars == <<plan, order, cur, pc, start, queue, fut, done, wpc, task, out, st, finishes>>

Ops(p) == DOMAIN p
Scans(p) == {i \in Ops(p) : p[i].kind = "scan"}
Tasks == DOMAIN fut
SinkOp == Len(plan)

NoTask == [id |-> 0, todo |-> <<>>]
NewState == [built |-> <<>>, n |-> 0, sum |-> 0, phases |-> 0]

-----------------------------------------------------------------------------
(* query_batch. *)

\* query_pipeline: the largest priority on the way from operator i on.
Priority(p) ==
    LET prio[i \in Ops(p)] ==
          IF p[i].next = 0 THEN 0 ELSE Max({p[i].prio, prio[p[i].next]})
    IN  prio

\* Mutant: in the order in which the planner met them.
schedule_pipelines_source(p) == SetToSortSeq(Scans(p), <)

\* schedule_pipelines: by descending priority; std::sort leaves so few
\* elements of equal priority in their order.
schedule_pipelines(p) ==
    LET prio == Priority(p)
    IN  SetToSortSeq(Scans(p), LAMBDA i, j : prio[i] > prio[j] \/ (prio[i] = prio[j] /\ i < j))

Init ==
    /\ plan \in Plans
    /\ order = schedule_pipelines(plan)
    /\ cur = 1
    /\ pc = "submit" /\ start = 1 /\ queue = <<>> /\ fut = <<>> /\ done = FALSE
    /\ wpc = [w \in Worker |-> "check"]
    /\ task = [w \in Worker |-> NoTask]
    /\ out = [t \in Thread |-> <<>>]
    /\ st = [i \in Ops(plan) |-> NewState]
    /\ finishes = 0

Source == plan[order[cur]]

-----------------------------------------------------------------------------
(* parallel_nodes and the thread pool, seen from the thread of the query.   *)

\* Mutant: the next task starts with the last chunk of this one.
Submit_overlap ==
    LET last == Min({start + PerThread - 1, Len(Source.chunks)})
    IN  /\ pc = "submit"
        /\ IF start <= Len(Source.chunks)
           THEN /\ queue' = Append(queue, [id   |-> Len(fut) + 1,
                                           todo |-> FlattenSeq(SubSeq(Source.chunks, start, last))])
                /\ fut' = Append(fut, "open")
                /\ start' = IF last = Len(Source.chunks) THEN last + 1 ELSE last
                /\ UNCHANGED pc
           ELSE pc' = "get" /\ UNCHANGED <<queue, fut, start>>
        /\ UNCHANGED <<plan, order, cur, done, wpc, task, out, st, finishes>>

\* pool.submit(...) of the next PerThread chunks.
Submit ==
    LET last == Min({start + PerThread - 1, Len(Source.chunks)})
    IN  /\ pc = "submit"
        /\ IF start <= Len(Source.chunks)
           THEN /\ queue' = Append(queue, [id   |-> Len(fut) + 1,
                                           todo |-> FlattenSeq(SubSeq(Source.chunks, start, last))])
                /\ fut' = Append(fut, "open")
                /\ start' = start + PerThread
                /\ UNCHANGED pc
           ELSE pc' = "get" /\ UNCHANGED <<queue, fut, start>>
        /\ UNCHANGED <<plan, order, cur, done, wpc, task, out, st, finishes>>

\* for (auto &f : res) f.get(): in the order of the tasks, up to the first
\* one that rethrows. Then the pool goes out of scope.
Get ==
    /\ pc = "get"
    /\ \/ \E k \in Tasks : fut[k] = "thrown" /\ \A j \in 1 .. k - 1 : fut[j] = "done"
       \/ \A k \in Tasks : fut[k] = "done"
    /\ pc' = "close" /\ done' = TRUE
    /\ UNCHANGED <<plan, order, cur, start, queue, fut, wpc, task, out, st, finishes>>

Failed == \E k \in Tasks : fut[k] = "thrown"

\* Mutant: ~thread_pool does not wait for the workers.
Join_early ==
    /\ pc = "close"
    /\ queue' = <<>>
    /\ pc' = IF Failed THEN "thrown" ELSE "finish"
    /\ out' = [out EXCEPT ![Main] =
                 IF Failed THEN <<>> ELSE <<[op |-> Source.next, call |-> "finish", tup |-> <<>>, snap |-> <<>>]>>]
    /\ UNCHANGED <<plan, order, cur, start, fut, done, wpc, task, st, finishes>>

\* ~thread_pool: the workers are joined, tasks still in the queue are
\* dropped. node_scan::start then calls default_finish, unless the exception
\* of a task is on its way.
Join ==
    /\ pc = "close"
    /\ \A w \in Worker : wpc[w] = "stopped"
    /\ queue' = <<>>
    /\ pc' = IF Failed THEN "thrown" ELSE "finish"
    /\ out' = [out EXCEPT ![Main] =
                 IF Failed THEN <<>> ELSE <<[op |-> Source.next, call |-> "finish", tup |-> <<>>, snap |-> <<>>]>>]
    /\ UNCHANGED <<plan, order, cur, start, fut, done, wpc, task, st, finishes>>

\* query_batch::start: the next pipeline, with a pool of its own.
NextPipeline ==
    /\ pc = "finish" /\ out[Main] = <<>>
    /\ IF cur = Len(order)
       THEN pc' = "end" /\ UNCHANGED <<cur, start, fut, done, wpc>>
       ELSE /\ pc' = "submit" /\ cur' = cur + 1 /\ start' = 1 /\ fut' = <<>> /\ done' = FALSE
            /\ wpc' = [w \in Worker |-> "check"]
    /\ UNCHANGED <<plan, order, queue, task, out, st, finishes>>

-----------------------------------------------------------------------------
(* worker_thread. *)

Check(w) ==
    /\ wpc[w] = "check"
    /\ wpc' = [wpc EXCEPT ![w] = IF done THEN "stopped" ELSE "pop"]
    /\ UNCHANGED <<plan, order, cur, pc, start, queue, fut, done, task, out, st, finishes>>

\* try_pop, under head_mutex.
TryPop(w) ==
    /\ wpc[w] = "pop"
    /\ IF queue = <<>>
       THEN wpc' = [wpc EXCEPT ![w] = "check"] /\ UNCHANGED <<queue, task>>
       ELSE /\ wpc' = [wpc EXCEPT ![w] = "run"]
            /\ task' = [task EXCEPT ![w] = Head(queue)]
            /\ queue' = Tail(queue)
    /\ UNCHANGED <<plan, order, cur, pc, start, fut, done, out, st, finishes>>

\* The packaged_task ends: its future gets the value or the exception.
EndTask(w, result) ==
    /\ fut' = [fut EXCEPT ![task[w].id] = result]
    /\ task' = [task EXCEPT ![w] = NoTask]
    /\ wpc' = [wpc EXCEPT ![w] = "check"]
    /\ UNCHANGED <<plan, order, cur, pc, start, queue, done, out, st, finishes>>

To(i, tup) == [op |-> plan[i].next, call |-> plan[i].side, tup |-> tup, snap |-> <<>>]

\* node_scan_task::scan: the consumer is called for one record after the other.
ScanNext(w) ==
    /\ wpc[w] = "run" /\ out[w] = <<>> /\ task[w].todo # <<>>
    /\ out' = [out EXCEPT ![w] = <<To(order[cur], Head(task[w].todo))>>]
    /\ task' = [task EXCEPT ![w].todo = Tail(@)]
    /\ UNCHANGED <<plan, order, cur, pc, start, queue, fut, done, wpc, st, finishes>>

ScanEnd(w) ==
    /\ wpc[w] = "run" /\ out[w] = <<>> /\ task[w].todo = <<>>
    /\ EndTask(w, "done")

\* Mutant: the exception ends the task and nobody is told.
ScanThrow_lost(w) ==
    /\ MayThrow
    /\ wpc[w] = "run" /\ out[w] = <<>> /\ task[w].todo # <<>>
    /\ EndTask(w, "open")

\* get_valid_node_version throws transaction_abort.
ScanThrow(w) ==
    /\ MayThrow
    /\ wpc[w] = "run" /\ out[w] = <<>> /\ task[w].todo # <<>>
    /\ EndTask(w, "thrown")

-----------------------------------------------------------------------------
(* The operators. Thread t makes the first of its calls; what that call      *)
(* passes on to the subscriber comes before the calls that are left.         *)

Call(t) == Head(out[t])

Do(t, name, kinds) == out[t] # <<>> /\ Call(t).call = name /\ plan[Call(t).op].kind \in kinds

\* The effect of the call: the state of the operator becomes s and the calls
\* in seq are to be made.
Effect(t, s, seq) ==
    /\ out' = [out EXCEPT ![t] = seq \o Tail(@)]
    /\ st' = [st EXCEPT ![Call(t).op] = s]
    /\ UNCHANGED <<plan, order, cur, pc, start, queue, fut, done, wpc, task>>

My(t) == st[Call(t).op]
Pass(t, tup) == <<To(Call(t).op, tup)>>
PassAll(t, tups) == [i \in DOMAIN tups |-> To(Call(t).op, tups[i])]

\* The join condition of a plan: the first values are equal.
Matches(a, b) == a[1] = b[1]

\* The tuple of null values that left_outer_join_op puts beside a tuple
\* without a partner: as wide as the first tuple of the build side, and one
\* value wide when there is none.
Padding(built) == [i \in 1 .. IF built = <<>> THEN 1 ELSE Len(built[1]) |-> NULL]

\* What a binary operator makes of a tuple of its probe side.
Joined(kind, built, v) ==
    LET same == SelectSeq(built, LAMBDA b : Matches(b, v))
    IN  CASE kind = "cross"  -> [i \in DOMAIN built |-> built[i] \o v]
          [] kind = "hash"   -> [i \in DOMAIN same |-> same[i] \o v]
          [] kind = "left"   -> IF same = <<>> THEN <<v \o Padding(built)>>
                                ELSE [i \in DOMAIN same |-> v \o same[i]]
          [] kind = "except" -> IF same = <<>> THEN <<v>> ELSE <<>>

Binary == {"cross", "hash", "left", "except"}

\* cross_join_op::process_right, hash_join_op::build_phase,
\* left_outer_join_op::process_right, except_op::process_right.
Build(t) ==
    /\ Do(t, "build", Binary)
    /\ Effect(t, [My(t) EXCEPT !.built = Append(@, Call(t).tup)], <<>>)
    /\ UNCHANGED finishes

\* cross_join_op::process_left, hash_join_op::probe_phase,
\* left_outer_join_op::process_left, except_op::process_left.
Probe(t) ==
    /\ Do(t, "probe", Binary)
    /\ Effect(t, My(t), PassAll(t, Joined(plan[Call(t).op].kind, My(t).built, Call(t).tup)))
    /\ UNCHANGED finishes

\* union_all_op::process_left and process_right.
UnionAll(t) ==
    /\ Do(t, "build", {"union"}) \/ Do(t, "probe", {"union"})
    /\ Effect(t, My(t), Pass(t, Call(t).tup))
    /\ UNCHANGED finishes

\* Mutant: each side ends the operator, as in nested_loop_join_op::finish.
FinishBinary_each(t) ==
    /\ Do(t, "finish", Binary \cup {"union"})
    /\ Effect(t, [My(t) EXCEPT !.phases = @ + 1],
              <<[Call(t) EXCEPT !.op = plan[Call(t).op].next]>>)
    /\ UNCHANGED finishes

\* finish of the binary operators: the second call goes on.
FinishBinary(t) ==
    /\ Do(t, "finish", Binary \cup {"union"})
    /\ Effect(t, [My(t) EXCEPT !.phases = @ + 1],
              IF My(t).phases + 1 > 1 THEN <<[Call(t) EXCEPT !.op = plan[Call(t).op].next]>> ELSE <<>>)
    /\ UNCHANGED finishes

\* std::to_string of a number: its decimal digits.
Digits[n \in Nat] == IF n < 10 THEN <<n>> ELSE Append(Digits[n \div 10], n % 10)

\* The text of a value; that of null, "NULL", is one letter here and no digit.
Text(v) == IF v = NULL THEN <<10>> ELSE Digits[v]

\* The key of distinct_tuples: the texts of the values one after the other,
\* with nothing between them.
Key(tup) == FlattenSeq([i \in DOMAIN tup |-> Text(tup[i])])

\* distinct_tuples::process; built is keys_.
Distinct(t) ==
    /\ Do(t, "process", {"distinct"})
    /\ IF Contains(My(t).built, Key(Call(t).tup))
       THEN Effect(t, My(t), <<>>)
       ELSE Effect(t, [My(t) EXCEPT !.built = Append(@, Key(Call(t).tup))], Pass(t, Call(t).tup))
    /\ UNCHANGED finishes

\* limit_result::process: processed_.load() < num_ ...
LimitLoad(t) ==
    /\ Do(t, "process", {"limit"})
    /\ Effect(t, My(t), IF My(t).n < plan[Call(t).op].arg THEN <<[Call(t) EXCEPT !.call = "add"]>> ELSE <<>>)
    /\ UNCHANGED finishes

\* ... and, later, processed_.fetch_add(1) and consume_.
LimitAdd(t) ==
    /\ Do(t, "add", {"limit"})
    /\ Effect(t, [My(t) EXCEPT !.n = @ + 1], Pass(t, Call(t).tup))
    /\ UNCHANGED finishes

\* default_finish of an operator without a finish of its own.
FinishUnary(t) ==
    /\ Do(t, "finish", {"distinct", "limit"})
    /\ Effect(t, My(t), <<[Call(t) EXCEPT !.op = plan[Call(t).op].next]>>)
    /\ UNCHANGED finishes

\* aggregate::process with count and sum.
Aggregate(t) ==
    /\ Do(t, "process", {"aggregate"})
    /\ Effect(t, [My(t) EXCEPT !.n = @ + 1, !.sum = @ + Call(t).tup[1]], <<>>)
    /\ UNCHANGED finishes

\* aggregate::finish: one tuple, then the subscriber's finish.
FinishAggregate(t) ==
    /\ Do(t, "finish", {"aggregate"})
    /\ Effect(t, My(t), Pass(t, <<My(t).n, My(t).sum>>) \o <<[Call(t) EXCEPT !.op = plan[Call(t).op].next]>>)
    /\ UNCHANGED finishes

\* group_by::process with count, grouped by the first value.
GroupBy(t) ==
    LET key == Call(t).tup[1]
        groups == My(t).built
        at == SelectInSeq(groups, LAMBDA g : g[1] = key)
        counted == IF at = 0 THEN Append(groups, <<key, 1>>)
                   ELSE [groups EXCEPT ![at] = <<key, groups[at][2] + 1>>]
    IN  /\ Do(t, "process", {"group"})
        /\ Effect(t, [My(t) EXCEPT !.built = counted], <<>>)
        /\ UNCHANGED finishes

\* order_by::process: results_.append(v) without a mutex: two threads that
\* append at a time may both link their element to the same end of the list.
OrderRead(t) ==
    /\ Do(t, "process", {"order"})
    /\ Effect(t, My(t), <<[Call(t) EXCEPT !.call = "write", !.snap = My(t).built]>>)
    /\ UNCHANGED finishes

OrderWrite(t) ==
    /\ Do(t, "write", {"order"})
    /\ Effect(t, [My(t) EXCEPT !.built = Append(Call(t).snap, Call(t).tup)], <<>>)
    /\ UNCHANGED finishes

Sorted(seq) == SortSeq(seq, LAMBDA a, b : a[1] < b[1])

\* order_by::finish and group_by::finish.
FinishResults(t) ==
    /\ Do(t, "finish", {"order", "group"})
    /\ LET results == IF plan[Call(t).op].kind = "order" THEN Sorted(My(t).built) ELSE My(t).built
       IN  Effect(t, My(t), PassAll(t, results) \o <<[Call(t) EXCEPT !.op = plan[Call(t).op].next]>>)
    /\ UNCHANGED finishes

\* collect_result::process.
Collect(t) ==
    /\ Do(t, "process", {"collect"})
    /\ Effect(t, [My(t) EXCEPT !.built = Append(@, Call(t).tup)], <<>>)
    /\ UNCHANGED finishes

\* collect_result::finish: results_.notify().
FinishCollect(t) ==
    /\ Do(t, "finish", {"collect"})
    /\ Effect(t, My(t), <<>>)
    /\ finishes' = finishes + 1

Operator(t) ==
    \/ Build(t) \/ Probe(t) \/ UnionAll(t) \/ FinishBinary(t)
    \/ Distinct(t) \/ LimitLoad(t) \/ LimitAdd(t) \/ FinishUnary(t)
    \/ Aggregate(t) \/ FinishAggregate(t) \/ GroupBy(t)
    \/ OrderRead(t) \/ OrderWrite(t) \/ FinishResults(t)
    \/ Collect(t) \/ FinishCollect(t)

-----------------------------------------------------------------------------

Query == Submit \/ Get \/ Join \/ NextPipeline \/ Operator(Main)

Work(w) == Check(w) \/ TryPop(w) \/ ScanNext(w) \/ ScanEnd(w) \/ ScanThrow(w) \/ Operator(w)

Next == Query \/ \E w \in Worker : Work(w)

\* Every thread that can go on is scheduled again and again.
Spec == Init /\ [][Next]_vars /\ WF_vars(Query) /\ \A w \in Worker : WF_vars(Work(w))

-----------------------------------------------------------------------------
(* Properties. *)

\* All variables have values of their types.
TypeOK ==
    /\ order \in Seq(Scans(plan)) /\ cur \in 1 .. Len(order)
    /\ pc \in {"submit", "get", "close", "finish", "end", "thrown"}
    /\ start \in 1 .. Len(Source.chunks) + PerThread
    /\ \A i \in DOMAIN queue : queue[i].id \in Tasks
    /\ fut \in Seq({"open", "done", "thrown"}) /\ done \in BOOLEAN
    /\ wpc \in [Worker -> {"check", "pop", "run", "stopped"}]
    /\ \A w \in Worker : task[w].id \in {0} \cup Tasks
    /\ \A t \in Thread : \A i \in DOMAIN out[t] : out[t][i].op \in Ops(plan)
    /\ \A i \in Ops(plan) : st[i].phases \in 0 .. 2
    /\ finishes \in Nat

\* The relation that operator i produces, computed bottom up.
Reference ==
    LET from(i, side) == {j \in Ops(plan) : plan[j].next = i /\ plan[j].side = side}
        ref[i \in Ops(plan)] ==
          LET in(side) == ref[CHOOSE j \in from(i, side) : TRUE]
              kind == plan[i].kind
          IN  CASE kind = "scan" -> FlattenSeq(plan[i].chunks)
                [] kind \in Binary ->
                     FlattenSeq([k \in DOMAIN in("probe") |-> Joined(kind, in("build"), in("probe")[k])])
                [] kind = "union" -> in("build") \o in("probe")
                [] kind = "distinct" -> SetToSeq(Range(in("process")))
                [] kind = "aggregate" ->
                     <<<<Len(in("process")), FoldLeft(LAMBDA s, v : s + v[1], 0, in("process"))>>>>
                [] kind = "group" ->
                     SetToSeq({<<k, Cardinality({x \in DOMAIN in("process") : in("process")[x][1] = k})>> :
                                 k \in {in("process")[x][1] : x \in DOMAIN in("process")}})
                [] OTHER -> in("process")
    IN  ref[SinkOp]

Count(seq, v) == Cardinality({i \in DOMAIN seq : seq[i] = v})
SameBag(s, r) == Len(s) = Len(r) /\ \A i \in DOMAIN r : Count(s, r[i]) = Count(r, r[i])

Limits == {plan[i].arg : i \in {j \in Ops(plan) : plan[j].kind = "limit"}}
HasOrder == \E i \in Ops(plan) : plan[i].kind = "order"

\* A query that ends has the result of its plan: however the threads took
\* turns, every tuple went through every operator once, and order_by's result
\* is in order. A limit (the last operator of its plan) lets at least as many
\* tuples through as it says, if there are as many; the load and the fetch_add
\* of processed_ are two steps, so every other worker may let one more through,
\* and none is let through twice.
ResultRight ==
    LET result == st[SinkOp].built
    IN  pc = "end" =>
           /\ IF Limits = {} THEN SameBag(result, Reference)
              ELSE /\ Len(result) >= Min(Limits \cup {Len(Reference)})
                   /\ \A m \in Limits : Len(result) < m + Cardinality(Worker)
                   /\ \A i \in DOMAIN result : Count(result, result[i]) <= Count(Reference, result[i])
           /\ HasOrder => \A i, j \in DOMAIN result : i < j => result[i][1] <= result[j][1]

\* When parallel_nodes has returned or thrown, no worker runs a task any more:
\* the consumer it would call, a lambda with references to the caller's
\* variables, and the operators may be gone.
Quiet ==
    pc \in {"finish", "end", "thrown"} =>
       queue = <<>> /\ \A w \in Worker : wpc[w] = "stopped" /\ out[w] = <<>>

\* finish is called when all results have been processed (qop.hpp:155): the
\* end of the result is announced once, by the last pipeline, no tuple comes
\* after it, and a query that ends has announced it.
FinishLast ==
    /\ finishes <= 1
    /\ finishes = 1 => cur = Len(order) /\ \A t \in Thread : out[t] = <<>>
    /\ pc = "end" => finishes = 1

\* The operators that j gets its tuples for side from, directly or not.
Feeds(j, side) ==
    LET feeds[i \in Ops(plan)] ==
          plan[i].next # 0 /\ (IF plan[i].next = j THEN plan[i].side = side ELSE feeds[plan[i].next])
    IN  {i \in Ops(plan) : feeds[i]}

\* While a tuple of the probe side is in a join, the pipelines of its build
\* side have come to their end.
BuildFirst ==
    \A t \in Thread : out[t] # <<>> /\ Call(t).call = "probe" /\ plan[Call(t).op].kind \in Binary =>
       \A k \in DOMAIN order : order[k] \in Feeds(Call(t).op, "build") => k < cur

\* limit_result is "a query operator for producing only the given number of
\* results" (qop.hpp:400).
LimitKept == \A m \in Limits : Len(st[SinkOp].built) <= m

\* A query ends: no lost wake-up, no future that stays open, no worker that
\* does not see done.
Terminates == <>(pc \in {"end", "thrown"} /\ \A w \in Worker : wpc[w] = "stopped")
=============================================================================
