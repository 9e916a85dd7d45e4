--------------------------- MODULE PipelinesProofs ---------------------------
(***************************************************************************)
(* Quiet of Pipelines, for any number of worker threads, any tables and    *)
(* any plans.                                                              *)
(***************************************************************************)
EXTENDS Pipelines, TLAPS

AllStopped == \A w \in Worker : wpc[w] = "stopped"

\* Quiet is not inductive: a step of an operator could be that of a worker
\* which has stopped, unless calls are left only while a task is executed.
QuietInv ==
    /\ wpc = [w \in Worker |-> wpc[w]]
    /\ out = [t \in Thread |-> out[t]]
    /\ \A w \in Worker : wpc[w] # "run" => out[w] = <<>>
    /\ pc \in {"finish", "end", "thrown"} => queue = <<>> /\ AllStopped

\* QuietInv is strong enough.
LEMMA InvGivesQuiet == QuietInv => Quiet
  BY DEF QuietInv, Quiet, AllStopped

\* A thread that calls an operator changes its own calls only.
LEMMA OperatorFrame ==
    ASSUME NEW t, Operator(t)
    PROVE  /\ out[t] # <<>>
           /\ \E seq : out' = [out EXCEPT ![t] = seq]
           /\ UNCHANGED <<pc, queue, wpc>>
<1>1. ASSUME NEW s, NEW seq, Effect(t, s, seq)
      PROVE  (\E q : out' = [out EXCEPT ![t] = q]) /\ UNCHANGED <<pc, queue, wpc>>
  <2>1. out' = [out EXCEPT ![t] = seq \o Tail(out[t])]
    BY <1>1 DEF Effect
  <2>. QED  BY <1>1, <2>1 DEF Effect
<1>2. ASSUME NEW name, NEW kinds, Do(t, name, kinds) PROVE out[t] # <<>>
  BY <1>2 DEF Do
<1>3. CASE Build(t)            BY <1>1, <1>2, <1>3 DEF Build
<1>4. CASE Probe(t)            BY <1>1, <1>2, <1>4 DEF Probe
<1>5. CASE UnionAll(t)         BY <1>1, <1>2, <1>5 DEF UnionAll
<1>6. CASE FinishBinary(t)     BY <1>1, <1>2, <1>6 DEF FinishBinary
<1>7. CASE Distinct(t)         BY <1>1, <1>2, <1>7 DEF Distinct
<1>8. CASE LimitLoad(t)        BY <1>1, <1>2, <1>8 DEF LimitLoad
<1>9. CASE LimitAdd(t)         BY <1>1, <1>2, <1>9 DEF LimitAdd
<1>10. CASE FinishUnary(t)     BY <1>1, <1>2, <1>10 DEF FinishUnary
<1>11. CASE Aggregate(t)       BY <1>1, <1>2, <1>11 DEF Aggregate
<1>12. CASE FinishAggregate(t) BY <1>1, <1>2, <1>12 DEF FinishAggregate
<1>13. CASE GroupBy(t)         BY <1>1, <1>2, <1>13 DEF GroupBy
<1>14. CASE OrderRead(t)       BY <1>1, <1>2, <1>14 DEF OrderRead
<1>15. CASE OrderWrite(t)      BY <1>1, <1>2, <1>15 DEF OrderWrite
<1>16. CASE FinishResults(t)   BY <1>1, <1>2, <1>16 DEF FinishResults
<1>17. CASE Collect(t)         BY <1>1, <1>2, <1>17 DEF Collect
<1>18. CASE FinishCollect(t)   BY <1>1, <1>2, <1>18 DEF FinishCollect
<1>. QED
  BY <1>3, <1>4, <1>5, <1>6, <1>7, <1>8, <1>9, <1>10, <1>11, <1>12, <1>13, <1>14, <1>15, <1>16,
     <1>17, <1>18 DEF Operator

\* A step of a worker finds it executing: nobody else has to be looked at.
LEMMA WorkerStep ==
    ASSUME QuietInv, NEW w \in Worker, Work(w)
    PROVE  QuietInv'
<1>. USE DEF QuietInv, AllStopped
<1>0. w # Main /\ w \in Thread
  BY PipelinesAssumption DEF Thread
<1>1. CASE Check(w)      BY <1>0, <1>1 DEF Check
<1>2. CASE TryPop(w)     BY <1>0, <1>2 DEF TryPop
<1>3. CASE ScanNext(w)
  <2>1. /\ wpc[w] = "run"
        /\ \E seq : out' = [out EXCEPT ![w] = seq]
        /\ UNCHANGED <<pc, queue, wpc>>
    BY <1>3 DEF ScanNext
  <2>. QED  BY <1>0, <2>1
<1>4. CASE ScanEnd(w)    BY <1>0, <1>4 DEF ScanEnd, EndTask
<1>5. CASE ScanThrow(w)  BY <1>0, <1>5 DEF ScanThrow, EndTask
<1>6. CASE Operator(w)
  <2>1. /\ out[w] # <<>>
        /\ \E seq : out' = [out EXCEPT ![w] = seq]
        /\ UNCHANGED <<pc, queue, wpc>>
    BY <1>6, OperatorFrame
  <2>2. wpc[w] = "run"
    BY <2>1
  <2>. QED  BY <1>0, <2>1, <2>2
<1>. QED  BY <1>1, <1>2, <1>3, <1>4, <1>5, <1>6 DEF Work

\* A step of the thread of the query: it leaves the pool when all have
\* stopped, and starts them again when it opens the next one.
LEMMA QueryStep ==
    ASSUME QuietInv, Query
    PROVE  QuietInv'
<1>. USE DEF QuietInv, AllStopped
<1>0. Main \in Thread /\ \A w \in Worker : w # Main /\ w \in Thread
  BY PipelinesAssumption DEF Thread
<1>1. CASE Submit        BY <1>0, <1>1 DEF Submit
<1>2. CASE Get           BY <1>0, <1>2 DEF Get
<1>3. CASE Join
  <2>1. \E seq : out' = [out EXCEPT ![Main] = seq]
    BY <1>3 DEF Join
  <2>. QED  BY <1>0, <1>3, <2>1 DEF Join
<1>4. CASE NextPipeline
  <2>1. CASE cur = Len(order)
    BY <1>0, <1>4, <2>1 DEF NextPipeline
  <2>2. CASE cur # Len(order)
    <3>1. AllStopped
      BY <1>4 DEF NextPipeline
    <3>2. \A w \in Worker : out[w] = <<>>
      BY <3>1
    <3>. QED  BY <1>0, <1>4, <2>2, <3>2 DEF NextPipeline
  <2>. QED  BY <2>1, <2>2
<1>5. CASE Operator(Main)
  <2>1. (\E seq : out' = [out EXCEPT ![Main] = seq]) /\ UNCHANGED <<pc, queue, wpc>>
    BY <1>5, OperatorFrame
  <2>. QED  BY <1>0, <2>1
<1>. QED  BY <1>1, <1>2, <1>3, <1>4, <1>5 DEF Query

\* parallel_nodes and parallel_relationships leave no worker behind that
\* could still call the consumer or an operator: neither when they return nor
\* when the exception of a task comes through.
THEOREM QuietTheorem == Spec => []Quiet
<1>1. Init => QuietInv
  <2> SUFFICES ASSUME Init PROVE QuietInv
    OBVIOUS
  <2>1. wpc = [w \in Worker |-> "check"] /\ out = [t \in Thread |-> <<>>] /\ pc = "submit"
    BY DEF Init
  <2>. QED  BY <2>1 DEF QuietInv, Thread
<1>2. QuietInv /\ [Next]_vars => QuietInv'
  <2>1. CASE UNCHANGED vars
    BY <2>1 DEF vars, QuietInv, AllStopped
  <2>. QED  BY <2>1, WorkerStep, QueryStep DEF Next
<1>. QED  BY <1>1, <1>2, InvGivesQuiet, PTL DEF Spec
=============================================================================
