----------------------------- MODULE MvtoProofs -----------------------------
(***************************************************************************)
(* What is proved of the MVTO protocol for any number of transactions and  *)
(* objects.                                                                *)
(*                                                                         *)
(* Serializability, of applications that read and update objects by their  *)
(* ids and let no two calls overlap. MvtoVersions has the invariant and    *)
(* the calls that read; here are the other steps, and what follows.        *)
(*                                                                         *)
(* And, whatever the applications do: oldest_xid_, which decides what gc   *)
(* and vacuum may remove, never passes a running transaction if            *)
(* begin_transaction is not interrupted between taking the xid and         *)
(* entering active_tx_. That proof needs nothing about the versions: the   *)
(* invariant speaks of clock, xids, active_tx_ and oldest_xid_ only.       *)
(***************************************************************************)
EXTENDS MvtoVersions

\* A transaction inside its call: the object, and that it has no decided change.
LEMMA InCall ==
    ASSUME SerialInv, NEW t \in Tx, state[t] \in {"checked", "locked"}, NEW o, o = call[t].obj
    PROVE  /\ Calling(t) /\ o \in app.obj /\ o \in Obj /\ ObjectOK(o) /\ xid[t] \in Xid
           /\ Shape(main[o], vers[o], Dates(o)) /\ Dates(o) \subseteq Xid
           /\ xid[t] \notin Dates(o) /\ xid[t] # 0
           /\ call[t].ref # 0 => main[o].lock = xid[t]
<1>1. Calling(t) /\ TypeOK /\ OldestInv /\ Plain /\ o \in app.obj
  BY Zenon DEF SerialInv, Calling
<1>2. xid[t] \notin Dates(o) /\ xid[t] # 0 /\ Dates(o) \subseteq Xid
  BY <1>1, NotDated, DatesType, Zenon DEF Decided
<1>3. o \in Obj /\ xid[t] \in Xid
  BY <1>1, Zenon DEF Plain, TypeOK
<1>4. ObjectOK(o) /\ Shape(main[o], vers[o], Dates(o))
  BY <1>1, Zenon DEF SerialInv, ObjectOK
<1>5. call[t].ref # 0 => main[o].lock = xid[t]
  BY <1>1, <1>4, Zenon DEF Calling, ObjectOK, Pending, Open
<1>6. QED
  BY <1>1, <1>2, <1>3, <1>4, <1>5, Zenon

\* try_lock: the record that was checked is still free, or t has it already.
LEMMA SerialLock ==
    ASSUME SerialInv, OldestInv', NEW t \in Tx, try_lock(t), app' = app
    PROVE  SerialInv'
<1>1. TypeOK /\ OldestInv /\ Plain /\ Covered /\ \A p \in app.obj : ObjectOK(p)
  BY Zenon DEF SerialInv
<1>2. /\ state[t] = "checked" /\ \A u \in Tx \ {t} : state[u] \notin Guarded
      /\ UNCHANGED <<app, used, xid, call, nodes, rships, todo, clock, active, oldest, garbage, wrote, reads>>
  BY <1>1, AtAlone, Zenon DEF try_lock, shared, history
<1>3. PICK o : o = call[t].obj
  BY Zenon
<1>4. /\ Calling(t) /\ o \in app.obj /\ o \in Obj /\ ObjectOK(o) /\ xid[t] \in Xid
      /\ Shape(main[o], vers[o], Dates(o)) /\ Dates(o) \subseteq Xid
      /\ xid[t] \notin Dates(o) /\ xid[t] # 0
      /\ call[t].ref # 0 => main[o].lock = xid[t]
  BY <1>2, <1>3, InCall, Zenon
<1>5. PICK c : c = CellAt(o, call[t].ref)
  BY Zenon
<1>6. c.lock \in {0, xid[t]} =>
         Put(o, call[t].ref, [c EXCEPT !.lock = xid[t]]) /\ state' = [state EXCEPT ![t] = "locked"]
  BY <1>3, <1>5, Zenon DEF try_lock
<1>7. CASE call[t].ref # 0
  <2>1. PICK n \in vers[o] : OwnOf(n, main[o], vers[o]) /\ n.pos = call[t].ref
    BY <1>3, <1>4, <1>7, Zenon DEF Calling
  <2>2. c = n /\ n.lock = xid[t] /\ n \in Cell
    BY <1>4, <1>5, <1>7, <2>1, CellFound, SMTT(30) DEF OwnOf, Shape, Positioned
  <2>3. [n EXCEPT !.lock = xid[t]] = n
    BY <2>2, Zenon DEF Cell
  <2>4. (vers[o] \ {n}) \cup {n} = vers[o]
    BY Zenon
  <2>5. main' = main /\ vers' = [vers EXCEPT ![o] = vers[o]] /\ state' = [state EXCEPT ![t] = "locked"]
    BY <1>5, <1>6, <1>7, <2>2, <2>3, <2>4, Zenon DEF Put
  <2>6. vers' = vers
    BY <1>1, <2>5, Zenon DEF TypeOK
  <2>7. TypeOK' /\ Others(t) /\ state'[t] = "locked"
    BY <1>1, <1>2, <2>5, <2>6, Zenon DEF TypeOK, Others, SameTx, State
  <2>8. ASSUME NEW p \in app.obj PROVE ObjectOK(p)' /\ Forward(p)
    <3>1. p \in Obj /\ Still(p)
      BY <1>1, <2>5, <2>6, SameStill, Zenon DEF Plain
    <3>2. Dates(p)' = Dates(p)
      BY <1>2, <2>7, DatesSame, Zenon DEF Decided
    <3>3. (Pending(t, p)' <=> Pending(t, p)) /\ ~ Locking(t, p)
      BY <1>2, <2>7, Zenon DEF Pending, Locking, Open, Ending
    <3>4. QED
      BY <1>1, <1>2, <2>7, <3>1, <3>2, <3>3, ObjectStill, StillForward, Zenon
  <2>9. Covered'
    BY <1>1, <1>2, <2>5, <2>6, <2>7, CoveredKept, Zenon DEF Running
  <2>10. Listed(t)'
    <3>1. Listed(t)
      BY Zenon DEF SerialInv
    <3>2. QED
      BY <1>2, <2>7, <3>1, Zenon DEF Listed, Open, Ending, Decided
  <2>11. Calling(t)'
    BY <1>2, <1>4, <1>7, <2>5, <2>6, Zenon DEF Calling
  <2>12. \A p \in Obj : wrote'[t][p] \in {"none", "update"} /\ (wrote'[t][p] # "none" => p \in app.obj)
    BY <1>1, <1>2, Zenon DEF Plain
  <2>13. QED
    BY <1>2, <2>5, <2>7, <2>8, <2>9, <2>10, <2>11, <2>12, StepShape, Zenon
<1>8. CASE call[t].ref = 0
  <2>1. /\ main[o].rts = xid[t] /\ main[o].bts <= xid[t] /\ wrote[t][o] = "none" /\ main[o].lock = 0
    BY <1>2, <1>3, <1>4, <1>8, Zenon DEF Calling
  <2>2. c = main[o]
    BY <1>5, <1>8, Zenon DEF CellAt
  <2>3. PICK m : m = [main[o] EXCEPT !.lock = xid[t]]
    BY Zenon
  <2>4. main' = [main EXCEPT ![o] = m] /\ vers' = vers /\ state' = [state EXCEPT ![t] = "locked"]
    BY <1>6, <1>8, <2>1, <2>2, <2>3, Zenon DEF Put
  <2>5. main[o].bts < xid[t] /\ main[o].rts <= xid[t]
    <3>1. main[o].bts \in Dates(o) \cup {0}
      BY <1>4, Zenon DEF Shape, RecordOf
    <3>2. main[o].bts \in Nat /\ xid[t] \in Nat
      BY <1>1, <1>4, CellNats, XidNats, Zenon DEF TypeOK
    <3>3. QED
      BY <1>4, <2>1, <3>1, <3>2, SMTT(30)
  <2>6. Shape(m, vers[o], Dates(o))
    BY <1>4, <2>1, <2>3, <2>5, LockShape, Zenon
  <2>7. m \in Cell /\ m.lock = xid[t] /\ m.rts = main[o].rts /\ m.bts = main[o].bts
    <3>1. main[o] \in Cell
      BY <1>1, <1>4, Zenon DEF TypeOK
    <3>2. QED
      BY <1>4, <2>3, <3>1, Zenon DEF Cell
  <2>8. main' \in [Obj -> Cell] /\ main'[o] = m /\ \A p \in Obj \ {o} : main'[p] = main[p]
    BY <1>1, <1>4, <2>4, <2>7, Zenon DEF TypeOK
  <2>9. TypeOK' /\ Others(t) /\ state'[t] = "locked"
    BY <1>1, <1>2, <2>4, <2>8, Zenon DEF TypeOK, Others, SameTx, State
  <2>10. \A p \in Obj : Dates(p)' = Dates(p)
    BY <1>2, <2>9, DatesSame, Zenon DEF Decided
  <2>11. \A u \in Tx, p \in Obj : Pending(u, p)' <=> Pending(u, p)
    <3>1. \A p \in Obj : Pending(t, p)' <=> Pending(t, p)
      BY <1>2, <2>9, Zenon DEF Pending, Open, Ending
    <3>2. \A u \in Tx \ {t}, p \in Obj : Pending(u, p)' <=> Pending(u, p)
      BY <2>9, Zenon DEF Others, SameTx, Pending
    <3>3. QED
      BY <3>1, <3>2, Zenon
  <2>12. ObjectOK(o)'
    <3>1. \A u \in Tx : ~ Pending(u, o)'
      <4>1. \A u \in Tx : Pending(u, o) => xid[u] = 0
        BY <1>4, <2>1, Zenon DEF ObjectOK
      <4>2. \A u \in Tx : ~ Pending(u, o)
        BY <1>1, <4>1, Zenon DEF OldestInv, Unique, Pending, Open, Ending
      <4>3. QED
        BY <1>4, <2>11, <4>2, Zenon
    <3>2. Shape(main[o], vers[o], Dates(o))'
      BY <1>4, <2>4, <2>6, <2>8, <2>10, Zenon
    <3>3. Locking(t, o)' /\ Clear(vers[o])' /\ (xid[t] = main[o].lock)'
      BY <1>2, <1>3, <1>4, <1>8, <2>1, <2>4, <2>7, <2>8, <2>9, Zenon DEF Locking, ObjectOK
    <3>4. main'[o].lock # 0
      BY <1>4, <2>7, <2>8, Zenon
    <3>5. QED
      BY <3>1, <3>2, <3>3, <3>4, Zenon DEF ObjectOK
  <2>13. Forward(o)
    <3>1. main[o].rts \in Nat /\ main[o].bts \in Nat
      BY <1>1, <1>4, CellNats, Zenon DEF TypeOK
    <3>2. QED
      BY <1>4, <2>1, <2>7, <2>8, <2>10, <3>1, NatOrder, Zenon DEF Forward
  <2>14. ASSUME NEW p \in app.obj PROVE ObjectOK(p)' /\ Forward(p)
    <3>1. CASE p = o
      BY <2>12, <2>13, <3>1, Zenon
    <3>2. CASE p # o
      <4>1. p \in Obj /\ Still(p)
        BY <1>1, <2>4, <2>8, <3>2, SameStill, Zenon DEF Plain
      <4>2. ~ Locking(t, p)
        BY <1>2, Zenon DEF Locking
      <4>3. QED
        BY <1>1, <1>2, <2>9, <2>10, <2>11, <4>1, <4>2, ObjectStill, StillForward, Zenon
    <3>3. QED
      BY <3>1, <3>2, Zenon
  <2>15. Covered'
    <3>1. \A p \in app.obj : main'[p].bts = main[p].bts
      BY <1>1, <2>7, <2>8, Zenon DEF Plain
    <3>2. QED
      BY <1>1, <1>2, <2>4, <2>9, <3>1, CoveredKept, Zenon DEF Running
  <2>16. Listed(t)'
    <3>1. Listed(t)
      BY Zenon DEF SerialInv
    <3>2. QED
      BY <1>2, <2>9, <3>1, Zenon DEF Listed, Open, Ending, Decided
  <2>17. Calling(t)'
    <3>1. /\ (call[t].op = "update")' /\ (call[t].obj \in app.obj)' /\ (call[t].ref = 0)'
          /\ (main[call[t].obj].rts = xid[t])' /\ (main[call[t].obj].bts <= xid[t])'
          /\ (wrote[t][call[t].obj] = "none")' /\ (main[call[t].obj].lock = xid[t])'
      BY <1>2, <1>3, <1>4, <1>8, <2>1, <2>7, <2>8, Zenon DEF Calling
    <3>2. QED
      BY <2>9, <3>1, Zenon DEF Calling
  <2>18. \A p \in Obj : wrote'[t][p] \in {"none", "update"} /\ (wrote'[t][p] # "none" => p \in app.obj)
    BY <1>1, <1>2, Zenon DEF Plain
  <2>19. \A p \in Obj \ app.obj : main'[p] = main[p]
    BY <1>4, <2>8, Zenon
  <2>20. QED
    BY <1>2, <2>9, <2>14, <2>15, <2>16, <2>17, <2>18, <2>19, StepShape, Zenon
<1>9. QED
  BY <1>7, <1>8, Zenon

\* The lists of t when o joins them.
LEMMA ListedMark ==
    ASSUME TypeOK, NEW t \in Tx, Listed(t), state[t] \in Open, state'[t] = "active",
           NEW o \in Obj, wrote[t][o] = "none", MarkDirty(t, o),
           wrote' = [wrote EXCEPT ![t][o] = "update"], todo' = todo
    PROVE  /\ Listed(t)' /\ nodes' \in [Tx -> Seq(Obj)] /\ rships' \in [Tx -> Seq(Obj)]
           /\ \A u \in Tx \ {t} : nodes'[u] = nodes[u] /\ rships'[u] = rships[u]
<1>1. /\ Once(rships[t]) /\ Once(nodes[t]) /\ nodes[t] \in Seq(Obj) /\ rships[t] \in Seq(Obj)
      /\ Elems(rships[t]) = {p \in Rship : wrote[t][p] # "none"}
      /\ Elems(nodes[t]) = {p \in Obj \ Rship : wrote[t][p] # "none"}
  BY Zenon DEF Listed, TypeOK
<1>2. o \notin Elems(rships[t]) /\ o \notin Elems(nodes[t])
  BY <1>1, Zenon
<1>3. \A p \in Obj : wrote'[t][p] = IF p = o THEN "update" ELSE wrote[t][p]
  BY Zenon DEF TypeOK
<1>4. nodes \in [Tx -> Seq(Obj)] /\ rships \in [Tx -> Seq(Obj)] /\ Rship \subseteq Obj
  BY MvtoAssumption, Zenon DEF TypeOK
<1>5. SUFFICES /\ Once(rships'[t]) /\ Once(nodes'[t])
               /\ Elems(rships'[t]) = {p \in Rship : wrote'[t][p] # "none"}
               /\ Elems(nodes'[t]) = {p \in Obj \ Rship : wrote'[t][p] # "none"}
               /\ nodes' \in [Tx -> Seq(Obj)] /\ rships' \in [Tx -> Seq(Obj)]
               /\ \A u \in Tx \ {t} : nodes'[u] = nodes[u] /\ rships'[u] = rships[u]
  BY Zenon DEF Listed, Open, Ending, Decided
<1>6. CASE o \in Rship
  <2>1. rships' = [rships EXCEPT ![t] = Append(rships[t], o)] /\ nodes' = nodes
    BY <1>6, Zenon DEF MarkDirty
  <2>2. /\ Append(rships[t], o) \in Seq(Obj) /\ Once(Append(rships[t], o))
        /\ Elems(Append(rships[t], o)) = Elems(rships[t]) \cup {o}
    BY <1>1, <1>2, AppendElems, SMTT(30)
  <2>3. /\ rships' \in [Tx -> Seq(Obj)] /\ rships'[t] = Append(rships[t], o)
        /\ \A u \in Tx \ {t} : rships'[u] = rships[u]
    BY <1>4, <2>1, <2>2, Zenon
  <2>4. Elems(rships[t]) \cup {o} = {p \in Rship : wrote'[t][p] # "none"}
    BY <1>1, <1>3, <1>4, <1>6, SMTT(30)
  <2>5. Elems(nodes[t]) = {p \in Obj \ Rship : wrote'[t][p] # "none"}
    BY <1>1, <1>3, <1>6, Zenon
  <2>6. QED
    BY <1>1, <1>4, <2>1, <2>2, <2>3, <2>4, <2>5, Zenon
<1>7. CASE o \notin Rship
  <2>1. nodes' = [nodes EXCEPT ![t] = Append(nodes[t], o)] /\ rships' = rships
    BY <1>7, Zenon DEF MarkDirty
  <2>2. /\ Append(nodes[t], o) \in Seq(Obj) /\ Once(Append(nodes[t], o))
        /\ Elems(Append(nodes[t], o)) = Elems(nodes[t]) \cup {o}
    BY <1>1, <1>2, AppendElems, SMTT(30)
  <2>3. /\ nodes' \in [Tx -> Seq(Obj)] /\ nodes'[t] = Append(nodes[t], o)
        /\ \A u \in Tx \ {t} : nodes'[u] = nodes[u]
    BY <1>4, <2>1, <2>2, Zenon
  <2>4. Elems(nodes[t]) \cup {o} = {p \in Obj \ Rship : wrote'[t][p] # "none"}
    BY <1>1, <1>3, <1>7, SMTT(30)
  <2>5. Elems(rships[t]) = {p \in Rship : wrote'[t][p] # "none"}
    BY <1>1, <1>3, <1>4, <1>7, Zenon
  <2>6. QED
    BY <1>1, <1>4, <2>1, <2>2, <2>3, <2>4, <2>5, Zenon
<1>8. QED
  BY <1>6, <1>7, Zenon

\* update_node: the own version is written again, or added together with the
\* one older transactions go on reading.
LEMMA SerialUpdate ==
    ASSUME SerialInv, OldestInv', NEW t \in Tx, update(t), app' = app
    PROVE  SerialInv'
<1>1. TypeOK /\ OldestInv /\ Plain /\ Covered /\ \A p \in app.obj : ObjectOK(p)
  BY Zenon DEF SerialInv
<1>2. /\ state[t] = "locked" /\ \A u \in Tx \ {t} : state[u] \notin Guarded
      /\ state' = [state EXCEPT ![t] = "active"] /\ call' = [call EXCEPT ![t] = NoCall]
      /\ UNCHANGED <<app, used, main, xid, todo, clock, active, oldest, garbage, reads>>
  BY <1>1, AtAlone, Zenon DEF update, shared
<1>3. PICK o : o = call[t].obj
  BY Zenon
<1>4. /\ Calling(t) /\ o \in app.obj /\ o \in Obj /\ ObjectOK(o) /\ xid[t] \in Xid
      /\ Shape(main[o], vers[o], Dates(o)) /\ Dates(o) \subseteq Xid
      /\ xid[t] \notin Dates(o) /\ xid[t] # 0
      /\ call[t].ref # 0 => main[o].lock = xid[t]
  BY <1>2, <1>3, InCall, Zenon
<1>5. PICK own : own = {v \in vers[o] : v.lock = xid[t]}
  BY Zenon
<1>6. /\ state' \in [Tx -> State] /\ state'[t] = "active"
      /\ call' \in [Tx -> [op : Operation, obj : Obj \cup {NoObj}, ref : Nat]]
      /\ \A u \in Tx \ {t} : state'[u] = state[u] /\ call'[u] = call[u]
  BY <1>1, <1>2, Zenon DEF TypeOK, State, NoCall, Operation
<1>7. /\ wrote' = [wrote EXCEPT ![t][o] = "update"] /\ wrote' \in [Tx -> [Obj -> Kind]]
      /\ \A u \in Tx, p \in Obj : wrote'[u][p] = IF u = t /\ p = o THEN "update" ELSE wrote[u][p]
      /\ \A u \in Tx \ {t} : wrote'[u] = wrote[u]
  <2>1. wrote[t][o] # "insert"
    BY <1>1, <1>4, Zenon DEF Plain
  <2>2. wrote' = [wrote EXCEPT ![t][o] = "update"]
    BY <1>3, <2>1, Zenon DEF update, Wrote
  <2>3. QED
    BY <1>1, <1>4, <2>2, Zenon DEF TypeOK, Kind
<1>8. \A p \in Obj : wrote'[t][p] \in {"none", "update"} /\ (wrote'[t][p] # "none" => p \in app.obj)
  BY <1>1, <1>4, <1>7, SMTT(30) DEF Plain
<1>9. Listed(t)
  BY Zenon DEF SerialInv
<1>10. CASE call[t].ref # 0
  <2>1. PICK n \in vers[o] : OwnOf(n, main[o], vers[o]) /\ n.pos = call[t].ref
    BY <1>3, <1>4, <1>10, Zenon DEF Calling
  <2>2. own = {n} /\ FrontOf({n}) = n
    <3>1. main[o].lock # 0 /\ main[o].lock = xid[t]
      BY <1>4, <1>10, Zenon
    <3>2. {v \in vers[o] : v.lock = main[o].lock} = {n} /\ FrontOf({n}) = n
      BY <1>4, <2>1, <3>1, OwnFront, Zenon
    <3>3. QED
      BY <1>5, <3>1, <3>2, Zenon
  <2>3. n \in Cell /\ n.val = xid[t] /\ wrote[t][o] = "update"
    <3>1. wrote[t][o] # "none"
      BY <1>3, <1>4, <1>10, Zenon DEF Calling
    <3>2. QED
      BY <1>1, <1>4, <1>10, <2>1, <3>1, Zenon DEF OwnOf, Shape, Positioned, Plain
  <2>4. [n EXCEPT !.val = xid[t]] = n
    BY <2>3, Zenon DEF Cell
  <2>5. (vers[o] \ {n}) \cup {n} = vers[o]
    BY Zenon
  <2>6. /\ vers' = [vers EXCEPT ![o] = (@ \ {FrontOf(own)}) \cup {[FrontOf(own) EXCEPT !.val = xid[t]]}]
        /\ UNCHANGED <<nodes, rships>>
    BY <1>3, <1>5, <2>2, Zenon DEF update
  <2>7. vers' = [vers EXCEPT ![o] = vers[o]]
    BY <2>2, <2>4, <2>5, <2>6, Zenon
  <2>8. vers' = vers
    BY <1>1, <2>7, Zenon DEF TypeOK
  <2>9. \A u \in Tx, p \in Obj : wrote'[u][p] = wrote[u][p]
    BY <1>7, <2>3, Zenon
  <2>10. TypeOK' /\ Others(t)
    BY <1>1, <1>2, <1>6, <1>7, <2>6, <2>8, Zenon DEF TypeOK, Others, SameTx
  <2>11. ASSUME NEW p \in app.obj PROVE ObjectOK(p)' /\ Forward(p)
    <3>1. p \in Obj /\ Still(p)
      BY <1>1, <1>2, <2>8, SameStill, Zenon DEF Plain
    <3>2. Dates(p)' = Dates(p)
      BY <1>2, <1>6, <2>10, DatesSame, Zenon DEF Decided
    <3>3. (Pending(t, p)' <=> Pending(t, p)) /\ ~ Locking(t, p)
      BY <1>2, <1>3, <1>6, <1>10, <2>9, <3>1, Zenon DEF Pending, Locking, Open, Ending
    <3>4. QED
      BY <1>1, <1>2, <2>10, <3>1, <3>2, <3>3, ObjectStill, StillForward, Zenon
  <2>12. Covered'
    BY <1>1, <1>2, <1>6, <2>8, <2>10, CoveredKept, Zenon DEF Running
  <2>13. Listed(t)'
    <3>1. Rship \subseteq Obj
      BY MvtoAssumption, Zenon
    <3>2. QED
      BY <1>2, <1>6, <1>9, <2>6, <2>9, <3>1, SMTT(30) DEF Listed, Open, Ending, Decided
  <2>14. QED
    BY <1>2, <1>6, <1>8, <2>10, <2>11, <2>12, <2>13, StepShape, Zenon
<1>11. CASE call[t].ref = 0
  <2>1. /\ main[o].rts = xid[t] /\ main[o].lock = xid[t] /\ wrote[t][o] = "none"
    BY <1>2, <1>3, <1>4, <1>11, Zenon DEF Calling
  <2>2. Clear(vers[o])
    <3>1. PICK u \in Tx : /\ xid[u] = main[o].lock
                          /\ \/ Pending(u, o) /\ Owned(main[o], vers[o])
                             \/ Locking(u, o) /\ Clear(vers[o])
      BY <1>4, <2>1, Zenon DEF ObjectOK
    <3>2. u = t
      BY <1>1, <1>4, <2>1, <3>1, Zenon DEF OldestInv, Unique
    <3>3. QED
      BY <1>2, <2>1, <3>1, <3>2, Zenon DEF Pending, Ending
  <2>3. own = {} /\ CellAt(o, call[t].ref) = main[o]
    BY <1>4, <1>5, <1>11, <2>2, SMTT(30) DEF Clear, CellAt
  <2>4. PICK old : old = OldVersion(vers[o], main[o], main[o].lock, main[o].val)
    BY Zenon
  <2>5. PICK new : new = NewVersion(vers[o] \cup {old}, main[o], main[o].lock, main[o].lock, INF)
    BY Zenon
  <2>6. vers' = [vers EXCEPT ![o] = @ \cup {old, new}] /\ MarkDirty(t, o)
    BY <1>3, <1>5, <2>1, <2>3, <2>4, <2>5, Zenon DEF update
  <2>7. /\ Shape(main[o], vers[o] \cup {old, new}, Dates(o))
        /\ OwnOf(new, main[o], vers[o] \cup {old, new})
    BY <1>4, <2>1, <2>2, <2>4, <2>5, UpdateShape, Zenon
  <2>8. /\ vers' \in [Obj -> SUBSET Cell] /\ vers'[o] = vers[o] \cup {old, new}
        /\ \A p \in Obj \ {o} : vers'[p] = vers[p]
    <3>1. vers[o] \cup {old, new} \subseteq Cell
      BY <2>7, Zenon DEF Shape, Positioned
    <3>2. QED
      BY <1>1, <1>4, <2>6, <3>1, Zenon DEF TypeOK
  <2>9. /\ Listed(t)' /\ nodes' \in [Tx -> Seq(Obj)] /\ rships' \in [Tx -> Seq(Obj)]
        /\ \A u \in Tx \ {t} : nodes'[u] = nodes[u] /\ rships'[u] = rships[u]
    BY <1>1, <1>2, <1>4, <1>6, <1>7, <1>9, <2>1, <2>6, ListedMark, Zenon DEF Open
  <2>10. TypeOK'
    BY <1>1, <1>2, <1>6, <1>7, <2>8, <2>9, Zenon DEF TypeOK
  <2>11. Others(t)
    BY <1>2, <1>6, <1>7, <2>9, Zenon DEF Others, SameTx
  <2>12. \A p \in Obj : Dates(p)' = Dates(p)
    BY <1>2, <1>6, <2>11, DatesSame, Zenon DEF Decided
  <2>13. ObjectOK(o)'
    <3>1. Shape(main[o], vers[o], Dates(o))'
      BY <1>2, <1>4, <2>7, <2>8, <2>12, Zenon
    <3>2. Owned(main[o], vers[o])'
      BY <1>2, <2>7, <2>8, Zenon DEF Owned
    <3>3. Pending(t, o)' /\ (xid[t] = main[o].lock)'
      BY <1>2, <1>4, <1>6, <1>7, <2>1, Zenon DEF Pending, Open
    <3>4. \A u \in Tx : Pending(u, o)' => main'[o].lock = xid'[u]
      <4>1. \A u \in Tx \ {t} : Pending(u, o)' <=> Pending(u, o)
        BY <2>11, Zenon DEF Others, SameTx, Pending
      <4>2. \A u \in Tx : Pending(u, o) => main[o].lock = xid[u]
        BY <1>4, Zenon DEF ObjectOK
      <4>3. QED
        BY <1>2, <2>1, <4>1, <4>2, Zenon
    <3>5. main'[o].lock # 0
      BY <1>2, <1>4, <2>1, Zenon
    <3>6. QED
      BY <3>1, <3>2, <3>3, <3>4, <3>5, Zenon DEF ObjectOK
  <2>14. ASSUME NEW p \in app.obj PROVE ObjectOK(p)' /\ Forward(p)
    <3>1. CASE p = o
      <4>1. Forward(o)
        <5>1. main[o].rts \in Nat /\ main[o].bts \in Nat
          BY <1>1, <1>4, CellNats, Zenon DEF TypeOK
        <5>2. QED
          BY <1>2, <1>4, <2>12, <5>1, NatOrder, Zenon DEF Forward
      <4>2. QED
        BY <2>13, <3>1, <4>1, Zenon
    <3>2. CASE p # o
      <4>1. p \in Obj /\ Still(p)
        BY <1>1, <1>2, <2>8, <3>2, SameStill, Zenon DEF Plain
      <4>2. (Pending(t, p)' <=> Pending(t, p)) /\ ~ Locking(t, p)
        BY <1>2, <1>3, <1>6, <1>7, <3>2, <4>1, Zenon DEF Pending, Locking, Open, Ending
      <4>3. QED
        BY <1>1, <1>2, <2>11, <2>12, <4>1, <4>2, ObjectStill, StillForward, Zenon
    <3>3. QED
      BY <3>1, <3>2, Zenon
  <2>15. Covered'
    <3>1. \A p \in app.obj : vers[p] \subseteq vers'[p]
      BY <1>1, <2>8, Zenon DEF Plain
    <3>2. QED
      BY <1>1, <1>2, <1>6, <2>11, <3>1, CoveredKept, Zenon DEF Running
  <2>16. QED
    BY <1>2, <1>6, <1>8, <2>9, <2>10, <2>11, <2>14, <2>15, StepShape, Zenon
<1>12. QED
  BY <1>10, <1>11, Zenon

\* commit_transaction: the changes of t count from now on, and its locks keep
\* every reader of a later timestamp away from the objects it still has to
\* write to the table.
LEMMA SerialCommit ==
    ASSUME SerialInv, OldestInv', NEW t \in Tx, commit_transaction(t), app' = app
    PROVE  SerialInv'
<1>1. TypeOK /\ OldestInv /\ Plain /\ Covered /\ \A p \in app.obj : ObjectOK(p)
  BY Zenon DEF SerialInv
<1>2. /\ state[t] = "active" /\ \A u \in Tx \ {t} : state[u] \notin Guarded
      /\ state' = [state EXCEPT ![t] = "committing"]
      /\ todo' = [todo EXCEPT ![t] = rships[t] \o nodes[t]]
      /\ UNCHANGED <<app, used, main, vers, xid, call, nodes, rships, clock, garbage, wrote, reads>>
  BY <1>1, AtAlone, Zenon DEF commit_transaction, Leave, table, history
<1>3. Listed(t)
  BY Zenon DEF SerialInv
<1>4. /\ nodes[t] \in Seq(Obj) /\ rships[t] \in Seq(Obj) /\ Once(nodes[t]) /\ Once(rships[t])
      /\ Elems(rships[t]) = {p \in Rship : wrote[t][p] # "none"}
      /\ Elems(nodes[t]) = {p \in Obj \ Rship : wrote[t][p] # "none"}
  BY <1>1, <1>2, <1>3, Zenon DEF TypeOK, Listed, Open
<1>5. /\ rships[t] \o nodes[t] \in Seq(Obj) /\ Once(rships[t] \o nodes[t])
      /\ Elems(rships[t] \o nodes[t]) = Elems(rships[t]) \cup Elems(nodes[t])
  <2>1. Elems(rships[t]) \cap Elems(nodes[t]) = {}
    BY <1>4, Zenon
  <2>2. QED
    BY <1>4, <2>1, ConcatElems, SMTT(30)
<1>6. /\ todo' \in [Tx -> Seq(Obj)] /\ todo'[t] = rships[t] \o nodes[t]
      /\ state' \in [Tx -> State] /\ state'[t] = "committing"
      /\ \A u \in Tx \ {t} : todo'[u] = todo[u] /\ state'[u] = state[u]
  BY <1>1, <1>2, <1>5, Zenon DEF TypeOK, State
<1>7. Elems(todo'[t]) = {p \in Obj : wrote[t][p] # "none"} /\ Once(todo'[t])
  BY <1>4, <1>5, <1>6, MvtoAssumption, Zenon
<1>8. TypeOK'
  <2>1. oldest' \in Nat /\ oldest' <= clock' /\ active' \subseteq 0 .. clock'
    BY Zenon DEF OldestInv, Clocked
  <2>2. oldest' \in Xid /\ active' \subseteq Xid
    BY <1>1, <1>2, <2>1, MvtoAssumption, SMTT(30) DEF TypeOK, Xid
  <2>3. QED
    BY <1>1, <1>2, <1>6, <2>2, Zenon DEF TypeOK
<1>9. Others(t)
  BY <1>2, <1>6, Zenon DEF Others, SameTx
<1>10. \A p \in Obj : (Pending(t, p)' <=> Pending(t, p)) /\ ~ Locking(t, p) /\ (Pending(t, p) <=> wrote[t][p] # "none")
  BY <1>2, <1>6, <1>7, Zenon DEF Pending, Locking, Open, Ending
<1>11. ASSUME NEW p \in app.obj PROVE ObjectOK(p)' /\ Forward(p)
  <2>1. p \in Obj /\ Still(p) /\ ObjectOK(p)
    BY <1>1, <1>2, SameStill, Zenon DEF Plain
  <2>2. CASE wrote[t][p] = "none"
    <3>1. Dates(p)' = Dates(p)
      BY <1>2, <1>6, <1>9, <2>2, DatesSame, Zenon DEF Decided
    <3>2. QED
      BY <1>1, <1>2, <1>9, <1>10, <2>1, <3>1, ObjectStill, StillForward, Zenon
  <2>3. CASE wrote[t][p] # "none"
    <3>1. main[p].lock = xid[t]
      BY <1>10, <2>1, <2>3, Zenon DEF ObjectOK
    <3>2. xid[t] # 0
      BY <1>1, <1>2, NotDated, Zenon DEF Decided
    <3>3. Dates(p)' = Dates(p) \cup {xid[t]}
      <4>1. \A u \in Tx : (state'[u] \in Decided /\ wrote'[u][p] # "none")
                              <=> (state[u] \in Decided /\ wrote[u][p] # "none") \/ u = t
        BY <1>2, <1>6, <2>3, Zenon DEF Decided
      <4>2. QED
        BY <1>2, <4>1, Zenon DEF Dates
    <3>4. Shape(main[p], vers[p], Dates(p) \cup {main[p].lock})
      BY <2>1, <3>1, <3>2, DecideShape, Zenon DEF ObjectOK
    <3>5. Shape(main[p], vers[p], Dates(p))'
      BY <1>2, <3>1, <3>3, <3>4, Zenon
    <3>6. PICK u \in Tx : /\ xid[u] = main[p].lock
                          /\ \/ Pending(u, p) /\ Owned(main[p], vers[p])
                             \/ Locking(u, p) /\ Clear(vers[p])
      BY <2>1, <3>1, <3>2, Zenon DEF ObjectOK
    <3>7. u = t
      BY <1>1, <3>1, <3>2, <3>6, Zenon DEF OldestInv, Unique
    <3>8. Pending(t, p)' /\ Owned(main[p], vers[p])' /\ (xid[t] = main[p].lock)'
      BY <1>2, <1>10, <2>1, <3>1, <3>6, <3>7, Zenon
    <3>9. \A w \in Tx : Pending(w, p)' => main'[p].lock = xid'[w]
      <4>1. \A w \in Tx \ {t} : Pending(w, p)' <=> Pending(w, p)
        BY <1>9, Zenon DEF Others, SameTx, Pending
      <4>2. QED
        BY <1>2, <2>1, <3>1, <4>1, Zenon DEF ObjectOK
    <3>10. ObjectOK(p)'
      BY <1>2, <3>1, <3>2, <3>5, <3>8, <3>9, Zenon DEF ObjectOK
    <3>11. Forward(p)
      <4>1. main[p].rts \in Nat /\ main[p].bts \in Nat
        BY <1>1, <2>1, CellNats, Zenon DEF TypeOK
      <4>2. QED
        BY <1>2, <3>1, <3>2, <3>3, <4>1, NatOrder, Zenon DEF Forward
    <3>12. QED
      BY <3>10, <3>11, Zenon
  <2>4. QED
    BY <2>2, <2>3, Zenon
<1>12. Covered'
  BY <1>1, <1>2, <1>6, <1>9, CoveredKept, Zenon DEF Running
<1>13. Listed(t)'
  <2>1. \A p \in Obj : wrote'[t][p] # "none" => Pending(t, p)'
    BY <1>2, <1>10, Zenon
  <2>2. QED
    BY <1>2, <1>6, <1>7, <2>1, Zenon DEF Listed, Open, Ending, Decided
<1>14. \A p \in Obj : wrote'[t][p] \in {"none", "update"} /\ (wrote'[t][p] # "none" => p \in app.obj)
  BY <1>1, <1>2, Zenon DEF Plain
<1>15. QED
  BY <1>2, <1>6, <1>8, <1>9, <1>11, <1>12, <1>13, <1>14, StepShape, Zenon

\* abort_transaction leaves active_tx_.
LEMMA SerialAbort ==
    ASSUME SerialInv, OldestInv', NEW t \in Tx, abort_transaction(t), app' = app
    PROVE  SerialInv'
<1>1. TypeOK /\ OldestInv /\ Plain /\ Covered /\ \A p \in app.obj : ObjectOK(p)
  BY Zenon DEF SerialInv
<1>2. /\ state[t] \in {"active", "failed"} /\ \A u \in Tx \ {t} : state[u] \notin Guarded
      /\ state' = [state EXCEPT ![t] = "aborting"]
      /\ todo' = [todo EXCEPT ![t] = nodes[t] \o rships[t]]
      /\ UNCHANGED <<app, used, main, vers, xid, call, nodes, rships, clock, garbage, wrote, reads>>
  BY <1>1, AtAlone, Zenon DEF abort_transaction, Leave, table, history
<1>3. Listed(t)
  BY Zenon DEF SerialInv
<1>4. /\ nodes[t] \in Seq(Obj) /\ rships[t] \in Seq(Obj) /\ Once(nodes[t]) /\ Once(rships[t])
      /\ Elems(rships[t]) = {p \in Rship : wrote[t][p] # "none"}
      /\ Elems(nodes[t]) = {p \in Obj \ Rship : wrote[t][p] # "none"}
  BY <1>1, <1>2, <1>3, Zenon DEF TypeOK, Listed, Open
<1>5. /\ nodes[t] \o rships[t] \in Seq(Obj) /\ Once(nodes[t] \o rships[t])
      /\ Elems(nodes[t] \o rships[t]) = Elems(nodes[t]) \cup Elems(rships[t])
  <2>1. Elems(nodes[t]) \cap Elems(rships[t]) = {}
    BY <1>4, Zenon
  <2>2. QED
    BY <1>4, <2>1, ConcatElems, SMTT(30)
<1>6. /\ todo' \in [Tx -> Seq(Obj)] /\ todo'[t] = nodes[t] \o rships[t]
      /\ state' \in [Tx -> State] /\ state'[t] = "aborting"
      /\ \A u \in Tx \ {t} : todo'[u] = todo[u] /\ state'[u] = state[u]
  BY <1>1, <1>2, <1>5, Zenon DEF TypeOK, State
<1>7. Elems(todo'[t]) = {p \in Obj : wrote[t][p] # "none"} /\ Once(todo'[t])
  BY <1>4, <1>5, <1>6, MvtoAssumption, Zenon
<1>8. TypeOK'
  <2>1. oldest' \in Nat /\ oldest' <= clock' /\ active' \subseteq 0 .. clock'
    BY Zenon DEF OldestInv, Clocked
  <2>2. oldest' \in Xid /\ active' \subseteq Xid
    BY <1>1, <1>2, <2>1, MvtoAssumption, SMTT(30) DEF TypeOK, Xid
  <2>3. QED
    BY <1>1, <1>2, <1>6, <2>2, Zenon DEF TypeOK
<1>9. Others(t)
  BY <1>2, <1>6, Zenon DEF Others, SameTx
<1>10. \A p \in Obj : (Pending(t, p)' <=> Pending(t, p)) /\ ~ Locking(t, p)
  BY <1>2, <1>6, <1>7, Zenon DEF Pending, Locking, Open, Ending
<1>11. ASSUME NEW p \in app.obj PROVE ObjectOK(p)' /\ Forward(p)
  <2>1. p \in Obj /\ Still(p) /\ ObjectOK(p)
    BY <1>1, <1>2, SameStill, Zenon DEF Plain
  <2>2. Dates(p)' = Dates(p)
    BY <1>2, <1>6, <1>9, DatesSame, Zenon DEF Decided
  <2>3. QED
    BY <1>1, <1>2, <1>9, <1>10, <2>1, <2>2, ObjectStill, StillForward, Zenon
<1>12. Covered'
  BY <1>1, <1>2, <1>6, <1>9, CoveredKept, Zenon DEF Running
<1>13. Listed(t)'
  BY <1>2, <1>6, <1>7, Zenon DEF Listed, Open, Ending, Decided
<1>14. \A p \in Obj : wrote'[t][p] \in {"none", "update"} /\ (wrote'[t][p] # "none" => p \in app.obj)
  BY <1>1, <1>2, Zenon DEF Plain
<1>15. QED
  BY <1>2, <1>6, <1>8, <1>9, <1>11, <1>12, <1>13, <1>14, StepShape, Zenon

\* The object commit or abort processes next is there, t has its lock, and its
\* version is at the front of the list.
LEMMA NextDirty ==
    ASSUME SerialInv, NEW t \in Tx, state[t] \in Ending, todo[t] # <<>>, NEW o, o = Head(todo[t])
    PROVE  /\ o \in app.obj /\ o \in Obj /\ o \in used /\ ObjectOK(o) /\ Pending(t, o)
           /\ main[o].lock = xid[t] /\ xid[t] # 0 /\ wrote[t][o] # "none"
           /\ \E n \in vers[o] : OwnOf(n, main[o], vers[o])
           /\ Tail(todo[t]) \in Seq(Obj) /\ Once(Tail(todo[t]))
           /\ Elems(Tail(todo[t])) = Elems(todo[t]) \ {o}
<1>1. TypeOK /\ OldestInv /\ Plain /\ Listed(t)
  BY Zenon DEF SerialInv
<1>2. todo[t] \in Seq(Obj) /\ Once(todo[t])
  BY <1>1, Zenon DEF TypeOK, Listed
<1>3. /\ o \in Elems(todo[t]) /\ o \in Obj /\ Tail(todo[t]) \in Seq(Obj)
      /\ Once(Tail(todo[t])) /\ Elems(Tail(todo[t])) = Elems(todo[t]) \ {o}
  BY <1>2, TailElems, Zenon
<1>4. wrote[t][o] # "none" /\ Pending(t, o)
  BY <1>1, <1>3, Zenon DEF Listed, Pending
<1>5. o \in app.obj /\ o \in used
  BY <1>1, <1>3, <1>4, Zenon DEF Plain
<1>6. ObjectOK(o)
  BY <1>5, Zenon DEF SerialInv
<1>7. main[o].lock = xid[t]
  BY <1>4, <1>6, Zenon DEF ObjectOK
<1>8. xid[t] # 0
  BY <1>1, Zenon DEF OldestInv, Unique, Ending
<1>9. Owned(main[o], vers[o])
  <2>1. PICK u \in Tx : /\ xid[u] = main[o].lock
                        /\ \/ Pending(u, o) /\ Owned(main[o], vers[o])
                           \/ Locking(u, o) /\ Clear(vers[o])
    BY <1>6, <1>7, <1>8, Zenon DEF ObjectOK
  <2>2. u = t
    BY <1>1, <1>7, <1>8, <2>1, Zenon DEF OldestInv, Unique
  <2>3. ~ Locking(u, o)
    BY <2>2, Zenon DEF Locking, Ending
  <2>4. QED
    BY <2>1, <2>3, Zenon
<1>10. QED
  BY <1>3, <1>4, <1>5, <1>6, <1>7, <1>8, <1>9, Zenon DEF Owned

\* Nobody has work left on an object once t has released it.
LEMMA Released ==
    ASSUME SerialInv, NEW t \in Tx, NEW o \in Obj, ObjectOK(o), main[o].lock = xid[t], xid[t] # 0,
           Others(t), ~ Pending(t, o)'
    PROVE  \A u \in Tx : ~ Pending(u, o)'
<1>1. SUFFICES ASSUME NEW u \in Tx, u # t PROVE ~ Pending(u, o)'
  BY Zenon
<1>2. Pending(u, o)' <=> Pending(u, o)
  BY <1>1, Zenon DEF Others, SameTx, Pending
<1>3. xid[u] # xid[t]
  BY <1>1, Zenon DEF SerialInv, OldestInv, Unique
<1>4. QED
  BY <1>2, <1>3, Zenon DEF ObjectOK

\* commit_dirty_node puts the version of t into the table. gc leaves what
\* running transactions read.
LEMMA SerialCommitDirty ==
    ASSUME SerialInv, OldestInv', NEW t \in Tx, commit_dirty(t), app' = app
    PROVE  SerialInv'
<1>1. TypeOK /\ OldestInv /\ Plain /\ Covered /\ \A p \in app.obj : ObjectOK(p)
  BY Zenon DEF SerialInv
<1>2. /\ state[t] = "committing" /\ \A u \in Tx \ {t} : state[u] \notin Guarded
      /\ UNCHANGED <<app, used, xid, call, nodes, rships, clock, active, oldest, wrote, reads>>
  BY <1>1, AtAlone, Zenon DEF commit_dirty, history
<1>3. PICK o : o = Head(todo[t])
  BY Zenon
<1>4. todo[t] # <<>>
  BY Zenon DEF commit_dirty
<1>5. /\ o \in app.obj /\ o \in Obj /\ o \in used /\ ObjectOK(o) /\ Pending(t, o)
      /\ main[o].lock = xid[t] /\ xid[t] # 0 /\ wrote[t][o] # "none"
      /\ \E n \in vers[o] : OwnOf(n, main[o], vers[o])
      /\ Tail(todo[t]) \in Seq(Obj) /\ Once(Tail(todo[t]))
      /\ Elems(Tail(todo[t])) = Elems(todo[t]) \ {o}
  BY <1>2, <1>3, <1>4, NextDirty, Zenon DEF Ending
<1>6. Shape(main[o], vers[o], Dates(o)) /\ main[o].cts = INF /\ Dates(o) \subseteq Xid
  BY <1>1, <1>5, DatesType, Zenon DEF ObjectOK, Shape, RecordOf
<1>7. PICK n \in vers[o] : OwnOf(n, main[o], vers[o])
  BY <1>5, Zenon
<1>8. FrontOf(vers[o]) = n /\ n.upd /\ has_dirty_versions(o)
  <2>1. FrontOf(vers[o]) = n
    BY <1>5, <1>6, <1>7, OwnFront, Zenon
  <2>2. n.upd
    BY <1>7, Zenon DEF OwnOf
  <2>3. QED
    BY <2>1, <2>2, Zenon DEF has_dirty_versions
<1>9. main[o].lock \in Dates(o)
  BY <1>2, <1>5, Zenon DEF Dates, Decided
<1>10. PICK m : m = Committed(main[o], n, xid[t])
  BY Zenon
<1>11. PICK W : W = gc(PopUnlock(vers[o]), oldest)
  BY Zenon
<1>12. /\ ~ IsDeletion(n) /\ W = {v \in vers[o] \ {n} : v.cts > oldest}
       /\ Shape(m, W, Dates(o)) /\ Clear(W) /\ m.bts = xid[t] /\ m.lock = 0 /\ m.rts = main[o].rts
  BY <1>5, <1>6, <1>7, <1>9, <1>10, <1>11, CommitShape, SMTT(30)
<1>13. /\ main' = [main EXCEPT ![o] = m] /\ vers' = [vers EXCEPT ![o] = W]
       /\ garbage' = garbage /\ todo' = [todo EXCEPT ![t] = Tail(@)] /\ state' = state
  BY <1>3, <1>5, <1>6, <1>8, <1>10, <1>11, <1>12, Zenon DEF commit_dirty
<1>14. m \in Cell /\ W \subseteq Cell
  BY <1>12, Zenon DEF Shape, RecordOf, Positioned
<1>15. /\ main' \in [Obj -> Cell] /\ main'[o] = m /\ \A p \in Obj \ {o} : main'[p] = main[p]
       /\ vers' \in [Obj -> SUBSET Cell] /\ vers'[o] = W /\ \A p \in Obj \ {o} : vers'[p] = vers[p]
       /\ todo' \in [Tx -> Seq(Obj)] /\ todo'[t] = Tail(todo[t]) /\ \A u \in Tx \ {t} : todo'[u] = todo[u]
  BY <1>1, <1>5, <1>13, <1>14, Zenon DEF TypeOK
<1>16. TypeOK'
  BY <1>1, <1>2, <1>13, <1>15, Zenon DEF TypeOK
<1>17. Others(t)
  BY <1>2, <1>13, <1>15, Zenon DEF Others, SameTx
<1>18. \A p \in Obj : Dates(p)' = Dates(p)
  BY <1>2, <1>13, <1>17, DatesSame, Zenon
<1>19. /\ ~ Pending(t, o)' /\ \A p \in Obj \ {o} : Pending(t, p)' <=> Pending(t, p)
       /\ \A p \in Obj : ~ Locking(t, p)
  BY <1>2, <1>5, <1>13, <1>15, Zenon DEF Pending, Locking, Open, Ending
<1>20. ObjectOK(o)'
  <2>1. \A u \in Tx : ~ Pending(u, o)'
    BY <1>5, <1>17, <1>19, Released, Zenon
  <2>2. Shape(main[o], vers[o], Dates(o))' /\ Clear(vers[o])' /\ (main[o].lock = 0)'
    BY <1>5, <1>12, <1>15, <1>18, Zenon
  <2>3. QED
    BY <2>1, <2>2, Zenon DEF ObjectOK
<1>21. main[o].bts < xid[t] /\ main[o].bts \in Nat /\ main[o].rts \in Nat /\ xid[t] \in Nat /\ oldest \in Nat
  <2>1. main[o].bts < xid[t]
    BY <1>5, <1>6, Zenon DEF Shape, RecordOf
  <2>2. main[o] \in Cell /\ xid[t] \in Xid /\ oldest \in Xid
    BY <1>1, <1>5, Zenon DEF TypeOK
  <2>3. QED
    BY <2>1, <2>2, CellNats, XidNats, Zenon
<1>22. Forward(o)
  BY <1>5, <1>12, <1>15, <1>18, <1>21, NatOrder, Zenon DEF Forward
<1>23. ASSUME NEW p \in app.obj PROVE ObjectOK(p)' /\ Forward(p)
  <2>1. CASE p = o
    BY <1>20, <1>22, <2>1, Zenon
  <2>2. CASE p # o
    <3>1. p \in Obj /\ Still(p)
      BY <1>1, <1>15, <2>2, SameStill, Zenon DEF Plain
    <3>2. QED
      BY <1>1, <1>2, <1>17, <1>18, <1>19, <2>2, <3>1, ObjectStill, StillForward, Zenon
  <2>3. QED
    BY <2>1, <2>2, Zenon
<1>24. Covered'
  <2>1. ASSUME NEW u \in Tx, NEW p \in app.obj, state'[u] \in Running \cup {"begun"}
        PROVE  CoveredFor(p, xid[u])'
    <3>1. state[u] \in Running \cup {"begun"} /\ xid'[u] = xid[u]
      BY <1>2, <1>13, <2>1, Zenon
    <3>2. CoveredFor(p, xid[u]) /\ oldest <= xid[u] /\ xid[u] \in Nat
      BY <1>1, <3>1, XidNats, Zenon DEF Covered, OldestInv, Oldest, TypeOK
    <3>3. CASE p # o
      <4>1. main'[p] = main[p] /\ vers'[p] = vers[p]
        BY <1>1, <1>15, <3>3, Zenon DEF Plain
      <4>2. QED
        BY <3>1, <3>2, <4>1, Zenon DEF CoveredFor
    <3>4. CASE p = o /\ xid[t] <= xid[u]
      BY <1>12, <1>15, <3>1, <3>4, Zenon DEF CoveredFor
    <3>5. CASE p = o /\ xid[u] < xid[t]
      <4>1. PICK v \in vers[o] : v.lock = 0 /\ v.bts <= xid[u] /\ xid[u] < v.cts
        <5>1. CASE main[o].bts <= xid[u]
          <6>1. PICK k \in vers[o] : k.lock = 0 /\ k.bts = main[o].bts /\ k.cts = xid[t]
            BY <1>5, <1>7, Zenon DEF OwnOf
          <6>2. QED
            BY <3>5, <5>1, <6>1, Zenon
        <5>2. CASE ~ (main[o].bts <= xid[u])
          BY <3>2, <3>5, <5>2, Zenon DEF CoveredFor
        <5>3. QED
          BY <5>1, <5>2, Zenon
      <4>2. v.cts \in Nat
        BY <1>1, <1>5, CellNats, Zenon DEF TypeOK
      <4>3. v.cts > oldest
        BY <1>21, <3>2, <4>1, <4>2, NatOrder, Zenon
      <4>4. v # n
        BY <1>5, <1>7, <4>1, Zenon DEF OwnOf
      <4>5. v \in vers'[o]
        BY <1>12, <1>15, <4>3, <4>4, Zenon
      <4>6. QED
        BY <3>1, <3>5, <4>1, <4>5, Zenon DEF CoveredFor
    <3>6. QED
      BY <1>21, <3>2, <3>3, <3>4, <3>5, NatOrder, Zenon
  <2>2. QED
    BY <1>2, <2>1, Zenon DEF Covered
<1>25. Listed(t)'
  <2>1. Listed(t)
    BY Zenon DEF SerialInv
  <2>2. Once(todo'[t]) /\ \A p \in Elems(todo'[t]) : wrote'[t][p] # "none"
    BY <1>2, <1>5, <1>15, <2>1, Zenon DEF Listed, Ending
  <2>3. ASSUME NEW p \in Obj, wrote'[t][p] # "none", ~ Pending(t, p)' PROVE xid'[t] <= main'[p].bts
    <3>1. CASE p = o
      BY <1>2, <1>12, <1>15, <1>21, <3>1, NatOrder, Zenon
    <3>2. CASE p # o
      <4>1. xid[t] <= main[p].bts
        BY <1>2, <1>19, <2>1, <2>3, <3>2, Zenon DEF Listed, Decided
      <4>2. QED
        BY <1>2, <1>15, <3>2, <4>1, Zenon
    <3>3. QED
      BY <3>1, <3>2, Zenon
  <2>4. state'[t] = "committing"
    BY <1>2, <1>13, Zenon
  <2>5. QED
    BY <2>2, <2>3, <2>4, Zenon DEF Listed, Open, Ending, Decided
<1>26. \A p \in Obj : wrote'[t][p] \in {"none", "update"} /\ (wrote'[t][p] # "none" => p \in app.obj)
  BY <1>1, <1>2, Zenon DEF Plain
<1>27. /\ \A p \in Obj \ app.obj : main'[p] = main[p]
       /\ state'[t] = "committing" /\ xid'[t] = xid[t] /\ reads'[t] = reads[t]
  BY <1>2, <1>5, <1>13, <1>15, Zenon
<1>28. QED
  BY <1>16, <1>17, <1>23, <1>24, <1>25, <1>26, <1>27, StepShape, Zenon

\* abort_transaction takes the version of t off the list of the next object.
LEMMA SerialAbortDirty ==
    ASSUME SerialInv, OldestInv', NEW t \in Tx, abort_dirty(t), app' = app
    PROVE  SerialInv'
<1>1. TypeOK /\ OldestInv /\ Plain /\ Covered /\ \A p \in app.obj : ObjectOK(p)
  BY Zenon DEF SerialInv
<1>2. /\ state[t] = "aborting" /\ \A u \in Tx \ {t} : state[u] \notin Guarded
      /\ UNCHANGED <<app, xid, call, nodes, rships, clock, active, oldest, garbage, wrote, reads>>
  BY <1>1, AtAlone, Zenon DEF abort_dirty, shared, history
<1>3. PICK o : o = Head(todo[t])
  BY Zenon
<1>4. todo[t] # <<>>
  BY Zenon DEF abort_dirty
<1>5. /\ o \in app.obj /\ o \in Obj /\ o \in used /\ ObjectOK(o) /\ Pending(t, o)
      /\ main[o].lock = xid[t] /\ xid[t] # 0 /\ wrote[t][o] # "none"
      /\ \E n \in vers[o] : OwnOf(n, main[o], vers[o])
      /\ Tail(todo[t]) \in Seq(Obj) /\ Once(Tail(todo[t]))
      /\ Elems(Tail(todo[t])) = Elems(todo[t]) \ {o}
  BY <1>2, <1>3, <1>4, NextDirty, Zenon DEF Ending
<1>6. Shape(main[o], vers[o], Dates(o)) /\ Dates(o) \subseteq Xid /\ main[o].lock \notin Dates(o)
  <2>1. xid[t] \notin Dates(o)
    BY <1>1, <1>2, NotDated, Zenon DEF Decided
  <2>2. QED
    BY <1>1, <1>5, <2>1, DatesType, Zenon DEF ObjectOK
<1>7. PICK n \in vers[o] : OwnOf(n, main[o], vers[o])
  BY <1>5, Zenon
<1>8. /\ {v \in vers[o] : v.lock = main[o].lock} = {n} /\ FrontOf({n}) = n
      /\ remove_dirty_version(vers[o], main[o].lock, INF) = vers[o] \ {n}
  BY <1>5, <1>6, <1>7, OwnFront, Zenon
<1>9. n.upd /\ n.lock = xid[t]
  BY <1>5, <1>7, Zenon DEF OwnOf
<1>10. PICK m : m = [main[o] EXCEPT !.lock = 0]
  BY Zenon
<1>11. Shape(m, vers[o] \ {n}, Dates(o)) /\ Clear(vers[o] \ {n})
  BY <1>5, <1>6, <1>7, <1>10, AbortShape, Zenon
<1>12. main' = [main EXCEPT ![o] = m] /\ vers' = [vers EXCEPT ![o] = vers[o] \ {n}]
       /\ used' = used /\ todo' = [todo EXCEPT ![t] = Tail(@)] /\ state' = state
  <2>1. {v \in vers[o] : v.lock = xid[t]} = {n} /\ remove_dirty_version(vers[o], xid[t], INF) = vers[o] \ {n}
    BY <1>5, <1>8, Zenon
  <2>2. /\ vers' = [vers EXCEPT ![o] = remove_dirty_version(vers[o], xid[t], INF)]
        /\ main' = [main EXCEPT ![o] = [main[o] EXCEPT !.lock = 0]]
        /\ todo' = [todo EXCEPT ![t] = Tail(@)] /\ state' = state
    BY <1>3, <1>5, Zenon DEF abort_dirty
  <2>3. used' = used
    BY <1>3, <1>5, <1>8, <1>9, <2>1, Zenon DEF abort_dirty
  <2>4. QED
    BY <1>10, <2>1, <2>2, <2>3, Zenon
<1>13. m \in Cell /\ vers[o] \ {n} \subseteq Cell
  BY <1>11, Zenon DEF Shape, RecordOf, Positioned
<1>14. m.lock = 0 /\ m.bts = main[o].bts /\ m.rts = main[o].rts
  <2>1. main[o] \in Cell
    BY <1>1, <1>5, Zenon DEF TypeOK
  <2>2. QED
    BY <1>10, <2>1, Zenon DEF Cell
<1>15. /\ main' \in [Obj -> Cell] /\ main'[o] = m /\ \A p \in Obj \ {o} : main'[p] = main[p]
       /\ vers' \in [Obj -> SUBSET Cell] /\ vers'[o] = vers[o] \ {n}
       /\ \A p \in Obj \ {o} : vers'[p] = vers[p]
       /\ todo' \in [Tx -> Seq(Obj)] /\ todo'[t] = Tail(todo[t]) /\ \A u \in Tx \ {t} : todo'[u] = todo[u]
  BY <1>1, <1>5, <1>12, <1>13, Zenon DEF TypeOK
<1>16. TypeOK'
  BY <1>1, <1>2, <1>12, <1>15, Zenon DEF TypeOK
<1>17. Others(t)
  BY <1>2, <1>12, <1>15, Zenon DEF Others, SameTx
<1>18. \A p \in Obj : Dates(p)' = Dates(p)
  BY <1>2, <1>12, <1>17, DatesSame, Zenon
<1>19. /\ ~ Pending(t, o)' /\ \A p \in Obj \ {o} : Pending(t, p)' <=> Pending(t, p)
       /\ \A p \in Obj : ~ Locking(t, p)
  BY <1>2, <1>5, <1>12, <1>15, Zenon DEF Pending, Locking, Open, Ending
<1>20. ObjectOK(o)'
  <2>1. \A u \in Tx : ~ Pending(u, o)'
    BY <1>5, <1>17, <1>19, Released, Zenon
  <2>2. Shape(main[o], vers[o], Dates(o))' /\ Clear(vers[o])' /\ (main[o].lock = 0)'
    BY <1>5, <1>11, <1>14, <1>15, <1>18, Zenon
  <2>3. QED
    BY <2>1, <2>2, Zenon DEF ObjectOK
<1>21. Forward(o)
  <2>1. main[o] \in Cell
    BY <1>1, <1>5, Zenon DEF TypeOK
  <2>2. main[o].bts \in Nat /\ main[o].rts \in Nat
    BY <2>1, CellNats, Zenon
  <2>3. QED
    BY <1>5, <1>14, <1>15, <1>18, <2>2, NatOrder, Zenon DEF Forward
<1>22. ASSUME NEW p \in app.obj PROVE ObjectOK(p)' /\ Forward(p)
  <2>1. CASE p = o
    BY <1>20, <1>21, <2>1, Zenon
  <2>2. CASE p # o
    <3>1. p \in Obj /\ Still(p)
      BY <1>1, <1>15, <2>2, SameStill, Zenon DEF Plain
    <3>2. QED
      BY <1>1, <1>2, <1>17, <1>18, <1>19, <2>2, <3>1, ObjectStill, StillForward, Zenon
  <2>3. QED
    BY <2>1, <2>2, Zenon
<1>23. Covered'
  <2>1. \A p \in app.obj : /\ main'[p].bts = main[p].bts
                           /\ \A v \in vers[p] : v.lock = 0 => v \in vers'[p]
    BY <1>1, <1>5, <1>9, <1>14, <1>15, Zenon DEF Plain
  <2>2. QED
    BY <1>1, <1>2, <1>12, <1>17, <2>1, CoveredKept, Zenon
<1>24. Listed(t)'
  <2>1. Listed(t)
    BY Zenon DEF SerialInv
  <2>2. Once(todo'[t]) /\ \A p \in Elems(todo'[t]) : wrote'[t][p] # "none"
    BY <1>2, <1>5, <1>15, <2>1, Zenon DEF Listed, Ending
  <2>3. state'[t] = "aborting"
    BY <1>2, <1>12, Zenon
  <2>4. QED
    BY <2>2, <2>3, Zenon DEF Listed, Open, Ending, Decided
<1>25. \A p \in Obj : wrote'[t][p] \in {"none", "update"} /\ (wrote'[t][p] # "none" => p \in app.obj)
  BY <1>1, <1>2, Zenon DEF Plain
<1>26. /\ \A p \in Obj \ app.obj : main'[p] = main[p]
       /\ state'[t] = "aborting" /\ xid'[t] = xid[t] /\ reads'[t] = reads[t]
  BY <1>2, <1>5, <1>12, <1>15, Zenon
<1>27. QED
  BY <1>16, <1>17, <1>22, <1>23, <1>24, <1>25, <1>26, StepShape, Zenon

\* vacuum finds nothing: no object is deleted.
LEMMA NothingVacuumed ==
    ASSUME TypeOK, garbage = {}, vacuum
    PROVE  UNCHANGED <<used, main, vers, garbage>>
<1>1. {o \in garbage \cap used : gc(vers[o], oldest) = {}} = {}
  BY Zenon
<1>2. /\ vers' = [o \in Obj |-> vers[o]] /\ main' = [o \in Obj |-> main[o]]
      /\ used' = used /\ garbage' = garbage
  BY <1>1, Zenon DEF vacuum
<1>3. QED
  BY <1>2, Zenon DEF TypeOK

\* The two ends of a transaction, and its entry into active_tx_.
LEMMA SerialEnds ==
    ASSUME SerialInv, OldestInv', NEW t \in Tx, app' = app,
           begin_active(t) \/ commit_end(t) \/ abort_end(t)
    PROVE  SerialInv'
<1>1. TypeOK /\ Plain
  BY Zenon DEF SerialInv
<1>2. CASE begin_active(t)
  <2>1. /\ state[t] = "begun" /\ \A u \in Tx \ {t} : state[u] \notin Guarded
        /\ state' = [state EXCEPT ![t] = "active"]
        /\ UNCHANGED <<app, used, main, vers, xid, call, nodes, rships, todo, clock, oldest, garbage, wrote, reads>>
    BY <1>1, <1>2, AtAlone, Zenon DEF begin_active, table, history
  <2>2. active' = active \cup {xid[t]}
    BY <1>2, Zenon DEF begin_active
  <2>3. active' \subseteq Xid /\ state' \in [Tx -> State]
    BY <1>1, <2>1, <2>2, Zenon DEF TypeOK, State
  <2>4. TypeOK'
    BY <1>1, <2>1, <2>3, Zenon DEF TypeOK
  <2>5. QED
    BY <2>1, <2>4, SerialMove, Zenon
<1>3. CASE commit_end(t)
  <2>1. /\ state[t] = "committing" /\ \A u \in Tx \ {t} : state[u] \notin Guarded
        /\ state' = [state EXCEPT ![t] = "committed"]
        /\ UNCHANGED <<app, xid, call, nodes, rships, todo, clock, active, oldest, wrote, reads>>
    BY <1>1, <1>3, AtAlone, Zenon DEF commit_end, history
  <2>2. vacuum /\ todo[t] = <<>>
    BY <1>3, Zenon DEF commit_end
  <2>3. UNCHANGED <<used, main, vers, garbage>>
    BY <1>1, <2>2, NothingVacuumed, Zenon DEF Plain
  <2>4. TypeOK'
    BY <1>1, <2>1, <2>3, Zenon DEF TypeOK, State
  <2>5. QED
    BY <2>1, <2>2, <2>3, <2>4, SerialMove, Zenon
<1>4. CASE abort_end(t)
  <2>1. /\ state[t] = "aborting" /\ \A u \in Tx \ {t} : state[u] \notin Guarded
        /\ state' = [state EXCEPT ![t] = "aborted"]
        /\ UNCHANGED <<app, xid, call, nodes, rships, todo, clock, active, oldest, wrote, reads>>
    BY <1>1, <1>4, AtAlone, Zenon DEF abort_end, history
  <2>2. vacuum /\ todo[t] = <<>>
    BY <1>4, Zenon DEF abort_end
  <2>3. UNCHANGED <<used, main, vers, garbage>>
    BY <1>1, <2>2, NothingVacuumed, Zenon DEF Plain
  <2>4. TypeOK'
    BY <1>1, <2>1, <2>3, Zenon DEF TypeOK, State
  <2>5. QED
    BY <2>1, <2>2, <2>3, <2>4, SerialMove, Zenon
<1>5. QED
  BY <1>2, <1>3, <1>4, Zenon

-----------------------------------------------------------------------------
\* The steps that change nothing of this but the state of one transaction:
\* t stays among the running ones, or stops being one.
Moves(t) ==
    /\ UNCHANGED <<app, clock, xid, active, oldest>>
    /\ \E s \in State \ {"idle", "begun"} :
          /\ state' = [state EXCEPT ![t] = s]
          /\ s \in Running => state[t] \in Running
    /\ state[t] # "idle"

\* A step that only moves a transaction on, and does not bring it back to life.
LEMMA MovesStep ==
    ASSUME OldestInv, NEW t \in Tx, Moves(t)
    PROVE  OldestInv'
<1>1. PICK s \in State \ {"idle", "begun"} :
          state' = [state EXCEPT ![t] = s] /\ (s \in Running => state[t] \in Running)
  BY Zenon DEF Moves
<1>2. Clocked'
  BY <1>1, Zenon DEF OldestInv, Clocked, Moves
<1>3. Unique'
  BY <1>1, Zenon DEF OldestInv, Clocked, Unique, Moves
<1>4. Oldest'
  BY <1>1, Zenon DEF OldestInv, Clocked, Oldest, Moves
<1>5. QED
  BY <1>2, <1>3, <1>4, Zenon DEF OldestInv

\* begin_transaction takes a new xid, the largest so far.
LEMMA BeginStep ==
    ASSUME OldestInv, NEW t \in Tx, begin_transaction(t), app' = app
    PROVE  OldestInv'
<1>1. /\ clock' = clock + 1 /\ xid' = [xid EXCEPT ![t] = clock + 1]
      /\ state' = [state EXCEPT ![t] = "begun"] /\ UNCHANGED <<active, oldest>>
  BY Zenon DEF begin_transaction
<1>2. /\ clock \in Nat /\ oldest \in Nat /\ oldest <= clock
      /\ state \in [Tx -> State] /\ xid \in [Tx -> Nat] /\ \A u \in Tx : xid[u] <= clock
  BY Zenon DEF OldestInv, Clocked
<1>3. Clocked'
  BY <1>1, <1>2, SMTT(30) DEF OldestInv, Clocked, State
<1>4. Unique'
  BY <1>1, <1>2, SMTT(30) DEF OldestInv, Unique
<1>5. Oldest'
  BY <1>1, <1>2, SMTT(30) DEF OldestInv, Oldest, Running
<1>6. QED
  BY <1>3, <1>4, <1>5, Zenon DEF OldestInv

\* begin_transaction enters its xid into active_tx_.
LEMMA ActiveStep ==
    ASSUME OldestInv, NEW t \in Tx, begin_active(t), app' = app
    PROVE  OldestInv'
<1>1. /\ state[t] = "begun" /\ active' = active \cup {xid[t]}
      /\ state' = [state EXCEPT ![t] = "active"] /\ UNCHANGED <<clock, xid, oldest>>
  BY Zenon DEF begin_active, At
<1>2. Clocked'
  <2>1. xid[t] \in 0 .. clock
    BY SMTT(30) DEF OldestInv, Clocked
  <2>2. active' \subseteq 0 .. clock
    BY <1>1, <2>1, Zenon DEF OldestInv, Clocked
  <2>3. state' \in [Tx -> State]
    BY <1>1, Zenon DEF OldestInv, Clocked, State
  <2>4. QED
    BY <1>1, <2>2, <2>3, Zenon DEF OldestInv, Clocked
<1>3. Unique'
  <2>1. \A u \in Tx : state'[u] = "idle" <=> state[u] = "idle"
    BY <1>1, Zenon DEF OldestInv, Clocked
  <2>2. QED
    BY <1>1, <2>1, Zenon DEF OldestInv, Unique
<1>4. Oldest'
  BY <1>1, Zenon DEF OldestInv, Clocked, Oldest, Running
<1>5. QED
  BY <1>2, <1>3, <1>4, Zenon DEF OldestInv

\* A transaction leaves active_tx_ and oldest_xid_ becomes the least xid that
\* remains. No transaction is between the two steps of begin_transaction.
LEMMA LeaveStep ==
    ASSUME OldestInv, NEW t \in Tx, Leave(t), "begun" \in app.atomic, app' = app,
           state[t] \notin {"idle", "begun"}, \A u \in Tx \ {t} : state[u] \notin app.atomic,
           \E s \in {"committing", "aborting"} : state' = [state EXCEPT ![t] = s]
    PROVE  OldestInv'
<1>1. PICK s \in {"committing", "aborting"} : state' = [state EXCEPT ![t] = s]
  BY Zenon
<1>2. /\ active' = active \ {xid[t]} /\ UNCHANGED <<clock, xid>>
      /\ oldest' = IF active' # {} THEN Min(active') ELSE xid[t]
  BY Zenon DEF Leave
<1>3. /\ app \in Profile /\ clock \in Nat /\ state \in [Tx -> State] /\ xid \in [Tx -> Nat]
      /\ \A u \in Tx : xid[u] <= clock /\ active \subseteq 0 .. clock
  BY Zenon DEF OldestInv, Clocked
<1>4. active' # {} => oldest' \in active' /\ \A x \in active' : oldest' <= x
  <2>1. active' \subseteq Nat
    BY <1>2, <1>3, SMTT(30)
  <2>2. QED
    BY <1>2, <2>1, MinOfNats, Zenon
<1>5. oldest' \in Nat /\ oldest' <= clock
  <2>1. CASE active' = {}
    BY <1>2, <1>3, <2>1, Zenon
  <2>2. CASE active' # {}
    BY <1>2, <1>3, <1>4, <2>2, SMTT(30)
  <2>3. QED
    BY <2>1, <2>2, Zenon
<1>6. Clocked'
  BY <1>1, <1>2, <1>3, <1>5, Zenon DEF Clocked, State
<1>7. Unique'
  BY <1>1, <1>2, <1>3, Zenon DEF OldestInv, Unique
<1>8. ASSUME NEW u \in Tx, state'[u] \in Running \cup {"begun"}
      PROVE  xid'[u] \in active' /\ oldest' <= xid'[u]
  <2>1. u # t
    BY <1>1, <1>3, <1>8, Zenon DEF Running
  <2>2. state[u] \in Running
    BY <1>1, <1>3, <1>8, <2>1, SMTT(30)
  <2>3. xid[u] \in active /\ xid[u] # xid[t]
    BY <2>1, <2>2, Zenon DEF OldestInv, Oldest, Unique, Running
  <2>4. QED
    BY <1>2, <1>4, <2>3, SMTT(30)
<1>9. Oldest'
  BY <1>8, Zenon DEF Oldest
<1>10. QED
  BY <1>6, <1>7, <1>9, Zenon DEF OldestInv

\* Every other action only moves its transaction.
LEMMA OtherSteps ==
    ASSUME OldestInv, NEW t \in Tx, app' = app,
           \/ \E o \in app.obj : read(t, o) \/ scan(t, o) \/ add_store(t, o)
           \/ \E o \in app.obj, op \in Writes : check_rts(t, o, op)
           \/ try_lock(t) \/ update(t) \/ delete_orphaned(t) \/ delete(t) \/ add_lock(t)
           \/ commit_dirty(t) \/ commit_end(t) \/ abort_dirty(t) \/ abort_end(t)
    PROVE  Moves(t)
<1> USE DEF Moves, Running, State, shared
<1>0. state \in [Tx -> State]
  BY Zenon DEF OldestInv, Clocked
<1>1. ASSUME NEW o \in app.obj, read(t, o) PROVE Moves(t)
  BY <1>0, <1>1, Zenon DEF read, At
<1>2. ASSUME NEW o \in app.obj, scan(t, o) PROVE Moves(t)
  BY <1>0, <1>2, Zenon DEF scan, At
<1>3. ASSUME NEW o \in app.obj, add_store(t, o) PROVE Moves(t)
  BY <1>0, <1>3, Zenon DEF add_store, At
<1>4. ASSUME NEW o \in app.obj, NEW op \in Writes, check_rts(t, o, op) PROVE Moves(t)
  BY <1>0, <1>4, Zenon DEF check_rts, At
<1>5. CASE try_lock(t)
  BY <1>0, <1>5, Zenon DEF try_lock, At
<1>6. CASE update(t)
  BY <1>0, <1>6, Zenon DEF update, At
<1>7. CASE delete_orphaned(t)
  BY <1>0, <1>7, Zenon DEF delete_orphaned, At
<1>8. CASE delete(t)
  BY <1>0, <1>8, Zenon DEF delete, At
<1>9. CASE add_lock(t)
  BY <1>0, <1>9, Zenon DEF add_lock, At
<1>10. CASE commit_dirty(t)
  BY <1>0, <1>10, Zenon DEF commit_dirty, At
<1>11. CASE commit_end(t)
  <2>1. /\ state[t] = "committing" /\ state' = [state EXCEPT ![t] = "committed"]
        /\ UNCHANGED <<app, clock, xid, active, oldest>>
    BY <1>11, Zenon DEF commit_end, At
  <2>2. "committed" \in State \ {"idle", "begun"} /\ "committed" \notin Running
    BY Zenon
  <2> HIDE DEF State, Running
  <2>3. QED
    BY <2>1, <2>2, Zenon
<1>12. CASE abort_dirty(t)
  BY <1>0, <1>12, Zenon DEF abort_dirty, At
<1>13. CASE abort_end(t)
  <2>1. /\ state[t] = "aborting" /\ state' = [state EXCEPT ![t] = "aborted"]
        /\ UNCHANGED <<app, clock, xid, active, oldest>>
    BY <1>13, Zenon DEF abort_end, At
  <2>2. "aborted" \in State \ {"idle", "begun"} /\ "aborted" \notin Running
    BY Zenon
  <2> HIDE DEF State, Running
  <2>3. QED
    BY <2>1, <2>2, Zenon
<1>14. QED
  BY <1>1, <1>2, <1>3, <1>4, <1>5, <1>6, <1>7, <1>8, <1>9, <1>10, <1>11, <1>12, <1>13, Zenon

\* A step of the application keeps oldest_xid_ right, whoever takes it.
LEMMA OldestStep ==
    ASSUME OldestInv, [Next]_vars, "begun" \in app.atomic
    PROVE  OldestInv'
<1>1. CASE UNCHANGED vars
  BY <1>1, Zenon DEF vars, txn, shared, OldestInv, Clocked, Unique, Oldest
<1>2. ASSUME NEW t \in Tx, commit_transaction(t), app' = app PROVE OldestInv'
  <2>1. /\ Leave(t) /\ state[t] = "active" /\ \A u \in Tx \ {t} : state[u] \notin app.atomic
        /\ state' = [state EXCEPT ![t] = "committing"]
    BY <1>2, Zenon DEF commit_transaction, At
  <2>2. QED
    BY <1>2, <2>1, LeaveStep, Zenon
<1>3. ASSUME NEW t \in Tx, abort_transaction(t), app' = app PROVE OldestInv'
  <2>1. /\ Leave(t) /\ state[t] \in {"active", "failed"}
        /\ \A u \in Tx \ {t} : state[u] \notin app.atomic
        /\ state' = [state EXCEPT ![t] = "aborting"]
    BY <1>3, Zenon DEF abort_transaction, At
  <2>2. QED
    BY <1>3, <2>1, LeaveStep, Zenon
<1>4. QED
  BY <1>1, <1>2, <1>3, BeginStep, ActiveStep, OtherSteps, MovesStep, Zenon DEF Next, Step

\* Nothing has begun at the start.
LEMMA OldestInit ==
    Init => OldestInv
BY SMTT(30) DEF Init, OldestInv, Clocked, Unique, Oldest, Running, State

\* gc and vacuum, which remove what ended up to oldest_xid_, never go beyond a
\* running transaction: commit_transaction and abort_transaction compute it
\* from active_tx_, where every running transaction is, provided that
\* begin_transaction is not interrupted.
THEOREM OldestTheorem ==
    ASSUME \A a \in Profile : "begun" \in a.atomic
    PROVE  Spec => []OldestSafe
<1>1. OldestInv /\ [Next]_vars => OldestInv'
  BY OldestStep, Zenon DEF OldestInv, Clocked
<1>2. OldestInv => OldestSafe
  BY Zenon DEF OldestInv, Oldest, OldestSafe
<1>3. QED
  BY <1>1, <1>2, OldestInit, PTL DEF Spec

-----------------------------------------------------------------------------
\* At the start there are only records, all from timestamp 0.
LEMMA SerialInit ==
    ASSUME \A a \in Profile : a.op \subseteq {"read", "update"} /\ Guarded \subseteq a.atomic, Init
    PROVE  SerialInv
<1>1. app \in Profile /\ app \in Application /\ app.obj \subseteq Obj
  BY MvtoAssumption, Zenon DEF Init, Application
<1>2. \A v \in Value : Record(v) \in Cell
  BY MvtoAssumption, SMTT(30) DEF Record, Cell, Xid, INF
<1>3. 0 \in Xid /\ 0 \in Value /\ Lost \in Value
  BY MvtoAssumption, SMTT(30) DEF Xid, Value
<1>4. \A o \in Obj : main[o] = Record(IF o \in app.obj THEN 0 ELSE Lost) /\ main[o] \in Cell
  BY <1>2, <1>3, Zenon DEF Init
<1>5. TypeOK
  <2>1. main \in [Obj -> Cell]
    BY <1>4, Zenon DEF Init
  <2>2. call \in [Tx -> [op : Operation, obj : Obj \cup {NoObj}, ref : Nat]]
    BY Zenon DEF Init, NoCall, Operation
  <2>3. /\ wrote \in [Tx -> [Obj -> Kind]] /\ reads \in [Tx -> SUBSET (Obj \X Value)]
        /\ state \in [Tx -> State] /\ xid \in [Tx -> Xid] /\ vers \in [Obj -> SUBSET Cell]
    BY <1>3, Zenon DEF Init, Kind, State
  <2>4. nodes \in [Tx -> Seq(Obj)] /\ rships \in [Tx -> Seq(Obj)] /\ todo \in [Tx -> Seq(Obj)]
    <3>1. <<>> \in Seq(Obj)
      BY SMTT(30)
    <3>2. QED
      BY <3>1, Zenon DEF Init
  <2>5. clock \in Xid /\ oldest \in Xid /\ active \subseteq Xid /\ garbage \subseteq Obj /\ used \subseteq Obj
    BY <1>1, <1>3, Zenon DEF Init
  <2>6. QED
    BY <1>1, <2>1, <2>2, <2>3, <2>4, <2>5, Zenon DEF TypeOK
<1>6. Plain
  BY <1>1, Zenon DEF Init, Plain, Guarded
<1>7. \A t \in Tx : state[t] = "idle" /\ reads[t] = {} /\ nodes[t] = <<>> /\ rships[t] = <<>>
                    /\ \A o \in Obj : wrote[t][o] = "none"
  BY Zenon DEF Init
<1>8. ASSUME NEW o \in app.obj PROVE ObjectOK(o)
  <2>1. main[o] = Record(0) /\ vers[o] = {} /\ main[o] \in Cell
    BY <1>1, <1>4, Zenon DEF Init
  <2>2. Dates(o) = {}
    BY <1>7, SMTT(30) DEF Dates, Decided
  <2>3. Positioned({})
    BY Zenon DEF Positioned
  <2>4. RecordOf(main[o], {})
    BY <2>1, SMTT(30) DEF RecordOf, Record
  <2>5. Shape(main[o], vers[o], Dates(o)) /\ main[o].lock = 0
    BY <2>1, <2>2, <2>3, <2>4, SMTT(30) DEF Shape, Record
  <2>6. Clear(vers[o]) /\ \A t \in Tx : ~ Pending(t, o)
    BY <1>7, <2>1, Zenon DEF Clear, Pending, Open, Ending
  <2>7. QED
    BY <2>5, <2>6, Zenon DEF ObjectOK
<1>9. Covered /\ ReadsOK
  BY <1>7, Zenon DEF Covered, ReadsOK, Running
<1>10. ASSUME NEW t \in Tx PROVE Listed(t) /\ state[t] \notin {"checked", "locked"}
  <2>1. Elems(<<>>) = {} /\ Once(<<>>)
    BY SMTT(30) DEF Elems, Once
  <2>2. Rship \subseteq Obj
    BY MvtoAssumption, Zenon
  <2>3. QED
    BY <1>7, <2>1, <2>2, SMTT(30) DEF Listed, Open, Ending, Decided
<1>11. QED
  BY <1>5, <1>6, <1>8, <1>9, <1>10, OldestInit, Zenon DEF SerialInv

\* The other operations do not happen in the applications considered.
LEMMA SerialStep ==
    ASSUME SerialInv, [Next]_vars
    PROVE  SerialInv'
<1>1. Plain /\ OldestInv
  BY Zenon DEF SerialInv
<1>2. OldestInv'
  BY <1>1, OldestStep, Zenon DEF Plain, Guarded
<1>3. CASE UNCHANGED vars
  <2>1. UNCHANGED <<app, used, main, vers, clock, state, xid, call, nodes, rships, todo, active, oldest,
                    garbage, wrote, reads>>
    BY <1>3, Zenon DEF vars, table, txn, shared, history
  <2>2. TypeOK' /\ Plain'
    BY <2>1, Zenon DEF SerialInv, TypeOK, Plain
  <2>3. \A o \in app.obj : Dates(o)' = Dates(o)
    BY <2>1, Zenon DEF Dates
  <2>4. \A t \in Tx, o \in Obj : (Pending(t, o)' <=> Pending(t, o)) /\ (Locking(t, o)' <=> Locking(t, o))
    BY <2>1, Zenon DEF Pending, Locking
  <2>5. \A o \in app'.obj : ObjectOK(o)'
    BY <2>1, <2>3, <2>4, Zenon DEF SerialInv, ObjectOK, Plain
  <2>6. Covered' /\ ReadsOK'
    BY <2>1, <2>3, Zenon DEF SerialInv, Covered, CoveredFor, ReadsOK, ReadOK
  <2>7. \A t \in Tx : Listed(t)'
    BY <2>1, <2>4, Zenon DEF SerialInv, Listed
  <2>8. \A t \in Tx : state'[t] \in {"checked", "locked"} => Calling(t)'
    BY <2>1, Zenon DEF SerialInv, Calling
  <2>9. QED
    BY <1>2, <2>2, <2>5, <2>6, <2>7, <2>8, Zenon DEF SerialInv
<1>4. ASSUME NEW t \in Tx, Step(t), app' = app PROVE SerialInv'
  <2>1. \A o \in app.obj : ~ scan(t, o) /\ ~ add_store(t, o)
    BY <1>1, Zenon DEF Plain, scan, add_store
  <2>2. ~ delete_orphaned(t) /\ ~ delete(t) /\ ~ add_lock(t)
    BY Zenon DEF SerialInv, Calling, delete_orphaned, delete, add_lock, At
  <2>3. QED
    BY <1>2, <1>4, <2>1, <2>2, SerialBegin, SerialEnds, SerialRead, SerialCheck, SerialLock,
       SerialUpdate, SerialCommit, SerialCommitDirty, SerialAbort, SerialAbortDirty, Zenon DEF Step
<1>5. QED
  BY <1>3, <1>4, Zenon DEF Next

\* The last decided change is the snapshot.
LEMMA SnapshotIs ==
    ASSUME TypeOK, OldestInv, Plain, NEW o \in app.obj, NEW x \in Int, NEW v, Latest(Dates(o), x, v)
    PROVE  Snapshot(o, x) = v
<1>1. /\ \A t \in Tx : xid[t] \in Nat /\ (state[t] \in Decided => xid[t] # 0)
      /\ o \in Obj /\ \A t \in Tx : wrote[t][o] # "delete"
  <2>1. \A t \in Tx : xid[t] \in Nat
    BY SMTT(30) DEF TypeOK, Xid
  <2>2. \A t \in Tx : state[t] \in Decided => xid[t] # 0
    BY Zenon DEF OldestInv, Unique, Decided
  <2>3. o \in Obj
    BY Zenon DEF Plain
  <2>4. \A t \in Tx : wrote[t][o] \in {"none", "update"}
    BY <2>3, Zenon DEF Plain
  <2>5. QED
    BY <2>1, <2>2, <2>3, <2>4, Zenon
<1>2. PICK W : W = Writers(o, x)
  BY Zenon
<1>3. W \subseteq Tx /\ \A w \in W : state[w] \in Decided /\ xid[w] \in Dates(o) /\ xid[w] <= x
  BY <1>2, Zenon DEF Writers, Dates
<1>4. v = 0 \/ \E w \in W : xid[w] = v
  BY <1>2, Zenon DEF Latest, Dates, Writers
<1>5. \A w \in W : xid[w] <= v /\ xid[w] # 0 /\ xid[w] \in Nat
  BY <1>1, <1>3, Zenon DEF Latest
<1>6. CASE W = {}
  BY <1>2, <1>4, <1>6, Zenon DEF Snapshot
<1>7. CASE W # {}
  <2>1. PICK w \in W : xid[w] = v
    BY <1>4, <1>5, <1>7, SMTT(30)
  <2>2. \A u \in W : xid[u] <= xid[w]
    BY <1>5, <2>1, Zenon
  <2>3. LastWriter(o, x) \in W /\ \A u \in W : xid[u] <= xid[LastWriter(o, x)]
    BY <1>2, <2>1, <2>2, Zenon DEF LastWriter
  <2>4. PICK l \in W : l = LastWriter(o, x) /\ \A u \in W : xid[u] <= xid[l]
    BY <2>3, Zenon
  <2>5. xid[l] = v
    <3>1. xid[w] <= xid[l] /\ xid[l] <= xid[w] /\ xid[w] \in Nat /\ xid[l] \in Nat
      BY <1>5, <2>1, <2>2, <2>4, Zenon
    <3>2. QED
      BY <2>1, <3>1, SMTT(30)
  <2>6. QED
    BY <1>1, <1>2, <1>3, <1>7, <2>4, <2>5, Zenon DEF Snapshot
<1>8. QED
  BY <1>6, <1>7, Zenon

\* The invariant holds for applications that read and update objects by id
\* and let no two calls overlap.
LEMMA SerialInvariant ==
    ASSUME \A a \in Profile : a.op \subseteq {"read", "update"} /\ Guarded \subseteq a.atomic
    PROVE  Spec => []SerialInv
<1>1. Init => SerialInv
  BY SerialInit, Zenon
<1>2. SerialInv /\ [Next]_vars => SerialInv'
  BY SerialStep, Zenon
<1>3. QED
  BY <1>1, <1>2, PTL DEF Spec

\* Serializability of reads: what transactions that read and update objects by
\* id have read is what the committed ones with a smaller timestamp wrote last,
\* whatever commits later (get_node_description, update_node, gc).
THEOREM SerializableTheorem ==
    ASSUME \A a \in Profile : a.op \subseteq {"read", "update"} /\ Guarded \subseteq a.atomic
    PROVE  Spec => []ReadsSerializable
<1>1. SerialInv => ReadsSerializable
  <2> SUFFICES ASSUME SerialInv, NEW t \in Tx, NEW r \in reads[t]
               PROVE  r[2] = Snapshot(r[1], xid[t] - 1)
    BY Zenon DEF ReadsSerializable
  <2>1. ReadOK(t, r) /\ TypeOK /\ OldestInv /\ Plain
    BY Zenon DEF SerialInv, ReadsOK
  <2>2. r[1] \in app.obj /\ Latest(Dates(r[1]), xid[t] - 1, r[2])
    BY <2>1, Zenon DEF ReadOK
  <2>3. xid[t] - 1 \in Int
    BY <2>1, SMTT(30) DEF TypeOK, Xid
  <2>4. QED
    BY <2>1, <2>2, <2>3, SnapshotIs, Zenon
<1>2. QED
  BY <1>1, SerialInvariant, PTL

\* Serializability of writes: once all transactions have ended, the tables hold
\* the last committed update of every object in timestamp order, and nothing of
\* an aborted one (commit_dirty_node, abort_transaction).
THEOREM FinalStateTheorem ==
    ASSUME \A a \in Profile : a.op \subseteq {"read", "update"} /\ Guarded \subseteq a.atomic
    PROVE  Spec => []FinalState
<1>1. SerialInv => FinalState
  <2> SUFFICES ASSUME SerialInv, \A t \in Tx : state[t] \in Ended, NEW o \in Obj,
                      NEW v, v = Snapshot(o, MaxXid)
               PROVE  IF v = Absent THEN o \notin used \/ main[o].cts # INF
                      ELSE o \in used /\ main[o].cts = INF /\ main[o].val = v
    BY Zenon DEF FinalState
  <2>1. TypeOK /\ OldestInv /\ Plain
    BY Zenon DEF SerialInv
  <2>2. CASE o \in app.obj
    <3>1. ObjectOK(o) /\ o \in used /\ Dates(o) \subseteq Xid
      BY <2>1, <2>2, DatesType, Zenon DEF SerialInv, Plain
    <3>2. main[o].lock = 0
      BY <3>1, Zenon DEF ObjectOK, Pending, Locking, Open, Ending, Ended
    <3>3. /\ main[o] \in Cell /\ main[o].cts = INF /\ main[o].val = main[o].bts
          /\ main[o].bts \in Dates(o) \cup {0} /\ \A d \in Dates(o) : d <= main[o].bts \/ d = 0
      BY <3>1, <3>2, Zenon DEF ObjectOK, Shape, RecordOf
    <3>4. main[o].bts \in 0 .. MaxXid /\ Dates(o) \subseteq 0 .. MaxXid /\ MaxXid \in Nat
      BY <3>1, <3>3, MvtoAssumption, Zenon DEF Cell, Xid
    <3>5. Latest(Dates(o), MaxXid, main[o].bts)
      BY <3>3, <3>4, SMTT(30) DEF Latest
    <3>6. v = main[o].bts
      BY <2>1, <2>2, <3>4, <3>5, SnapshotIs, SMTT(30)
    <3>7. v # Absent
      BY <3>4, <3>6, MvtoAssumption, SMTT(30)
    <3>8. QED
      BY <3>1, <3>3, <3>6, <3>7, Zenon
  <2>3. CASE o \notin app.obj
    <3>1. o \notin used /\ Writers(o, MaxXid) = {}
      BY <2>1, <2>3, Zenon DEF Plain, Writers
    <3>2. v = Absent
      BY <2>3, <3>1, Zenon DEF Snapshot
    <3>3. QED
      BY <3>1, <3>2, Zenon
  <2>4. QED
    BY <2>2, <2>3, Zenon
<1>2. QED
  BY <1>1, SerialInvariant, PTL

\* No lock is left behind on a record or a version by a transaction that has
\* committed or aborted.
THEOREM LocksTheorem ==
    ASSUME \A a \in Profile : a.op \subseteq {"read", "update"} /\ Guarded \subseteq a.atomic
    PROVE  Spec => []LocksLive
<1>1. SerialInv => LocksLive
  <2> SUFFICES ASSUME SerialInv, NEW o \in used, NEW c \in {main[o]} \cup vers[o], c.lock # 0
               PROVE  \E t \in Tx : xid[t] = c.lock /\ state[t] \notin Ended
    BY Zenon DEF LocksLive
  <2>1. ObjectOK(o)
    BY Zenon DEF SerialInv, Plain
  <2>2. main[o].lock # 0 /\ c.lock = main[o].lock
    BY <2>1, Zenon DEF ObjectOK, Clear, Owned, OwnOf
  <2>3. PICK t \in Tx : xid[t] = main[o].lock /\ (Pending(t, o) \/ Locking(t, o))
    BY <2>1, <2>2, Zenon DEF ObjectOK
  <2>4. state[t] \notin Ended
    BY <2>3, Zenon DEF Pending, Locking, Open, Ending, Ended
  <2>5. QED
    BY <2>2, <2>3, <2>4, Zenon
<1>2. QED
  BY <1>1, SerialInvariant, PTL

\* commit_transaction and abort_transaction find every object they have to
\* process, and commit finds versions of it, so that neither ends in the
\* middle with an exception.
THEOREM DirtyTheorem ==
    ASSUME \A a \in Profile : a.op \subseteq {"read", "update"} /\ Guarded \subseteq a.atomic
    PROVE  Spec => []DirtyFound
<1>1. SerialInv => DirtyFound
  <2> SUFFICES ASSUME SerialInv, NEW t \in Tx, state[t] \in {"committing", "aborting"}, todo[t] # <<>>,
                      NEW o, o = Head(todo[t])
               PROVE  o \in used /\ has_dirty_versions(o)
    BY Zenon DEF DirtyFound
  <2>1. o \in used /\ \E n \in vers[o] : OwnOf(n, main[o], vers[o])
    BY NextDirty, Zenon DEF Ending
  <2>2. QED
    BY <2>1, Zenon DEF has_dirty_versions
<1>2. QED
  BY <1>1, SerialInvariant, PTL
=============================================================================
