---------------------------- MODULE MvtoVersions ----------------------------
(***************************************************************************)
(* Serializability, first half: the invariant, and the calls that read.    *)
(*                                                                         *)
(* For applications that read and update objects by their ids and let no   *)
(* two calls overlap, and for any number of transactions and objects,      *)
(* transactions read and leave behind what they would have had they run    *)
(* one by one in timestamp order. The invariant says of every object what  *)
(* its record and its dirty list hold for each timestamp, first without    *)
(* the variables: of a record m with the dirty list V, when D are the      *)
(* timestamps of the transactions that have decided to commit a change of  *)
(* the object. MvtoProofs has the other steps and the theorems.            *)
(***************************************************************************)
EXTENDS Mvto, Minima, TLAPS

\* The fields of a record and of a version are numbers.
LEMMA CellNats ==
    ASSUME NEW c \in Cell
    PROVE  c.bts \in Nat /\ c.rts \in Nat /\ c.lock \in Nat /\ c.cts \in Nat
BY MvtoAssumption, SMT DEF Cell, Xid, INF

\* So are timestamps.
LEMMA XidNats == \A x \in Xid : x \in Nat
BY MvtoAssumption, SMT DEF Xid

\* What the steps below use of the order of timestamps.
LEMMA NatOrder ==
    /\ \A a \in Nat : a <= a
    /\ \A a \in Nat, b \in Nat : (a < b => a <= b) /\ (~ (a <= b) <=> b < a)
    /\ \A a \in Nat, b \in Nat, c \in Nat : a <= b /\ b < c => a < c
BY SMT

\* A record whose mark only grows was read no later before.
LEMMA NatTrans == \A a \in Nat, b \in Nat, c \in Nat : a <= b /\ b <= c => a <= c
BY SMT

\* What is read is kept as a pair.
LEMMA PairParts == \A a, b : <<a, b>>[1] = a /\ <<a, b>>[2] = b
OBVIOUS

\* The list is one: positions are bounded and no two versions share one.
Positioned(V) ==
    /\ V \subseteq Cell
    /\ \E n \in Nat : \A v \in V : v.pos <= n
    /\ \A v \in V : 1 <= v.pos
    /\ \A v, w \in V : v.pos = w.pos => v = w

\* The record holds the last change but the one of the lock's owner.
RecordOf(m, D) ==
    /\ m \in Cell /\ m.cts = INF /\ m.val = m.bts /\ m.bts \in D \cup {0}
    /\ m.lock # 0 => m.bts < m.lock
    /\ \A d \in D : d <= m.bts \/ d = m.lock

\* An unlocked version is what readers between its timestamps have to see,
\* now and later: rts keeps writers with such a timestamp away.
OldOf(v, m, D) ==
    /\ v.upd /\ v.val = v.bts /\ v.bts < v.cts /\ v.bts \in D \cup {0}
    /\ v.cts <= m.rts /\ v.cts <= v.rts
    /\ \A d \in D : d <= v.bts \/ v.cts <= d
    /\ m.lock # 0 => v.cts <= m.lock

Shape(m, V, D) ==
    /\ Positioned(V) /\ RecordOf(m, D)
    /\ \A v \in V : v.lock = 0 => OldOf(v, m, D)

Clear(V) == \A v \in V : v.lock = 0

\* n is the version of the transaction that has the lock, at the front of the
\* list, and the version it has replaced is there, too.
OwnOf(n, m, V) ==
    /\ n \in V /\ n.lock = m.lock /\ n.bts = m.lock /\ n.cts = INF
    /\ n.val = m.lock /\ n.upd /\ n.rts <= m.lock
    /\ \A v \in V : v # n => v.lock = 0 /\ v.pos < n.pos
    /\ \E k \in V : k.lock = 0 /\ k.bts = m.bts /\ k.cts = m.lock

Owned(m, V) == \E n \in V : OwnOf(n, m, V)

\* v is the timestamp of the last change up to x.
Latest(D, x, v) ==
    /\ \A d \in D : d <= x => d <= v
    /\ v = 0 \/ (v \in D /\ v <= x)

\* FrontOf is the version push_front has added last.
LEMMA FrontLemma ==
    ASSUME NEW S, NEW n \in Nat, S # {}, \A v \in S : v.pos \in Nat /\ v.pos <= n
    PROVE  FrontOf(S) \in S /\ \A w \in S : w.pos <= FrontOf(S).pos
<1> DEFINE P == {v.pos : v \in S}
<1>1. P # {} /\ \A p \in P : p \in Nat /\ p <= n
  BY Zenon
<1>2. Max(P) \in P /\ \A p \in P : p <= Max(P)
  <2> HIDE DEF P
  <2> QED BY <1>1, MaxOfBounded, Zenon
<1>3. PICK v \in S : v.pos = Max(P)
  BY <1>2, Zenon
<1>4. \A w \in S : w.pos <= v.pos
  BY <1>2, <1>3, Zenon
<1>5. QED
  BY <1>4, Zenon DEF FrontOf

\* push_front gives a position no version has.
LEMMA NextPosLemma ==
    ASSUME NEW V, Positioned(V)
    PROVE  NextPos(V) \in Nat /\ 1 <= NextPos(V) /\ \A v \in V : v.pos < NextPos(V)
<1>1. CASE V = {}
  BY <1>1, SMTT(30) DEF NextPos
<1>2. CASE V # {}
  <2>1. PICK n \in Nat : \A v \in V : v.pos <= n
    BY Zenon DEF Positioned
  <2>2. \A v \in V : v.pos \in Nat
    BY Zenon DEF Positioned, Cell
  <2>3. FrontOf(V) \in V /\ \A w \in V : w.pos <= FrontOf(V).pos
    BY <1>2, <2>1, <2>2, FrontLemma, Zenon
  <2>4. PICK f \in V : f = FrontOf(V)
    BY <2>3, Zenon
  <2>5. NextPos(V) = f.pos + 1
    BY <1>2, <2>4, Zenon DEF NextPos
  <2>6. QED
    BY <2>2, <2>3, <2>4, <2>5, SMTT(30)
<1>3. QED
  BY <1>1, <1>2, Zenon

\* A version at a new position keeps the list one.
LEMMA PushLemma ==
    ASSUME NEW V, Positioned(V), NEW c \in Cell, c.pos = NextPos(V)
    PROVE  Positioned(V \cup {c})
<1>1. NextPos(V) \in Nat /\ 1 <= NextPos(V) /\ \A v \in V : v.pos < NextPos(V)
  BY NextPosLemma, Zenon
<1>2. \A v \in V : v.pos \in Nat
  BY Zenon DEF Positioned, Cell
<1>3. \A v \in V \cup {c} : v.pos <= NextPos(V)
  BY <1>1, <1>2, SMTT(30)
<1>4. \A v \in V \cup {c} : 1 <= v.pos
  BY <1>1, Zenon DEF Positioned
<1>5. \A v, w \in V \cup {c} : v.pos = w.pos => v = w
  BY <1>1, <1>2, SMTT(30) DEF Positioned
<1>6. QED
  BY <1>1, <1>3, <1>4, <1>5, Zenon DEF Positioned

\* Part of a list is one.
LEMMA PartLemma ==
    ASSUME NEW V, Positioned(V), NEW W, W \subseteq V
    PROVE  Positioned(W)
BY Zenon DEF Positioned

\* set_rts: a read by transaction x.
LEMMA ReadShape ==
    ASSUME NEW m, NEW V, NEW D, D \subseteq Xid, Shape(m, V, D), NEW r \in Xid, m.rts <= r
    PROVE  /\ Shape([m EXCEPT !.rts = r], V, D)
           /\ \A n : OwnOf(n, m, V) => OwnOf(n, [m EXCEPT !.rts = r], V)
<1>1. m \in Cell
  BY Zenon DEF Shape, RecordOf
<1>2. PICK p : p = [m EXCEPT !.rts = r]
  BY Zenon
<1>3. /\ p \in Cell /\ p.rts = r /\ p.lock = m.lock /\ p.bts = m.bts /\ p.cts = m.cts
      /\ p.val = m.val /\ p.upd = m.upd /\ p.pos = m.pos
  BY <1>1, <1>2, Zenon DEF Cell
<1>4. RecordOf(p, D)
  BY <1>3, Zenon DEF Shape, RecordOf
<1>5. ASSUME NEW v \in V, v.lock = 0 PROVE OldOf(v, p, D)
  <2>1. OldOf(v, m, D) /\ v \in Cell
    BY <1>5, Zenon DEF Shape, Positioned
  <2>2. v.cts \in Int /\ m.rts \in Int /\ r \in Int
    BY <1>1, <2>1, MvtoAssumption, SMTT(30) DEF Cell, Xid, INF
  <2>3. v.cts <= r
    BY <2>1, <2>2, SMTT(30) DEF OldOf
  <2>4. QED
    BY <1>3, <2>1, <2>3, Zenon DEF OldOf
<1>6. ASSUME NEW n, OwnOf(n, m, V) PROVE OwnOf(n, p, V)
  BY <1>3, <1>6, Zenon DEF OwnOf
<1>7. QED
  BY <1>2, <1>4, <1>5, <1>6, Zenon DEF Shape

\* try_lock of the record by a transaction x that no reader is ahead of.
LEMMA LockShape ==
    ASSUME NEW m, NEW V, NEW D, D \subseteq Xid, Shape(m, V, D), m.lock = 0,
           NEW x \in Xid, x # 0, m.bts < x, m.rts <= x
    PROVE  Shape([m EXCEPT !.lock = x], V, D)
<1>1. m \in Cell
  BY Zenon DEF Shape, RecordOf
<1>2. PICK p : p = [m EXCEPT !.lock = x]
  BY Zenon
<1>3. /\ p \in Cell /\ p.rts = m.rts /\ p.lock = x /\ p.bts = m.bts /\ p.cts = m.cts
      /\ p.val = m.val /\ p.upd = m.upd /\ p.pos = m.pos
  BY <1>1, <1>2, Zenon DEF Cell
<1>4. \A d \in D : d <= m.bts
  <2>1. m.bts \in 0 .. MaxXid /\ D \subseteq 0 .. MaxXid
    BY <1>1, Zenon DEF Cell, Xid
  <2>2. QED
    BY <2>1, MvtoAssumption, SMTT(30) DEF Shape, RecordOf
<1>5. RecordOf(p, D)
  BY <1>3, <1>4, Zenon DEF Shape, RecordOf
<1>6. ASSUME NEW v \in V, v.lock = 0 PROVE OldOf(v, p, D)
  <2>1. OldOf(v, m, D) /\ v \in Cell
    BY <1>6, Zenon DEF Shape, Positioned
  <2>2. v.cts \in Int /\ m.rts \in Int /\ x \in Int
    BY <1>1, <2>1, MvtoAssumption, SMTT(30) DEF Cell, Xid, INF
  <2>3. v.cts <= x
    BY <2>1, <2>2, SMTT(30) DEF OldOf
  <2>4. QED
    BY <1>3, <2>1, <2>3, Zenon DEF OldOf
<1>7. QED
  BY <1>2, <1>5, <1>6, Zenon DEF Shape

\* update_node of the record by the transaction that has just locked it: the
\* list gets the version that was current, and the transaction's own.
LEMMA UpdateShape ==
    ASSUME NEW m, NEW V, NEW D, D \subseteq Xid, Shape(m, V, D), Clear(V),
           m.lock # 0, m.rts = m.lock,
           NEW old, old = OldVersion(V, m, m.lock, m.val),
           NEW new, new = NewVersion(V \cup {old}, m, m.lock, m.lock, INF)
    PROVE  /\ Shape(m, V \cup {old, new}, D)
           /\ OwnOf(new, m, V \cup {old, new})
<1>1. m \in Cell /\ Positioned(V)
  BY Zenon DEF Shape, RecordOf
<1>2. m.bts \in 0 .. MaxXid /\ m.lock \in 0 .. MaxXid /\ MaxXid \in Nat
  BY <1>1, MvtoAssumption, Zenon DEF Cell, Xid
<1>3. NextPos(V) \in Nat /\ \A v \in V : v.pos \in Nat /\ v.pos < NextPos(V)
  BY <1>1, NextPosLemma, Zenon DEF Positioned, Cell
<1>4. /\ old \in Cell /\ old.pos = NextPos(V) /\ old.lock = 0 /\ old.bts = m.bts
      /\ old.cts = m.lock /\ old.rts = m.rts /\ old.val = m.val /\ old.upd = TRUE
  <2>1. m.lock \in 0 .. INF /\ 0 \in Xid /\ TRUE \in BOOLEAN
    BY <1>2, SMTT(30) DEF Xid, INF
  <2>2. old = [m EXCEPT !.pos = NextPos(V), !.cts = m.lock, !.lock = 0, !.val = m.val, !.upd = TRUE]
    BY Zenon DEF OldVersion
  <2>3. QED
    BY <1>1, <1>3, <2>1, <2>2, Zenon DEF Cell
<1>5. Positioned(V \cup {old})
  BY <1>1, <1>4, PushLemma, Zenon
<1>6. /\ NextPos(V \cup {old}) \in Nat
      /\ \A v \in V \cup {old} : v.pos \in Nat /\ v.pos < NextPos(V \cup {old})
  BY <1>5, NextPosLemma, Zenon DEF Positioned, Cell
<1>7. /\ new \in Cell /\ new.pos = NextPos(V \cup {old}) /\ new.lock = m.lock
      /\ new.bts = m.lock /\ new.cts = INF /\ new.rts = m.rts /\ new.val = m.lock
      /\ new.upd = TRUE
  <2>1. INF \in 0 .. INF /\ m.lock \in Xid /\ m.lock \in Value /\ TRUE \in BOOLEAN
    BY <1>2, SMTT(30) DEF Xid, INF, Value
  <2>2. new = [m EXCEPT !.pos = NextPos(V \cup {old}), !.bts = m.lock, !.cts = INF,
                        !.val = m.lock, !.upd = TRUE]
    BY Zenon DEF NewVersion
  <2>3. QED
    BY <1>1, <1>6, <2>1, <2>2, Zenon DEF Cell
<1>8. Positioned(V \cup {old, new})
  <2>1. Positioned((V \cup {old}) \cup {new})
    BY <1>5, <1>7, PushLemma, Zenon
  <2>2. (V \cup {old}) \cup {new} = V \cup {old, new}
    BY Zenon
  <2>3. QED
    BY <2>1, <2>2, Zenon
<1>9. OldOf(old, m, D)
  <2>1. D \subseteq 0 .. MaxXid
    BY Zenon DEF Xid
  <2>2. /\ m.val = m.bts /\ m.bts \in D \cup {0} /\ m.bts < m.lock
        /\ \A d \in D : d <= m.bts \/ d = m.lock
    BY Zenon DEF Shape, RecordOf
  <2>3. QED
    BY <1>2, <1>4, <2>1, <2>2, SMTT(30) DEF OldOf
<1>10. Shape(m, V \cup {old, new}, D)
  <2>1. ASSUME NEW v \in V \cup {old, new}, v.lock = 0 PROVE OldOf(v, m, D)
    <3>1. v \in V \/ v = old
      BY <1>7, <2>1, Zenon
    <3>2. QED
      BY <1>9, <2>1, <3>1, Zenon DEF Shape
  <2>2. QED
    BY <1>8, <2>1, Zenon DEF Shape
<1>11. OwnOf(new, m, V \cup {old, new})
  <2>1. \A v \in V \cup {old, new} : v # new => v.lock = 0 /\ v.pos < new.pos
    BY <1>4, <1>6, <1>7, Zenon DEF Clear
  <2>2. new.rts <= m.lock
    BY <1>2, <1>7, SMTT(30)
  <2>3. QED
    BY <1>4, <1>7, <2>1, <2>2, Zenon DEF OwnOf
<1>12. QED
  BY <1>10, <1>11, Zenon

\* The owner's version is the front of the list, and the only locked one.
LEMMA OwnFront ==
    ASSUME NEW m, NEW V, NEW D, Shape(m, V, D), NEW n, OwnOf(n, m, V), m.lock # 0
    PROVE  /\ FrontOf(V) = n
           /\ {v \in V : v.lock = m.lock} = {n} /\ FrontOf({n}) = n
           /\ remove_dirty_version(V, m.lock, INF) = V \ {n}
<1>1. n \in V /\ n.lock = m.lock /\ n.cts = INF /\ \A v \in V : v # n => v.lock = 0 /\ v.pos < n.pos
  BY Zenon DEF OwnOf
<1>2. \A v \in V : v.pos \in Nat
  BY Zenon DEF Shape, Positioned, Cell
<1>3. \A v \in V : v.pos <= n.pos
  BY <1>1, <1>2, SMTT(30)
<1>4. \A f \in V : (\A w \in V : w.pos <= f.pos) => f = n
  BY <1>1, <1>2, SMTT(30)
<1>5. FrontOf(V) = n
  BY <1>1, <1>3, <1>4, Zenon DEF FrontOf
<1>6. FrontOf({n}) = n
  BY <1>1, <1>3, Zenon DEF FrontOf
<1>7. {v \in V : v.lock = m.lock} = {n}
  BY <1>1, Zenon
<1>8. remove_dirty_version(V, m.lock, INF) = V \ {n}
  BY <1>1, Zenon DEF remove_dirty_version
<1>9. QED
  BY <1>5, <1>6, <1>7, <1>8, Zenon

\* commit_dirty_node: the owner's version becomes the record, and gc removes
\* what ended up to lim.
LEMMA CommitShape ==
    ASSUME NEW m, NEW V, NEW D, D \subseteq Xid, Shape(m, V, D), NEW n, OwnOf(n, m, V),
           m.lock # 0, m.lock \in D, NEW lim
    PROVE  /\ ~ IsDeletion(n)
           /\ gc(PopUnlock(V), lim) = {v \in V \ {n} : v.cts > lim}
           /\ Shape(Committed(m, n, m.lock), gc(PopUnlock(V), lim), D)
           /\ Clear(gc(PopUnlock(V), lim))
           /\ Committed(m, n, m.lock).bts = m.lock
           /\ Committed(m, n, m.lock).lock = 0
           /\ Committed(m, n, m.lock).rts = m.rts
<1>1. m \in Cell /\ V \subseteq Cell /\ n \in Cell
  BY Zenon DEF Shape, RecordOf, Positioned, OwnOf
<1>2. m.bts \in 0 .. MaxXid /\ m.lock \in 0 .. MaxXid /\ MaxXid \in Nat
  BY <1>1, MvtoAssumption, Zenon DEF Cell, Xid
<1>3. n \in V /\ n.bts = m.lock /\ n.cts = INF /\ n.val = m.lock /\ \A v \in V \ {n} : v.lock = 0
  BY Zenon DEF OwnOf
<1>4. ~ IsDeletion(n)
  BY <1>2, <1>3, SMTT(30) DEF IsDeletion, INF
<1>5. PopUnlock(V) = V \ {n}
  <2>1. FrontOf(V) = n
    BY OwnFront, Zenon
  <2>2. CASE V \ {n} = {}
    BY <2>1, <2>2, Zenon DEF PopUnlock
  <2>3. CASE V \ {n} # {}
    <3>1. PICK k \in Nat : \A v \in V : v.pos <= k
      BY Zenon DEF Shape, Positioned
    <3>2. FrontOf(V \ {n}) \in V \ {n}
      <4>1. \A v \in V \ {n} : v.pos \in Nat /\ v.pos <= k
        BY <1>1, <3>1, Zenon DEF Cell
      <4>2. QED
        BY <2>3, <4>1, FrontLemma, Zenon
    <3>3. PICK f \in V \ {n} : f = FrontOf(V \ {n})
      BY <3>2, Zenon
    <3>4. f \in Cell /\ f.lock = 0
      BY <1>1, <1>3, Zenon
    <3>5. [f EXCEPT !.lock = 0] = f
      BY <3>4, Zenon DEF Cell
    <3>6. PopUnlock(V) = ((V \ {n}) \ {f}) \cup {f}
      BY <2>1, <2>3, <3>3, <3>5, Zenon DEF PopUnlock
    <3>7. QED
      BY <3>6, Zenon
  <2>4. QED
    BY <2>2, <2>3, Zenon
<1>6. gc(PopUnlock(V), lim) = {v \in V \ {n} : v.cts > lim}
  BY <1>5, Zenon DEF gc
<1>7. PICK W : W = gc(PopUnlock(V), lim)
  BY Zenon
<1>8. W \subseteq V \ {n}
  BY <1>6, <1>7, Zenon
<1>9. PICK p : p = Committed(m, n, m.lock)
  BY Zenon
<1>10. /\ p \in Cell /\ p.rts = m.rts /\ p.lock = 0 /\ p.bts = m.lock /\ p.cts = INF
       /\ p.val = m.lock
  <2>1. INF \in 0 .. INF /\ 0 \in Xid /\ m.lock \in Xid /\ m.lock \in Value
    BY <1>2, SMTT(30) DEF Xid, INF, Value
  <2>2. p = [m EXCEPT !.lock = 0, !.bts = m.lock, !.cts = INF, !.val = m.lock]
    BY <1>3, <1>4, <1>9, Zenon DEF Committed
  <2>3. QED
    BY <1>1, <2>1, <2>2, Zenon DEF Cell
<1>11. RecordOf(p, D)
  <2>1. \A d \in D : d <= m.bts \/ d = m.lock
    BY Zenon DEF Shape, RecordOf
  <2>2. m.bts < m.lock /\ D \subseteq 0 .. MaxXid
    BY Zenon DEF Shape, RecordOf, Xid
  <2>3. \A d \in D : d <= m.lock
    BY <1>2, <2>1, <2>2, SMTT(30)
  <2>4. QED
    BY <1>10, <2>3, Zenon DEF RecordOf
<1>12. ASSUME NEW v \in W PROVE v.lock = 0 /\ OldOf(v, p, D)
  <2>1. v \in V /\ v.lock = 0
    BY <1>3, <1>8, Zenon
  <2>2. OldOf(v, m, D)
    BY <2>1, Zenon DEF Shape
  <2>3. QED
    BY <1>10, <2>1, <2>2, Zenon DEF OldOf
<1>13. Positioned(W)
  BY <1>8, PartLemma, Zenon DEF Shape
<1>14. Shape(p, W, D) /\ Clear(W)
  BY <1>11, <1>12, <1>13, Zenon DEF Shape, Clear
<1>15. QED
  BY <1>4, <1>6, <1>7, <1>9, <1>10, <1>14, Zenon

\* abort_transaction takes the owner's version off the list.
LEMMA AbortShape ==
    ASSUME NEW m, NEW V, NEW D, D \subseteq Xid, Shape(m, V, D), NEW n, OwnOf(n, m, V),
           m.lock # 0, m.lock \notin D
    PROVE  /\ Shape([m EXCEPT !.lock = 0], V \ {n}, D)
           /\ Clear(V \ {n})
<1>1. m \in Cell
  BY Zenon DEF Shape, RecordOf
<1>2. PICK p : p = [m EXCEPT !.lock = 0]
  BY Zenon
<1>3. /\ p \in Cell /\ p.rts = m.rts /\ p.lock = 0 /\ p.bts = m.bts /\ p.cts = m.cts
      /\ p.val = m.val
  BY <1>1, <1>2, MvtoAssumption, SMTT(30) DEF Cell, Xid
<1>4. RecordOf(p, D)
  BY <1>3, Zenon DEF Shape, RecordOf
<1>5. ASSUME NEW v \in V \ {n} PROVE v.lock = 0 /\ OldOf(v, p, D)
  <2>1. v.lock = 0
    BY Zenon DEF OwnOf
  <2>2. OldOf(v, m, D)
    BY <2>1, Zenon DEF Shape
  <2>3. QED
    BY <1>3, <2>1, <2>2, Zenon DEF OldOf
<1>6. Positioned(V \ {n})
  BY PartLemma, Zenon DEF Shape
<1>7. QED
  BY <1>2, <1>4, <1>5, <1>6, Zenon DEF Shape, Clear

\* commit_transaction of the lock's owner: its change counts from now on.
LEMMA DecideShape ==
    ASSUME NEW m, NEW V, NEW D, Shape(m, V, D), m.lock # 0
    PROVE  Shape(m, V, D \cup {m.lock})
BY Zenon DEF Shape, RecordOf, OldOf

\* get_valid_node_version for the transaction that has the lock: its version.
LEMMA FindOwn ==
    ASSUME NEW m, NEW V, NEW D, Shape(m, V, D), NEW n, OwnOf(n, m, V), m.lock # 0
    PROVE  get_valid_version(m, V, m.lock) = [exc |-> "none", ref |-> n.pos]
<1>1. m \in Cell /\ n \in V /\ V \subseteq Cell
  BY Zenon DEF Shape, RecordOf, Positioned, OwnOf
<1>2. m.lock \in 0 .. MaxXid /\ MaxXid \in Nat
  BY <1>1, MvtoAssumption, Zenon DEF Cell, Xid
<1>3. n.lock = m.lock /\ n.bts = m.lock /\ n.cts = INF /\ \A v \in V : v # n => v.pos < n.pos
  BY Zenon DEF OwnOf
<1>4. is_valid_for(n, m.lock)
  BY <1>2, <1>3, SMTT(30) DEF is_valid_for, INF
<1>5. PICK S : S = Stops(V, m.lock)
  BY Zenon
<1>6. n \in S /\ S \subseteq V
  BY <1>1, <1>3, <1>4, <1>5, Zenon DEF Stops, Seen
<1>7. \A v \in V : v.pos \in Nat
  BY <1>1, Zenon DEF Cell
<1>8. FrontOf(S) = n
  <2>1. \A v \in S : v.pos <= n.pos
    BY <1>1, <1>3, <1>6, <1>7, SMTT(30)
  <2>2. \A f \in S : (\A w \in S : w.pos <= f.pos) => f = n
    BY <1>1, <1>3, <1>6, <1>7, SMTT(30)
  <2>3. QED
    BY <1>6, <2>1, <2>2, Zenon DEF FrontOf
<1>9. QED
  BY <1>4, <1>5, <1>6, <1>8, Zenon DEF get_valid_version, find_valid_version, Free

\* A record that is not locked and not too new is what the reader gets.
LEMMA FindRecord ==
    ASSUME NEW m, NEW V, NEW D, Shape(m, V, D), m.lock = 0, NEW x \in Xid, m.bts <= x
    PROVE  get_valid_version(m, V, x) = [exc |-> "none", ref |-> 0]
<1>1. x < INF
  BY MvtoAssumption, SMTT(30) DEF Xid, INF
<1>2. m.cts = INF
  BY Zenon DEF Shape, RecordOf
<1>3. QED
  BY <1>1, <1>2, Zenon DEF get_valid_version, Free, is_valid_for

\* Otherwise find_valid_version finds the unlocked version for the reader's
\* timestamp, or gives the transaction up.
LEMMA FindOld ==
    ASSUME NEW m, NEW V, NEW D, Shape(m, V, D), NEW x \in Xid, x # 0, m.lock # x,
           m.lock = 0 => m.bts > x /\ Clear(V), m.lock # 0 => Owned(m, V),
           m.bts <= x \/ \E v \in V : v.lock = 0 /\ v.bts <= x /\ x < v.cts
    PROVE  /\ get_valid_version(m, V, x) = find_valid_version(V, x)
           /\ \/ find_valid_version(V, x) = [exc |-> "transaction_abort", ref |-> 0]
              \/ \E v \in V : /\ v.lock = 0 /\ v.bts <= x /\ x < v.cts
                              /\ find_valid_version(V, x) = [exc |-> "none", ref |-> v.pos]
<1>1. m \in Cell /\ V \subseteq Cell
  BY Zenon DEF Shape, RecordOf, Positioned
<1>2. m.bts \in Nat /\ x \in Nat
  BY <1>1, SMTT(30) DEF Cell, Xid
<1>3. get_valid_version(m, V, x) = find_valid_version(V, x)
  BY <1>2, SMTT(30) DEF get_valid_version, Free, is_valid_for
<1>4. \A v \in V : v.lock = 0 \/ v.lock = m.lock
  BY Zenon DEF Clear, Owned, OwnOf
<1>5. PICK Z : Z = Seen(V, x)
  BY Zenon
<1>6. PICK S : S = Stops(V, x)
  BY Zenon
<1>7. Z \subseteq V /\ \A v \in Z : v.lock = 0
  BY <1>4, <1>5, Zenon DEF Seen
<1>8. S \subseteq Z /\ \A v \in S : v.lock = 0 /\ v.bts <= x /\ x < v.cts
  BY <1>5, <1>6, <1>7, Zenon DEF Stops, is_valid_for
<1>9. CASE S # {}
  <2>1. PICK k \in Nat : \A v \in V : v.pos <= k
    BY Zenon DEF Shape, Positioned
  <2>2. \A v \in S : v.pos \in Nat /\ v.pos <= k
    BY <1>1, <1>7, <1>8, <2>1, Zenon DEF Cell
  <2>3. FrontOf(S) \in S
    BY <1>9, <2>1, <2>2, FrontLemma, Zenon
  <2>4. PICK f \in S : f = FrontOf(S)
    BY <2>3, Zenon
  <2>5. find_valid_version(V, x) = [exc |-> "none", ref |-> f.pos]
    BY <1>6, <1>8, <1>9, <2>4, Zenon DEF find_valid_version, is_valid_for
  <2>6. QED
    BY <1>3, <1>7, <1>8, <2>4, <2>5, Zenon
<1>10. CASE S = {}
  <2>1. m.lock # 0
    <3>1. SUFFICES ASSUME m.lock = 0 PROVE FALSE
      BY Zenon
    <3>2. PICK v \in V : v.lock = 0 /\ v.bts <= x /\ x < v.cts
      BY <1>2, <3>1, SMTT(30)
    <3>3. v \in S
      BY <1>6, <3>2, Zenon DEF Stops, Seen, is_valid_for
    <3>4. QED
      BY <1>10, <3>3, Zenon
  <2>2. PICK k \in V : k.lock = 0
    BY <2>1, Zenon DEF Owned, OwnOf
  <2>3. k \in Z
    BY <1>5, <2>2, Zenon DEF Seen
  <2>4. find_valid_version(V, x) = [exc |-> "transaction_abort", ref |-> 0]
    BY <1>5, <1>6, <1>10, <2>3, Zenon DEF find_valid_version
  <2>5. QED
    BY <1>3, <2>4, Zenon
<1>11. QED
  BY <1>9, <1>10, Zenon

\* What a reader x takes from an unlocked record is the last change before it.
LEMMA RecordLatest ==
    ASSUME NEW m, NEW V, NEW D, D \subseteq Xid, Shape(m, V, D), m.lock = 0,
           NEW x \in Xid, x # 0, x \notin D, m.bts <= x
    PROVE  Latest(D, x - 1, m.val)
<1>1. m \in Cell /\ m.val = m.bts /\ m.bts \in D \cup {0} /\ \A d \in D : d <= m.bts \/ d = 0
  BY Zenon DEF Shape, RecordOf
<1>2. m.bts \in 0 .. MaxXid /\ D \subseteq 0 .. MaxXid /\ x \in 0 .. MaxXid /\ MaxXid \in Nat
  BY <1>1, MvtoAssumption, Zenon DEF Cell, Xid
<1>3. m.bts <= x - 1
  BY <1>1, <1>2, SMTT(30)
<1>4. QED
  BY <1>1, <1>2, <1>3, SMTT(30) DEF Latest

\* So is what it takes from an unlocked version, and a transaction that has
\* the lock is a younger one.
LEMMA OldLatest ==
    ASSUME NEW m, NEW V, NEW D, D \subseteq Xid, Shape(m, V, D), NEW v \in V, v.lock = 0,
           NEW x \in Xid, x # 0, x \notin D, v.bts <= x, x < v.cts
    PROVE  Latest(D, x - 1, v.val) /\ (m.lock = 0 \/ x <= m.lock) /\ x < v.rts
<1>1. v \in Cell /\ m \in Cell /\ OldOf(v, m, D)
  BY Zenon DEF Shape, Positioned, RecordOf
<1>2. /\ v.bts \in 0 .. MaxXid /\ D \subseteq 0 .. MaxXid /\ x \in 0 .. MaxXid /\ MaxXid \in Nat
      /\ v.cts \in 0 .. MaxXid + 1 /\ m.lock \in 0 .. MaxXid /\ v.rts \in 0 .. MaxXid
  BY <1>1, MvtoAssumption, Zenon DEF Cell, Xid, INF
<1>3. /\ v.val = v.bts /\ v.bts \in D \cup {0} /\ v.cts <= v.rts
      /\ (m.lock # 0 => v.cts <= m.lock)
      /\ \A d \in D : d <= v.bts \/ v.cts <= d
  BY <1>1, Zenon DEF OldOf
<1>4. v.bts <= x - 1 /\ x < v.rts /\ (m.lock = 0 \/ x <= m.lock)
  BY <1>2, <1>3, SMTT(30)
<1>5. \A d \in D : d <= x - 1 => d <= v.bts
  BY <1>2, <1>3, SMTT(30)
<1>6. QED
  BY <1>3, <1>4, <1>5, Zenon DEF Latest

\* A read stays right when a change with the reader's timestamp or a later one
\* is added.
LEMMA LatestKept ==
    ASSUME NEW D, D \subseteq Xid, NEW x \in Int, NEW v, Latest(D, x, v), NEW y \in Int, x < y
    PROVE  Latest(D \cup {y}, x, v)
BY SMTT(30) DEF Latest, Xid

-----------------------------------------------------------------------------
\* The states of a transaction that the application lets nobody interrupt.
Guarded == {"begun", "checked", "locked"}

\* The elements of a list, and that it has none twice.
Elems(s) == {s[i] : i \in DOMAIN s}
Once(s) == \A i, j \in DOMAIN s : s[i] = s[j] => i = j

\* append, and the two dirty lists one after the other.
LEMMA AppendElems ==
    ASSUME NEW S, NEW s \in Seq(S), NEW e \in S
    PROVE  /\ Append(s, e) \in Seq(S)
           /\ Elems(Append(s, e)) = Elems(s) \cup {e}
           /\ Once(s) /\ e \notin Elems(s) => Once(Append(s, e))
BY SMTT(30) DEF Elems, Once

\* A list made of two that share nothing, as in rships \o nodes.
LEMMA ConcatElems ==
    ASSUME NEW S, NEW s \in Seq(S), NEW u \in Seq(S)
    PROVE  /\ s \o u \in Seq(S)
           /\ Elems(s \o u) = Elems(s) \cup Elems(u)
           /\ Once(s) /\ Once(u) /\ Elems(s) \cap Elems(u) = {} => Once(s \o u)
<1>1. /\ s \o u \in Seq(S) /\ Len(s \o u) = Len(s) + Len(u)
      /\ \A i \in 1 .. Len(s) : (s \o u)[i] = s[i]
      /\ \A i \in 1 .. Len(u) : (s \o u)[Len(s) + i] = u[i]
      /\ \A i \in Len(s) + 1 .. Len(s) + Len(u) :
            i - Len(s) \in 1 .. Len(u) /\ (s \o u)[i] = u[i - Len(s)]
  BY SMTT(30)
<1>2. Len(s) \in Nat /\ Len(u) \in Nat /\ DOMAIN s = 1 .. Len(s) /\ DOMAIN u = 1 .. Len(u)
  BY SMTT(30)
<1>3. DOMAIN (s \o u) = 1 .. Len(s) + Len(u)
  BY <1>1, SMTT(30)
<1>4. PICK w : w = s \o u
  BY Zenon
<1>5. /\ DOMAIN w = 1 .. Len(s) + Len(u)
      /\ \A i \in 1 .. Len(s) : w[i] = s[i]
      /\ \A i \in 1 .. Len(u) : w[Len(s) + i] = u[i]
      /\ \A i \in Len(s) + 1 .. Len(s) + Len(u) : i - Len(s) \in 1 .. Len(u) /\ w[i] = u[i - Len(s)]
  BY <1>1, <1>3, <1>4, Zenon
<1>6. Elems(w) = Elems(s) \cup Elems(u)
  <2>1. ASSUME NEW e \in Elems(w) PROVE e \in Elems(s) \cup Elems(u)
    <3>1. PICK i \in 1 .. Len(s) + Len(u) : e = w[i]
      BY <1>5, Zenon DEF Elems
    <3>2. CASE i <= Len(s)
      <4>1. i \in 1 .. Len(s)
        BY <1>2, <3>2, SMTT(30)
      <4>2. QED
        BY <1>2, <1>5, <3>1, <4>1, Zenon DEF Elems
    <3>3. CASE i > Len(s)
      <4>1. i \in Len(s) + 1 .. Len(s) + Len(u)
        BY <1>2, <3>3, SMTT(30)
      <4>2. QED
        BY <1>2, <1>5, <3>1, <4>1, Zenon DEF Elems
    <3>4. QED
      BY <1>2, <3>2, <3>3, SMTT(30)
  <2>2. ASSUME NEW e \in Elems(s) PROVE e \in Elems(w)
    <3>1. PICK i \in 1 .. Len(s) : e = s[i]
      BY <1>2, Zenon DEF Elems
    <3>2. i \in DOMAIN w /\ w[i] = e
      BY <1>2, <1>5, <3>1, SMTT(30)
    <3>3. QED
      BY <3>2, Zenon DEF Elems
  <2>3. ASSUME NEW e \in Elems(u) PROVE e \in Elems(w)
    <3>1. PICK i \in 1 .. Len(u) : e = u[i]
      BY <1>2, Zenon DEF Elems
    <3>2. Len(s) + i \in DOMAIN w /\ w[Len(s) + i] = e
      BY <1>2, <1>5, <3>1, SMTT(30)
    <3>3. QED
      BY <3>2, Zenon DEF Elems
  <2>4. QED
    BY <2>1, <2>2, <2>3, Zenon
<1>7. ASSUME Once(s), Once(u), Elems(s) \cap Elems(u) = {} PROVE Once(w)
  <2> SUFFICES ASSUME NEW i \in DOMAIN w, NEW j \in DOMAIN w, w[i] = w[j], i < j PROVE FALSE
    BY <1>2, <1>5, SMTT(30) DEF Once
  <2>1. i \in 1 .. Len(s) + Len(u) /\ j \in 1 .. Len(s) + Len(u)
    BY <1>5, Zenon
  <2>2. CASE j <= Len(s)
    <3>1. i \in 1 .. Len(s) /\ j \in 1 .. Len(s)
      BY <1>2, <2>1, <2>2, SMTT(30)
    <3>2. s[i] = s[j]
      BY <1>5, <3>1, Zenon
    <3>3. QED
      BY <1>2, <1>7, <2>1, <3>1, <3>2, SMTT(30) DEF Once
  <2>3. CASE i > Len(s)
    <3>1. i \in Len(s) + 1 .. Len(s) + Len(u) /\ j \in Len(s) + 1 .. Len(s) + Len(u)
      BY <1>2, <2>1, <2>3, SMTT(30)
    <3>2. u[i - Len(s)] = u[j - Len(s)] /\ i - Len(s) \in DOMAIN u /\ j - Len(s) \in DOMAIN u
      BY <1>2, <1>5, <3>1, Zenon
    <3>3. i - Len(s) = j - Len(s)
      BY <1>7, <3>2, Zenon DEF Once
    <3>4. QED
      BY <1>2, <2>1, <3>3, SMTT(30)
  <2>4. CASE i <= Len(s) /\ j > Len(s)
    <3>1. i \in 1 .. Len(s) /\ j \in Len(s) + 1 .. Len(s) + Len(u)
      BY <1>2, <2>1, <2>4, SMTT(30)
    <3>2. w[i] \in Elems(s)
      BY <1>2, <1>5, <3>1, Zenon DEF Elems
    <3>3. w[j] \in Elems(u)
      BY <1>2, <1>5, <3>1, Zenon DEF Elems
    <3>4. QED
      BY <1>7, <3>2, <3>3, Zenon
  <2>5. QED
    BY <1>2, <2>1, <2>2, <2>3, <2>4, SMTT(30)
<1>8. QED
  BY <1>1, <1>4, <1>6, <1>7, Zenon

\* The first element of a list, and what remains without it.
LEMMA TailElems ==
    ASSUME NEW S, NEW s \in Seq(S), s # <<>>, Once(s)
    PROVE  /\ Head(s) \in Elems(s) /\ Head(s) \in S /\ Tail(s) \in Seq(S)
           /\ Once(Tail(s)) /\ Elems(Tail(s)) = Elems(s) \ {Head(s)}
<1>1. /\ Len(s) \in Nat /\ Len(s) >= 1 /\ DOMAIN s = 1 .. Len(s) /\ Head(s) = s[1]
      /\ Head(s) \in S /\ Tail(s) \in Seq(S) /\ Len(Tail(s)) = Len(s) - 1
      /\ \A i \in 1 .. Len(s) - 1 : Tail(s)[i] = s[i + 1]
  BY SMTT(30)
<1>2. PICK w : w = Tail(s)
  BY Zenon
<1>3. DOMAIN w = 1 .. Len(s) - 1 /\ \A i \in 1 .. Len(s) - 1 : w[i] = s[i + 1] /\ i + 1 \in DOMAIN s
  BY <1>1, <1>2, SMTT(30)
<1>4. 1 \in DOMAIN s /\ Head(s) \in Elems(s)
  BY <1>1, SMTT(30) DEF Elems
<1>5. Once(w)
  <2> SUFFICES ASSUME NEW i \in DOMAIN w, NEW j \in DOMAIN w, w[i] = w[j] PROVE i = j
    BY Zenon DEF Once
  <2>1. i + 1 = j + 1
    BY <1>3, Zenon DEF Once
  <2>2. QED
    BY <1>3, <2>1, SMTT(30)
<1>6. Elems(w) = Elems(s) \ {Head(s)}
  <2>1. ASSUME NEW e \in Elems(w) PROVE e \in Elems(s) /\ e # Head(s)
    <3>1. PICK i \in 1 .. Len(s) - 1 : e = s[i + 1] /\ i + 1 \in DOMAIN s
      BY <1>3, Zenon DEF Elems
    <3>2. s[i + 1] # s[1]
      <4>1. i + 1 # 1
        BY <1>1, <3>1, SMTT(30)
      <4>2. QED
        BY <1>4, <3>1, <4>1, Zenon DEF Once
    <3>3. QED
      BY <1>1, <3>1, <3>2, Zenon DEF Elems
  <2>2. ASSUME NEW e \in Elems(s), e # Head(s) PROVE e \in Elems(w)
    <3>1. PICK i \in DOMAIN s : e = s[i]
      BY Zenon DEF Elems
    <3>2. i \in 1 .. Len(s) /\ i # 1
      BY <1>1, <2>2, <3>1, Zenon
    <3>3. PICK j \in 1 .. Len(s) - 1 : j + 1 = i
      <4>1. i - 1 \in 1 .. Len(s) - 1 /\ (i - 1) + 1 = i
        BY <1>1, <3>2, SMTT(30)
      <4>2. QED
        BY <4>1, Zenon
    <3>4. QED
      BY <1>3, <3>1, <3>3, Zenon DEF Elems
  <2>3. QED
    BY <2>1, <2>2, Zenon
<1>7. QED
  BY <1>1, <1>2, <1>4, <1>5, <1>6, Zenon

-----------------------------------------------------------------------------
\* Timestamps come from the clock.
Clocked ==
    /\ app \in Profile
    /\ clock \in Nat /\ oldest \in Nat /\ oldest <= clock
    /\ state \in [Tx -> State] /\ xid \in [Tx -> Nat]
    /\ \A t \in Tx : xid[t] <= clock
    /\ active \subseteq 0 .. clock

\* No two transactions have the same one. A transaction that has not begun
\* has none.
Unique ==
    /\ \A t \in Tx : state[t] = "idle" <=> xid[t] = 0
    /\ \A t, u \in Tx : xid[t] = xid[u] /\ xid[t] # 0 => t = u

\* What OldestSafe says, also of a transaction that is about to enter
\* active_tx_.
Oldest ==
    \A t \in Tx : /\ state[t] \in Running => xid[t] \in active
                  /\ state[t] \in Running \cup {"begun"} => oldest <= xid[t]

OldestInv == Clocked /\ Unique /\ Oldest

-----------------------------------------------------------------------------
\* The timestamps of the transactions that have decided to commit a change of o.
Dates(o) == {xid[w] : w \in {u \in Tx : state[u] \in Decided /\ wrote[u][o] # "none"}}

\* t has a version of o that commit or abort has still to process.
Open == {"active", "checked", "locked", "failed"}
Ending == {"committing", "aborting"}
Pending(t, o) ==
    \/ state[t] \in Open /\ wrote[t][o] # "none"
    \/ state[t] \in Ending /\ o \in Elems(todo[t])

\* t has locked the record and not yet added its version.
Locking(t, o) == state[t] = "locked" /\ call[t].obj = o /\ call[t].ref = 0 /\ wrote[t][o] = "none"

\* What is true of an object: its versions, and who has its lock.
ObjectOK(o) ==
    /\ Shape(main[o], vers[o], Dates(o))
    /\ main[o].lock = 0 => Clear(vers[o])
    /\ main[o].lock # 0 =>
          \E t \in Tx : /\ xid[t] = main[o].lock
                        /\ \/ Pending(t, o) /\ Owned(main[o], vers[o])
                           \/ Locking(t, o) /\ Clear(vers[o])
    /\ \A t \in Tx : Pending(t, o) => main[o].lock = xid[t]

\* gc has left every running transaction a version.
CoveredFor(o, x) ==
    main[o].bts <= x \/ \E v \in vers[o] : v.lock = 0 /\ v.bts <= x /\ x < v.cts
Covered ==
    \A t \in Tx, o \in app.obj : state[t] \in Running \cup {"begun"} => CoveredFor(o, xid[t])

\* Inside a call: what check_rts and try_lock have found is still so.
Calling(t) ==
    LET o == call[t].obj
    IN  /\ call[t].op = "update" /\ o \in app.obj
        /\ call[t].ref = 0 =>
              /\ main[o].rts = xid[t] /\ main[o].bts <= xid[t] /\ wrote[t][o] = "none"
              /\ main[o].lock = IF state[t] = "checked" THEN 0 ELSE xid[t]
        /\ call[t].ref # 0 =>
              /\ wrote[t][o] # "none"
              /\ \E n \in vers[o] : OwnOf(n, main[o], vers[o]) /\ n.pos = call[t].ref

\* The dirty lists of a transaction hold the objects it has changed, each
\* once, and what commit has processed is in the table.
Listed(t) ==
    /\ state[t] \in {"idle", "begun"} => \A o \in Obj : wrote[t][o] = "none"
    /\ state[t] \in Open \cup {"idle", "begun"} =>
          /\ Once(rships[t]) /\ Once(nodes[t])
          /\ Elems(rships[t]) = {o \in Rship : wrote[t][o] # "none"}
          /\ Elems(nodes[t]) = {o \in Obj \ Rship : wrote[t][o] # "none"}
    /\ state[t] \in Ending => Once(todo[t]) /\ \A o \in Elems(todo[t]) : wrote[t][o] # "none"
    /\ state[t] \in Decided =>
          \A o \in Obj : wrote[t][o] # "none" /\ ~ Pending(t, o) => xid[t] <= main[o].bts

\* What has been read is right, and rts and the lock keep it so.
ReadOK(t, r) ==
    /\ r[1] \in app.obj /\ xid[t] <= main[r[1]].rts
    /\ main[r[1]].lock = 0 \/ xid[t] <= main[r[1]].lock
    /\ Latest(Dates(r[1]), xid[t] - 1, r[2])
ReadsOK == \A t \in Tx : (state[t] = "idle" => reads[t] = {}) /\ \A r \in reads[t] : ReadOK(t, r)

\* The applications considered, and that their calls exclude each other.
Plain ==
    /\ app.op \subseteq {"read", "update"} /\ Guarded \subseteq app.atomic
    /\ used = app.obj /\ app.obj \subseteq Obj /\ garbage = {}
    /\ \A t \in Tx, o \in Obj :
          wrote[t][o] \in {"none", "update"} /\ (wrote[t][o] # "none" => o \in app.obj)
    /\ \A t, u \in Tx : state[t] \in Guarded /\ state[u] \in Guarded => t = u

SerialInv ==
    /\ TypeOK /\ OldestInv /\ Plain
    /\ \A o \in app.obj : ObjectOK(o)
    /\ Covered /\ ReadsOK
    /\ \A t \in Tx : Listed(t) /\ (state[t] \in {"checked", "locked"} => Calling(t))

-----------------------------------------------------------------------------
\* A step of t leaves the other transactions as they are.
SameTx(u) ==
    /\ state'[u] = state[u] /\ xid'[u] = xid[u] /\ call'[u] = call[u] /\ todo'[u] = todo[u]
    /\ nodes'[u] = nodes[u] /\ rships'[u] = rships[u] /\ wrote'[u] = wrote[u] /\ reads'[u] = reads[u]
Others(t) ==
    /\ UNCHANGED <<app, used, garbage>>
    /\ \A u \in Tx \ {t} : SameTx(u) /\ state[u] \notin Guarded

\* ... and of an object at most rts, upwards.
Still(o) ==
    /\ vers'[o] = vers[o]
    /\ \E r \in Xid : main[o].rts <= r /\ main'[o] = [main[o] EXCEPT !.rts = r]

\* An object that is not touched at all is still there.
LEMMA SameStill ==
    ASSUME TypeOK, NEW o \in Obj, main'[o] = main[o], vers'[o] = vers[o]
    PROVE  Still(o)
<1>1. PICK m \in Cell : m = main[o]
  BY Zenon DEF TypeOK
<1>2. m.rts \in Xid /\ m.rts <= m.rts /\ m = [m EXCEPT !.rts = m.rts]
  BY MvtoAssumption, SMTT(30) DEF Cell, Xid
<1>3. QED
  BY <1>1, <1>2, Zenon DEF Still

\* What a read changes of the record.
LEMMA StillFields ==
    ASSUME TypeOK, NEW o \in Obj, Still(o)
    PROVE  /\ main[o].rts <= main'[o].rts /\ main'[o].lock = main[o].lock
           /\ main'[o].bts = main[o].bts
<1>1. main[o] \in Cell
  BY Zenon DEF TypeOK
<1>2. PICK r \in Xid : main[o].rts <= r /\ main'[o] = [main[o] EXCEPT !.rts = r]
  BY Zenon DEF Still
<1>3. QED
  BY <1>1, <1>2, Zenon DEF Cell

\* The decided changes are those of before when t makes none.
LEMMA DatesSame ==
    ASSUME NEW t \in Tx, Others(t), NEW o,
           (state'[t] \in Decided /\ wrote'[t][o] # "none") <=> (state[t] \in Decided /\ wrote[t][o] # "none"),
           state[t] \in Decided => xid'[t] = xid[t]
    PROVE  Dates(o)' = Dates(o)
<1>1. \A u \in Tx : (state'[u] \in Decided /\ wrote'[u][o] # "none")
                        <=> (state[u] \in Decided /\ wrote[u][o] # "none")
  BY Zenon DEF Others, SameTx
<1>2. \A u \in Tx : state[u] \in Decided => xid'[u] = xid[u]
  BY Zenon DEF Others, SameTx
<1>3. QED
  BY <1>1, <1>2, Zenon DEF Dates

\* Timestamps of decided changes.
LEMMA DatesType ==
    ASSUME TypeOK, NEW o
    PROVE  Dates(o) \subseteq Xid
BY Zenon DEF TypeOK, Dates

\* A transaction that has begun and not decided to commit is not among them.
LEMMA NotDated ==
    ASSUME OldestInv, NEW t \in Tx, state[t] \notin Decided, state[t] # "idle", NEW o
    PROVE  xid[t] \notin Dates(o) /\ xid[t] # 0
BY Zenon DEF OldestInv, Unique, Dates

\* The invariant of an object that a step of t does not change.
LEMMA ObjectStill ==
    ASSUME TypeOK, NEW t \in Tx, Others(t), NEW o \in Obj, ObjectOK(o), Still(o),
           Dates(o)' = Dates(o), Pending(t, o)' <=> Pending(t, o),
           Locking(t, o) => Locking(t, o)',
           Pending(t, o) \/ Locking(t, o) => xid'[t] = xid[t]
    PROVE  ObjectOK(o)'
<1>1. PICK r \in Xid : main[o].rts <= r /\ main'[o] = [main[o] EXCEPT !.rts = r]
  BY Zenon DEF Still
<1>2. /\ Shape(main'[o], vers[o], Dates(o))
      /\ \A n : OwnOf(n, main[o], vers[o]) => OwnOf(n, main'[o], vers[o])
  BY <1>1, DatesType, ReadShape, SMTT(30) DEF ObjectOK
<1>3. Shape(main[o], vers[o], Dates(o))'
  BY <1>2, Zenon DEF Still
<1>4. main'[o].lock = main[o].lock /\ vers'[o] = vers[o]
  BY StillFields, Zenon DEF Still
<1>5. Owned(main[o], vers[o]) => Owned(main[o], vers[o])'
  BY <1>2, <1>4, Zenon DEF Owned
<1>6. \A u \in Tx : /\ Pending(u, o)' <=> Pending(u, o)
                    /\ Locking(u, o) => Locking(u, o)'
                    /\ Pending(u, o) \/ Locking(u, o) => xid'[u] = xid[u]
  <2>1. ASSUME NEW u \in Tx, u # t
        PROVE  /\ Pending(u, o)' <=> Pending(u, o)
               /\ Locking(u, o) => Locking(u, o)'
               /\ xid'[u] = xid[u]
    <3>1. SameTx(u)
      BY <2>1, Zenon DEF Others
    <3>2. QED
      BY <3>1, Zenon DEF SameTx, Pending, Locking
  <2>2. QED
    BY <2>1, Zenon
<1>7. ASSUME main'[o].lock # 0
      PROVE  \E u \in Tx : /\ xid'[u] = main'[o].lock
                           /\ \/ Pending(u, o)' /\ Owned(main[o], vers[o])'
                              \/ Locking(u, o)' /\ Clear(vers'[o])
  <2>1. PICK u \in Tx : /\ xid[u] = main[o].lock
                        /\ \/ Pending(u, o) /\ Owned(main[o], vers[o])
                           \/ Locking(u, o) /\ Clear(vers[o])
    BY <1>4, <1>7, Zenon DEF ObjectOK
  <2>2. xid'[u] = main'[o].lock
    BY <1>4, <1>6, <2>1, Zenon
  <2>3. \/ Pending(u, o)' /\ Owned(main[o], vers[o])'
        \/ Locking(u, o)' /\ Clear(vers'[o])
    BY <1>4, <1>5, <1>6, <2>1, Zenon
  <2>4. QED
    BY <2>2, <2>3, Zenon
<1>8. main'[o].lock = 0 => Clear(vers'[o])
  BY <1>4, Zenon DEF ObjectOK
<1>9. \A u \in Tx : Pending(u, o)' => main'[o].lock = xid'[u]
  BY <1>4, <1>6, Zenon DEF ObjectOK
<1>10. QED
  BY <1>3, <1>7, <1>8, <1>9, Zenon DEF ObjectOK

\* What a step may do to an object that has been read.
Forward(o) ==
    /\ main[o].rts <= main'[o].rts /\ main[o].bts <= main'[o].bts
    /\ main'[o].lock \in {0, main[o].lock} \/ main[o].rts <= main'[o].lock
    /\ \/ Dates(o)' = Dates(o)
       \/ main[o].lock # 0 /\ Dates(o)' = Dates(o) \cup {main[o].lock}

\* An object that is still there has not gone backwards.
LEMMA StillForward ==
    ASSUME TypeOK, NEW o \in Obj, Still(o), Dates(o)' = Dates(o)
    PROVE  Forward(o)
<1>1. main[o].bts \in Nat
  BY SMTT(30) DEF TypeOK, Cell, Xid
<1>2. QED
  BY <1>1, StillFields, SMTT(30) DEF Forward

\* Reads stay right.
LEMMA ReadKept ==
    ASSUME TypeOK, TypeOK', app' = app, app.obj \subseteq Obj, NEW u \in Tx, NEW r,
           ReadOK(u, r), xid'[u] = xid[u], Forward(r[1])
    PROVE  ReadOK(u, r)'
<1>1. PICK o \in Obj : o = r[1]
  BY Zenon DEF ReadOK
<1>2. main[o] \in Cell /\ main'[o] \in Cell /\ xid[u] \in Xid
  BY Zenon DEF TypeOK
<1>3. /\ main[o].rts \in Nat /\ main'[o].rts \in Nat /\ main[o].lock \in Nat
      /\ main'[o].lock \in Nat /\ xid[u] \in Nat
  BY <1>2, SMTT(30) DEF Cell, Xid
<1>4. /\ o \in app.obj /\ xid[u] <= main[o].rts
      /\ main[o].lock = 0 \/ xid[u] <= main[o].lock
      /\ Latest(Dates(o), xid[u] - 1, r[2])
  BY <1>1, Zenon DEF ReadOK
<1>5. xid[u] <= main'[o].rts /\ (main'[o].lock = 0 \/ xid[u] <= main'[o].lock)
  BY <1>1, <1>3, <1>4, SMTT(30) DEF Forward
<1>6. Latest(Dates(o)', xid[u] - 1, r[2])
  <2>1. CASE Dates(o)' = Dates(o)
    BY <1>4, <2>1, Zenon
  <2>2. CASE main[o].lock # 0 /\ Dates(o)' = Dates(o) \cup {main[o].lock}
    <3>1. xid[u] - 1 \in Int /\ xid[u] - 1 < main[o].lock /\ main[o].lock \in Int
      BY <1>3, <1>4, <2>2, SMTT(30)
    <3>2. Latest(Dates(o) \cup {main[o].lock}, xid[u] - 1, r[2])
      BY <1>4, <3>1, DatesType, LatestKept, Zenon
    <3>3. QED
      BY <2>2, <3>2, Zenon
  <2>3. QED
    BY <1>1, <2>1, <2>2, Zenon DEF Forward
<1>7. (xid[u] <= main[o].rts)' /\ (main[o].lock = 0 \/ xid[u] <= main[o].lock)'
      /\ Latest(Dates(o), xid[u] - 1, r[2])' /\ (o \in app.obj)'
  BY <1>4, <1>5, <1>6, Zenon
<1>8. QED
  BY <1>1, <1>7, Zenon DEF ReadOK

\* The lists of the other transactions.
LEMMA ListedKept ==
    ASSUME TypeOK, TypeOK', NEW t \in Tx, Others(t), NEW u \in Tx, u # t, Listed(u),
           \A o \in Obj : main[o].bts <= main'[o].bts
    PROVE  Listed(u)'
<1>1. SameTx(u)
  BY Zenon DEF Others
<1>2. \A o \in Obj : Pending(u, o)' <=> Pending(u, o)
  BY <1>1, Zenon DEF SameTx, Pending
<1>3. \A o \in Obj : main[o].bts \in Nat /\ main'[o].bts \in Nat /\ xid[u] \in Nat
  BY SMTT(30) DEF TypeOK, Cell, Xid
<1>4. ASSUME NEW o \in Obj, xid[u] <= main[o].bts PROVE xid'[u] <= main'[o].bts
  <2>1. main[o].bts <= main'[o].bts /\ xid'[u] = xid[u]
    BY <1>1, Zenon DEF SameTx
  <2>2. QED
    BY <1>3, <1>4, <2>1, SMTT(30)
<1>5. (state[u] \in {"idle", "begun"} => \A o \in Obj : wrote[u][o] = "none")'
  BY <1>1, Zenon DEF SameTx, Listed
<1>6. (state[u] \in Open \cup {"idle", "begun"} =>
          /\ Once(rships[u]) /\ Once(nodes[u])
          /\ Elems(rships[u]) = {o \in Rship : wrote[u][o] # "none"}
          /\ Elems(nodes[u]) = {o \in Obj \ Rship : wrote[u][o] # "none"})'
  BY <1>1, Zenon DEF SameTx, Listed
<1>7. (state[u] \in Ending => Once(todo[u]) /\ \A o \in Elems(todo[u]) : wrote[u][o] # "none")'
  BY <1>1, Zenon DEF SameTx, Listed
<1>8. (state[u] \in Decided =>
          \A o \in Obj : wrote[u][o] # "none" /\ ~ Pending(u, o) => xid[u] <= main[o].bts)'
  <2>1. SUFFICES ASSUME state'[u] \in Decided, NEW o \in Obj, wrote'[u][o] # "none", ~ Pending(u, o)'
                 PROVE  xid'[u] <= main'[o].bts
    BY Zenon
  <2>2. state[u] \in Decided /\ wrote[u][o] # "none" /\ ~ Pending(u, o)
    BY <1>1, <1>2, <2>1, Zenon DEF SameTx
  <2>3. QED
    BY <1>4, <2>2, Zenon DEF Listed
<1>9. QED
  BY <1>5, <1>6, <1>7, <1>8, Zenon DEF Listed

\* Every running transaction keeps its version when none is removed.
LEMMA CoveredKept ==
    ASSUME Plain, Covered, NEW t \in Tx, Others(t), xid'[t] = xid[t],
           state'[t] \in Running \cup {"begun"} => state[t] \in Running \cup {"begun"},
           \A o \in app.obj : /\ main'[o].bts = main[o].bts
                              /\ \A v \in vers[o] : v.lock = 0 => v \in vers'[o]
    PROVE  Covered'
<1>1. SUFFICES ASSUME NEW u \in Tx, NEW o \in app.obj, state'[u] \in Running \cup {"begun"}
               PROVE  CoveredFor(o, xid[u])'
  BY Zenon DEF Covered, Others
<1>2. state[u] \in Running \cup {"begun"} /\ xid'[u] = xid[u]
  BY <1>1, Zenon DEF Others, SameTx
<1>3. CoveredFor(o, xid[u])
  BY <1>2, Zenon DEF Covered
<1>4. QED
  BY <1>2, <1>3, Zenon DEF CoveredFor

\* What there is to show of a step of t.
LEMMA StepShape ==
    ASSUME SerialInv, NEW t \in Tx, Others(t), TypeOK', OldestInv',
           reads[t] = {} \/ xid'[t] = xid[t],
           \A o \in Obj : wrote'[t][o] \in {"none", "update"} /\ (wrote'[t][o] # "none" => o \in app.obj),
           \A o \in app.obj : ObjectOK(o)' /\ Forward(o),
           \A o \in Obj \ app.obj : main'[o] = main[o],
           Covered', state'[t] # "idle",
           \A r \in reads'[t] : r \in reads[t] \/ ReadOK(t, r)',
           Listed(t)', state'[t] \in {"checked", "locked"} => Calling(t)'
    PROVE  SerialInv'
<1>1. Plain'
  <2>1. \A u \in Tx, o \in Obj :
           wrote'[u][o] \in {"none", "update"} /\ (wrote'[u][o] # "none" => o \in app.obj)
    BY SMTT(30) DEF SerialInv, Plain, Others, SameTx
  <2>2. \A u \in Tx : u # t => state'[u] \notin Guarded
    BY Zenon DEF Others, SameTx
  <2>3. QED
    BY <2>1, <2>2, Zenon DEF SerialInv, Plain, Others
<1>2. app' = app /\ app.obj \subseteq Obj /\ TypeOK /\ ReadsOK
  BY Zenon DEF SerialInv, Plain, Others
<1>3. \A o \in app'.obj : ObjectOK(o)'
  BY <1>2, Zenon
<1>4. ReadsOK'
  <2>1. ASSUME NEW u \in Tx, NEW r \in reads'[u] PROVE ReadOK(u, r)'
    <3>1. CASE r \in reads[u]
      <4>1. ReadOK(u, r) /\ xid'[u] = xid[u]
        BY <1>2, <3>1, Zenon DEF ReadsOK, Others, SameTx
      <4>2. Forward(r[1])
        BY <4>1, Zenon DEF ReadOK
      <4>3. QED
        BY <1>2, <4>1, <4>2, ReadKept, Zenon
    <3>2. CASE r \notin reads[u]
      <4>1. u = t
        BY <2>1, <3>2, Zenon DEF Others, SameTx
      <4>2. QED
        BY <2>1, <3>2, <4>1, Zenon
    <3>3. QED
      BY <3>1, <3>2, Zenon
  <2>2. ASSUME NEW u \in Tx, state'[u] = "idle" PROVE reads'[u] = {}
    BY <1>2, <2>2, Zenon DEF ReadsOK, Others, SameTx
  <2>3. QED
    BY <2>1, <2>2, Zenon DEF ReadsOK
<1>5. \A o \in Obj : main[o].bts <= main'[o].bts
  <2>1. \A o \in Obj : main[o].bts \in Nat
    BY <1>2, CellNats, Zenon DEF TypeOK
  <2>2. QED
    BY <2>1, SMTT(30) DEF Forward
<1>6. ASSUME NEW u \in Tx PROVE Listed(u)'
  <2>1. CASE u = t
    BY <2>1, Zenon
  <2>2. CASE u # t
    BY <1>2, <1>5, <2>2, ListedKept, Zenon DEF SerialInv
  <2>3. QED
    BY <2>1, <2>2, Zenon
<1>7. ASSUME NEW u \in Tx, state'[u] \in {"checked", "locked"} PROVE Calling(u)'
  <2>1. u = t
    BY <1>7, Zenon DEF Others, SameTx, Guarded
  <2>2. QED
    BY <1>7, <2>1, Zenon
<1>8. QED
  BY <1>1, <1>3, <1>4, <1>6, <1>7, Zenon DEF SerialInv

-----------------------------------------------------------------------------
\* A step that begins outside the calls of other transactions.
LEMMA AtAlone ==
    ASSUME Plain, NEW t \in Tx, NEW s, At(t, s)
    PROVE  state[t] = s /\ \A u \in Tx \ {t} : state[u] \notin Guarded
BY Zenon DEF Plain, At

\* begin_transaction: the new timestamp is above all that have been committed.
LEMMA SerialBegin ==
    ASSUME SerialInv, OldestInv', NEW t \in Tx, begin_transaction(t), app' = app
    PROVE  SerialInv'
<1>1. TypeOK /\ OldestInv /\ Plain /\ Covered /\ ReadsOK /\ \A o \in app.obj : ObjectOK(o)
  BY Zenon DEF SerialInv
<1>2. /\ state[t] = "idle" /\ clock < MaxXid /\ clock' = clock + 1
      /\ xid' = [xid EXCEPT ![t] = clock + 1] /\ state' = [state EXCEPT ![t] = "begun"]
      /\ UNCHANGED <<app, used, main, vers, call, nodes, rships, todo, active, oldest, garbage, wrote, reads>>
      /\ \A u \in Tx \ {t} : state[u] \notin Guarded
  BY <1>1, AtAlone, Zenon DEF begin_transaction, table, history
<1>3. state \in [Tx -> State] /\ xid \in [Tx -> Xid] /\ clock \in Xid /\ MaxXid \in Nat
  BY <1>1, MvtoAssumption, Zenon DEF TypeOK
<1>4. TypeOK'
  <2>1. clock + 1 \in Xid
    BY <1>2, <1>3, SMTT(30) DEF Xid
  <2>2. state' \in [Tx -> State] /\ xid' \in [Tx -> Xid] /\ clock' \in Xid
    BY <1>2, <1>3, <2>1, Zenon DEF State
  <2>3. QED
    BY <1>1, <1>2, <2>2, Zenon DEF TypeOK
<1>5. Others(t)
  BY <1>2, <1>3, Zenon DEF Others, SameTx
<1>6. state'[t] = "begun" /\ xid'[t] = clock + 1
  BY <1>2, <1>3, Zenon
<1>7. ASSUME NEW o \in app.obj
      PROVE  Still(o) /\ Dates(o)' = Dates(o) /\ ObjectOK(o)' /\ Forward(o)
  <2>1. o \in Obj /\ Still(o)
    BY <1>1, <1>2, SameStill, Zenon DEF Plain
  <2>2. Dates(o)' = Dates(o)
    BY <1>2, <1>5, <1>6, DatesSame, Zenon DEF Decided
  <2>3. ~ Pending(t, o) /\ ~ Pending(t, o)' /\ ~ Locking(t, o)
    BY <1>2, <1>6, Zenon DEF Pending, Locking, Open, Ending
  <2>4. QED
    BY <1>1, <1>5, <2>1, <2>2, <2>3, ObjectStill, StillForward, Zenon
<1>8. Covered'
  <2>1. ASSUME NEW u \in Tx, NEW o \in app.obj, state'[u] \in Running \cup {"begun"}
        PROVE  CoveredFor(o, xid[u])'
    <3>1. CASE u = t
      <4>1. main[o].bts \in Dates(o) \cup {0}
        BY <1>1, Zenon DEF ObjectOK, Shape, RecordOf
      <4>2. main[o].bts <= clock
        <5>1. \A d \in Dates(o) : d <= clock
          BY <1>1, Zenon DEF Dates, OldestInv, Clocked
        <5>2. clock \in Nat
          BY <1>3, XidNats, Zenon
        <5>3. 0 <= clock
          BY <5>2
        <5>4. QED
          BY <4>1, <5>1, <5>3, Zenon
      <4>3. main[o].bts \in Nat
        BY <1>1, CellNats, Zenon DEF TypeOK, Plain
      <4>4. main'[o].bts <= xid'[u]
        BY <1>2, <1>3, <1>6, <3>1, <4>2, <4>3, SMTT(30) DEF Xid
      <4>5. QED
        BY <4>4, Zenon DEF CoveredFor
    <3>2. CASE u # t
      <4>1. state[u] \in Running \cup {"begun"} /\ xid'[u] = xid[u]
        BY <1>5, <2>1, <3>2, Zenon DEF Others, SameTx
      <4>2. CoveredFor(o, xid[u])
        BY <1>1, <4>1, Zenon DEF Covered
      <4>3. QED
        BY <1>2, <4>1, <4>2, Zenon DEF CoveredFor
    <3>3. QED
      BY <3>1, <3>2, Zenon
  <2>2. QED
    BY <1>2, <2>1, Zenon DEF Covered
<1>9. Listed(t)'
  <2>1. Listed(t)
    BY Zenon DEF SerialInv
  <2>2. QED
    BY <1>2, <1>6, <2>1, Zenon DEF Listed, Open, Ending, Decided
<1>10. reads[t] = {} /\ \A o \in Obj : wrote'[t][o] \in {"none", "update"} /\ (wrote'[t][o] # "none" => o \in app.obj)
  BY <1>1, <1>2, Zenon DEF ReadsOK, Plain
<1>11. QED
  BY <1>2, <1>4, <1>5, <1>6, <1>7, <1>8, <1>9, <1>10, StepShape, Zenon

\* The steps that change only the state of t, from one in which it may hold
\* locks to another one: begin_transaction enters active_tx_, a call fails, and
\* vacuum at the end of a transaction, which finds nothing to remove.
LEMMA SerialMove ==
    ASSUME SerialInv, TypeOK', OldestInv', NEW t \in Tx, NEW s, state' = [state EXCEPT ![t] = s],
           \A u \in Tx \ {t} : state[u] \notin Guarded,
           UNCHANGED <<app, used, main, vers, xid, call, nodes, rships, todo, garbage, wrote, reads>>,
           \/ state[t] = "begun" /\ s = "active"
           \/ state[t] = "committing" /\ s = "committed" /\ todo[t] = <<>>
           \/ state[t] = "aborting" /\ s = "aborted" /\ todo[t] = <<>>
    PROVE  SerialInv'
<1>1. TypeOK /\ OldestInv /\ Plain /\ Covered /\ ReadsOK /\ \A o \in app.obj : ObjectOK(o)
  BY Zenon DEF SerialInv
<1>2. Others(t) /\ state'[t] = s
  BY <1>1, Zenon DEF Others, SameTx, TypeOK
<1>3. \A o \in Obj : Pending(t, o)' <=> Pending(t, o)
  <2>1. Listed(t)
    BY Zenon DEF SerialInv
  <2>2. Elems(<<>>) = {}
    BY SMTT(30) DEF Elems
  <2>3. CASE state[t] = "begun" /\ s = "active"
    BY <1>2, <2>1, <2>3, Zenon DEF Pending, Listed, Open, Ending
  <2>4. CASE state[t] # "begun"
    BY <1>2, <2>2, <2>4, Zenon DEF Pending, Open, Ending
  <2>5. QED
    BY <2>3, <2>4, Zenon
<1>4. ASSUME NEW o \in app.obj
      PROVE  ObjectOK(o)' /\ Forward(o)
  <2>1. o \in Obj /\ Still(o)
    BY <1>1, SameStill, Zenon DEF Plain
  <2>2. Dates(o)' = Dates(o)
    BY <1>2, DatesSame, Zenon DEF Decided
  <2>3. ~ Locking(t, o)
    BY Zenon DEF Locking
  <2>4. QED
    BY <1>1, <1>2, <1>3, <2>1, <2>2, <2>3, ObjectStill, StillForward, Zenon
<1>5. Covered'
  <2>1. state'[t] \in Running \cup {"begun"} => state[t] \in Running \cup {"begun"}
    BY <1>2, Zenon DEF Running
  <2>2. QED
    BY <1>1, <1>2, <2>1, CoveredKept, Zenon
<1>6. Listed(t)'
  <2>1. Listed(t)
    BY Zenon DEF SerialInv
  <2>2. QED
    BY <1>2, <1>3, <2>1, Zenon DEF Listed, Open, Ending, Decided
<1>7. \A o \in Obj : wrote'[t][o] \in {"none", "update"} /\ (wrote'[t][o] # "none" => o \in app.obj)
  BY <1>1, Zenon DEF Plain
<1>8. QED
  BY <1>1, <1>2, <1>4, <1>5, <1>6, <1>7, StepShape, Zenon

\* What node_by_id gives an active transaction: the record, its own version,
\* an older version, or transaction_abort. unknown_id does not happen.
LEMMA ByIdCases ==
    ASSUME SerialInv, NEW t \in Tx, state[t] = "active",
           \A u \in Tx \ {t} : state[u] \notin Guarded, NEW o \in app.obj
    PROVE  LET x == xid[t]
               r == by_id(o, x)
           IN  \/ r = [exc |-> "none", ref |-> 0] /\ main[o].lock = 0 /\ main[o].bts <= x
               \/ /\ wrote[t][o] # "none" /\ main[o].lock = x
                  /\ \E n \in vers[o] : /\ OwnOf(n, main[o], vers[o])
                                        /\ r = [exc |-> "none", ref |-> n.pos]
               \/ /\ find_valid_version(vers[o], x) = r
                  /\ \E v \in vers[o] : /\ v.lock = 0 /\ v.bts <= x /\ x < v.cts
                                        /\ r = [exc |-> "none", ref |-> v.pos]
               \/ r = [exc |-> "transaction_abort", ref |-> 0]
<1>1. /\ TypeOK /\ OldestInv /\ ObjectOK(o) /\ Shape(main[o], vers[o], Dates(o))
      /\ o \in Obj /\ o \in used
  BY Zenon DEF SerialInv, Plain, ObjectOK
<1>2. PICK x \in Xid : x = xid[t]
  BY <1>1, Zenon DEF TypeOK
<1>3. x # 0
  BY <1>1, <1>2, NotDated, Zenon DEF Decided
<1>4. PICK m \in Cell : m = main[o]
  BY <1>1, Zenon DEF TypeOK
<1>5. PICK V : V = vers[o]
  BY Zenon
<1>6. by_id(o, x) = get_valid_version(m, V, x)
  BY <1>1, <1>4, <1>5, Zenon DEF by_id
<1>7. m.lock # 0 => \E u \in Tx : xid[u] = m.lock /\ Pending(u, o) /\ Owned(m, V)
  <2>1. SUFFICES ASSUME m.lock # 0 PROVE \E u \in Tx : xid[u] = m.lock /\ Pending(u, o) /\ Owned(m, V)
    BY Zenon
  <2>2. PICK u \in Tx : xid[u] = m.lock /\ ((Pending(u, o) /\ Owned(m, V)) \/ Locking(u, o))
    BY <1>1, <1>4, <1>5, <2>1, Zenon DEF ObjectOK
  <2>3. ~ Locking(u, o)
    BY Zenon DEF Locking, Guarded
  <2>4. QED
    BY <2>2, <2>3, Zenon
<1>8. CASE m.lock = x
  <2>1. PICK u \in Tx : xid[u] = x /\ Pending(u, o) /\ Owned(m, V)
    BY <1>3, <1>7, <1>8, Zenon
  <2>2. u = t
    BY <1>1, <1>2, <1>3, <2>1, Zenon DEF OldestInv, Unique
  <2>3. wrote[t][o] # "none"
    BY <2>1, <2>2, Zenon DEF Pending, Ending
  <2>4. PICK n \in V : OwnOf(n, m, V)
    BY <2>1, Zenon DEF Owned
  <2>5. by_id(o, x) = [exc |-> "none", ref |-> n.pos]
    BY <1>1, <1>3, <1>4, <1>5, <1>6, <1>8, <2>4, FindOwn, Zenon
  <2>6. QED
    BY <1>2, <1>4, <1>5, <1>8, <2>3, <2>4, <2>5, Zenon
<1>9. CASE m.lock = 0 /\ m.bts <= x
  <2>1. by_id(o, x) = [exc |-> "none", ref |-> 0]
    BY <1>1, <1>4, <1>5, <1>6, <1>9, FindRecord, Zenon
  <2>2. QED
    BY <1>2, <1>4, <1>9, <2>1, Zenon
<1>10. CASE m.lock # x /\ ~ (m.lock = 0 /\ m.bts <= x)
  <2>1. m.bts <= x \/ \E v \in V : v.lock = 0 /\ v.bts <= x /\ x < v.cts
    BY <1>2, <1>4, <1>5, Zenon DEF SerialInv, Covered, CoveredFor, Running
  <2>2. m.lock = 0 => m.bts > x /\ Clear(V)
    <3>1. m.bts \in Nat /\ x \in Nat
      BY CellNats, XidNats, Zenon
    <3>2. QED
      BY <1>1, <1>4, <1>5, <1>10, <3>1, NatOrder, Zenon DEF ObjectOK
  <2>3. m.lock # 0 => Owned(m, V)
    BY <1>7, Zenon
  <2>4. Shape(m, V, Dates(o))
    BY <1>1, <1>4, <1>5, Zenon
  <2>5. /\ get_valid_version(m, V, x) = find_valid_version(V, x)
        /\ \/ find_valid_version(V, x) = [exc |-> "transaction_abort", ref |-> 0]
           \/ \E v \in V : /\ v.lock = 0 /\ v.bts <= x /\ x < v.cts
                           /\ find_valid_version(V, x) = [exc |-> "none", ref |-> v.pos]
    BY <1>3, <1>10, <2>1, <2>2, <2>3, <2>4, FindOld, Zenon
  <2>6. QED
    BY <1>2, <1>5, <1>6, <2>5, Zenon
<1>11. QED
  BY <1>8, <1>9, <1>10, Zenon

\* A reference to a version of the list is to that version.
LEMMA CellFound ==
    ASSUME NEW o, Positioned(vers[o]), NEW v \in vers[o]
    PROVE  v.pos # 0 /\ CellAt(o, v.pos) = v
BY SMTT(30) DEF Positioned, CellAt, Cell

\* set_rts touches the record only.
LEMMA RtsStill ==
    ASSUME TypeOK, Plain, NEW x \in Xid, NEW o \in app.obj, main' = set_rts(o, x), vers' = vers
    PROVE  /\ main' \in [Obj -> Cell] /\ \A p \in Obj : Still(p)
           /\ x <= main'[o].rts /\ \A p \in Obj \ {o} : main'[p] = main[p]
           /\ main[o].rts <= x => main'[o].rts = x
           /\ set_rts(o, x)[o] = main'[o]
<1>1. o \in Obj /\ o \in used
  BY Zenon DEF Plain
<1>2. PICK m \in Cell : m = main[o]
  BY <1>1, Zenon DEF TypeOK
<1>3. m.rts \in 0 .. MaxXid /\ x \in 0 .. MaxXid /\ MaxXid \in Nat
  BY MvtoAssumption, Zenon DEF Cell, Xid
<1>4. PICK r : r = IF m.rts < x THEN x ELSE m.rts
  BY Zenon
<1>5. r \in Xid /\ m.rts <= r /\ x <= r /\ (m.rts <= x => r = x)
  BY <1>3, <1>4, SMTT(30) DEF Xid
<1>6. main' = [main EXCEPT ![o] = [m EXCEPT !.rts = r]]
  BY <1>1, <1>2, <1>4, Zenon DEF set_rts
<1>7. [m EXCEPT !.rts = r] \in Cell /\ [m EXCEPT !.rts = r].rts = r
  BY <1>5, Zenon DEF Cell
<1>8. /\ main' \in [Obj -> Cell] /\ main'[o] = [m EXCEPT !.rts = r]
      /\ \A p \in Obj \ {o} : main'[p] = main[p]
  BY <1>1, <1>6, <1>7, Zenon DEF TypeOK
<1>9. ASSUME NEW p \in Obj PROVE Still(p)
  <2>1. CASE p = o
    BY <1>2, <1>5, <1>8, <2>1, Zenon DEF Still
  <2>2. CASE p # o
    BY <1>8, <2>2, SameStill, Zenon
  <2>3. QED
    BY <2>1, <2>2, Zenon
<1>10. QED
  BY <1>2, <1>5, <1>7, <1>8, <1>9, Zenon

\* What get_node_description tells a transaction that has not changed o is
\* what the transactions before it have left.
LEMMA DescribedRight ==
    ASSUME SerialInv, NEW t \in Tx, state[t] = "active",
           \A u \in Tx \ {t} : state[u] \notin Guarded, NEW o \in app.obj,
           wrote[t][o] = "none", Described(o, xid[t]).exc # "transaction_abort"
    PROVE  /\ Latest(Dates(o), xid[t] - 1, Described(o, xid[t]).val)
           /\ main[o].lock = 0 \/ xid[t] <= main[o].lock
           /\ Described(o, xid[t]).val \in Value
<1>1. TypeOK /\ OldestInv /\ ObjectOK(o) /\ Shape(main[o], vers[o], Dates(o)) /\ o \in Obj
  BY Zenon DEF SerialInv, Plain, ObjectOK
<1>2. PICK x \in Xid : x = xid[t]
  BY <1>1, Zenon DEF TypeOK
<1>3. x # 0 /\ x \notin Dates(o) /\ Dates(o) \subseteq Xid
  BY <1>1, <1>2, NotDated, DatesType, Zenon DEF Decided
<1>4. PICK r : r = by_id(o, x)
  BY Zenon
<1>5. \/ r = [exc |-> "none", ref |-> 0] /\ main[o].lock = 0 /\ main[o].bts <= x
      \/ /\ find_valid_version(vers[o], x) = r
         /\ \E v \in vers[o] : /\ v.lock = 0 /\ v.bts <= x /\ x < v.cts
                               /\ r = [exc |-> "none", ref |-> v.pos]
      \/ r = [exc |-> "transaction_abort", ref |-> 0]
  BY <1>2, <1>4, ByIdCases, Zenon
<1>6. CASE r = [exc |-> "none", ref |-> 0] /\ main[o].lock = 0 /\ main[o].bts <= x
  <2>1. main[o].cts = INF /\ main[o].val \in Value
    BY <1>1, Zenon DEF Shape, RecordOf, TypeOK, Cell
  <2>2. Described(o, x).val = main[o].val
    BY <1>4, <1>6, <2>1, SMTT(30) DEF Described
  <2>3. Latest(Dates(o), x - 1, main[o].val)
    BY <1>1, <1>3, <1>6, RecordLatest, Zenon
  <2>4. QED
    BY <1>2, <1>6, <2>1, <2>2, <2>3, Zenon
<1>7. CASE /\ find_valid_version(vers[o], x) = r
           /\ \E v \in vers[o] : /\ v.lock = 0 /\ v.bts <= x /\ x < v.cts
                                 /\ r = [exc |-> "none", ref |-> v.pos]
  <2>1. PICK v \in vers[o] : /\ v.lock = 0 /\ v.bts <= x /\ x < v.cts
                             /\ r = [exc |-> "none", ref |-> v.pos]
    BY <1>7, Zenon
  <2>2. v.pos # 0 /\ CellAt(o, v.pos) = v /\ v \in Cell
    BY <1>1, CellFound, Zenon DEF Shape, Positioned
  <2>3. Described(o, x).val = v.val
    BY <1>4, <1>7, <2>1, <2>2, SMTT(30) DEF Described, FoundValue
  <2>4. Latest(Dates(o), x - 1, v.val) /\ (main[o].lock = 0 \/ x <= main[o].lock)
    BY <1>1, <1>3, <2>1, OldLatest, Zenon
  <2>5. QED
    BY <1>2, <2>2, <2>3, <2>4, Zenon DEF Cell
<1>8. CASE r = [exc |-> "transaction_abort", ref |-> 0]
  BY <1>2, <1>4, <1>8, SMTT(30) DEF Described
<1>9. QED
  BY <1>5, <1>6, <1>7, <1>8, Zenon

\* The part that read and check_rts share: rts of the record goes up, and t
\* stays active, enters a call or fails.
LEMMA SerialCall ==
    ASSUME SerialInv, OldestInv', NEW t \in Tx, state[t] = "active",
           \A u \in Tx \ {t} : state[u] \notin Guarded, NEW o \in app.obj,
           main' = set_rts(o, xid[t]),
           Others(t), TypeOK', state'[t] \in {"active", "checked", "failed"},
           \A r \in reads'[t] : r \in reads[t] \/ /\ r[1] = o /\ Latest(Dates(o), xid[t] - 1, r[2])
                                                  /\ main[o].lock = 0 \/ xid[t] <= main[o].lock,
           state'[t] = "checked" => Calling(t)',
           UNCHANGED <<vers, xid, nodes, rships, todo, wrote>>
    PROVE  SerialInv'
<1>1. TypeOK /\ OldestInv /\ Plain /\ Covered /\ ReadsOK /\ \A p \in app.obj : ObjectOK(p)
  BY Zenon DEF SerialInv
<1>2. xid[t] \in Xid /\ o \in Obj
  BY <1>1, Zenon DEF TypeOK, Plain
<1>3. /\ main' \in [Obj -> Cell] /\ \A p \in Obj : Still(p)
      /\ xid[t] <= main'[o].rts /\ \A p \in Obj \ {o} : main'[p] = main[p]
  BY <1>1, <1>2, RtsStill, SMTT(30)
<1>6. \A p \in Obj : (Pending(t, p)' <=> Pending(t, p)) /\ ~ Locking(t, p)
  BY Zenon DEF Pending, Locking, Open, Ending
<1>7. ASSUME NEW p \in app.obj
      PROVE  ObjectOK(p)' /\ Forward(p) /\ Dates(p)' = Dates(p)
  <2>1. p \in Obj /\ Still(p)
    BY <1>1, <1>3, Zenon DEF Plain
  <2>2. Dates(p)' = Dates(p)
    BY DatesSame, Zenon DEF Decided
  <2>3. QED
    BY <1>1, <1>6, <2>1, <2>2, ObjectStill, StillForward, Zenon
<1>8. Covered'
  <2>1. \A p \in app.obj : main'[p].bts = main[p].bts
    BY <1>1, <1>3, StillFields, Zenon DEF Plain
  <2>2. state'[t] \in Running \cup {"begun"} => state[t] \in Running \cup {"begun"}
    BY Zenon DEF Running
  <2>3. QED
    BY <1>1, <2>1, <2>2, CoveredKept, Zenon
<1>9. ASSUME NEW r \in reads'[t] PROVE r \in reads[t] \/ ReadOK(t, r)'
  <2>1. SUFFICES ASSUME r \notin reads[t] PROVE ReadOK(t, r)'
    BY Zenon
  <2>2. r[1] = o /\ Latest(Dates(o), xid[t] - 1, r[2]) /\ (main[o].lock = 0 \/ xid[t] <= main[o].lock)
    BY <1>9, <2>1, Zenon
  <2>3. main'[o].lock = main[o].lock
    BY <1>1, <1>2, <1>3, StillFields, Zenon
  <2>4. Latest(Dates(o)', xid'[t] - 1, r[2])
    BY <1>7, <2>2, Zenon
  <2>5. QED
    BY <1>3, <2>2, <2>3, <2>4, Zenon DEF ReadOK, Others
<1>10. Listed(t)'
  <2>1. Listed(t)
    BY Zenon DEF SerialInv
  <2>2. QED
    BY <2>1, Zenon DEF Listed, Open, Ending, Decided
<1>11. \A p \in Obj : wrote'[t][p] \in {"none", "update"} /\ (wrote'[t][p] # "none" => p \in app.obj)
  BY <1>1, Zenon DEF Plain
<1>12. state'[t] # "idle" /\ \A p \in Obj \ app.obj : main'[p] = main[p]
  BY <1>3, Zenon
<1>13. QED
  BY <1>7, <1>8, <1>9, <1>10, <1>11, <1>12, StepShape, Zenon

\* get_node_description.
LEMMA SerialRead ==
    ASSUME SerialInv, OldestInv', NEW t \in Tx, NEW o \in app.obj, read(t, o), app' = app
    PROVE  SerialInv'
<1>1. TypeOK /\ Plain
  BY Zenon DEF SerialInv
<1>2. /\ state[t] = "active" /\ \A u \in Tx \ {t} : state[u] \notin Guarded
      /\ main' = set_rts(o, xid[t])
      /\ UNCHANGED <<app, used, vers, xid, call, nodes, rships, todo, clock, active, oldest, garbage, wrote>>
  BY <1>1, AtAlone, Zenon DEF read, shared
<1>3. PICK d : d = Described(o, xid[t])
  BY Zenon
<1>4. \/ /\ d.exc = "transaction_abort"
         /\ state' = [state EXCEPT ![t] = "failed"] /\ UNCHANGED reads
      \/ /\ d.exc # "transaction_abort"
         /\ Learn(t, o, d.val) /\ UNCHANGED state
  BY <1>3, Zenon DEF read
<1>5. xid[t] \in Xid /\ o \in Obj /\ main' \in [Obj -> Cell]
  <2>1. xid[t] \in Xid /\ o \in Obj
    BY <1>1, Zenon DEF TypeOK, Plain
  <2>2. QED
    BY <1>1, <1>2, <2>1, RtsStill, Zenon
<1>6. CASE d.exc = "transaction_abort" /\ state' = [state EXCEPT ![t] = "failed"] /\ UNCHANGED reads
  <2>1. Others(t) /\ state'[t] = "failed"
    BY <1>1, <1>2, <1>6, Zenon DEF Others, SameTx, TypeOK
  <2>2. TypeOK'
    BY <1>1, <1>2, <1>5, <1>6, Zenon DEF TypeOK, State
  <2>3. QED
    BY <1>2, <1>6, <2>1, <2>2, SerialCall, Zenon
<1>7. CASE d.exc # "transaction_abort" /\ Learn(t, o, d.val) /\ UNCHANGED state
  <2>1. CASE wrote[t][o] # "none"
    <3>1. reads' = reads
      BY <1>7, <2>1, Zenon DEF Learn
    <3>2. Others(t) /\ TypeOK'
      BY <1>1, <1>2, <1>5, <1>7, <3>1, Zenon DEF TypeOK, Others, SameTx
    <3>3. QED
      BY <1>2, <1>7, <3>1, <3>2, SerialCall, Zenon
  <2>2. CASE wrote[t][o] = "none"
    <3>1. reads' = [reads EXCEPT ![t] = @ \cup {<<o, d.val>>}]
      BY <1>7, <2>2, Zenon DEF Learn
    <3>2. /\ Latest(Dates(o), xid[t] - 1, d.val) /\ (main[o].lock = 0 \/ xid[t] <= main[o].lock)
          /\ d.val \in Value
      BY <1>2, <1>3, <1>7, <2>2, DescribedRight, Zenon
    <3>3. reads' \in [Tx -> SUBSET (Obj \X Value)] /\ reads'[t] = reads[t] \cup {<<o, d.val>>}
      <4>1. <<o, d.val>> \in Obj \X Value /\ reads \in [Tx -> SUBSET (Obj \X Value)]
        BY <1>1, <1>5, <3>2, Zenon DEF TypeOK
      <4>2. QED
        BY <1>1, <3>1, <4>1, SMTT(30)
    <3>4. TypeOK'
      BY <1>1, <1>2, <1>5, <1>7, <3>3, Zenon DEF TypeOK
    <3>5. Others(t)
      BY <1>1, <1>2, <1>7, <3>1, Zenon DEF TypeOK, Others, SameTx
    <3>6. \A r \in reads'[t] : r \in reads[t] \/ /\ r[1] = o /\ Latest(Dates(o), xid[t] - 1, r[2])
                                                 /\ main[o].lock = 0 \/ xid[t] <= main[o].lock
      <4>1. <<o, d.val>>[1] = o /\ <<o, d.val>>[2] = d.val
        BY PairParts, Zenon
      <4>2. \A r \in reads'[t] : r \in reads[t] \/ r = <<o, d.val>>
        BY <3>3, Zenon
      <4>3. QED
        BY <3>2, <4>1, <4>2, Zenon
    <3>7. QED
      BY <1>2, <1>7, <3>4, <3>5, <3>6, SerialCall, Zenon
  <2>3. QED
    BY <2>1, <2>2, Zenon
<1>8. QED
  BY <1>4, <1>6, <1>7, Zenon

\* The first part of update_node: an object whose rts is ahead is refused, so
\* that the transaction has its own version or the record.
LEMMA SerialCheck ==
    ASSUME SerialInv, OldestInv', NEW t \in Tx, NEW o \in app.obj, NEW op \in Writes,
           check_rts(t, o, op), app' = app
    PROVE  SerialInv'
<1>1. TypeOK /\ OldestInv /\ Plain /\ ObjectOK(o) /\ o \in Obj /\ xid[t] \in Xid
  BY Zenon DEF SerialInv, Plain, TypeOK
<1>2. op = "update" /\ op \in Operation
  BY <1>1, Zenon DEF check_rts, Plain, Writes, Operation
<1>3. PICK r : r = by_id(o, xid[t])
  BY Zenon
<1>4. PICK c : c = IF r.ref = 0 THEN main'[o] ELSE CellAt(o, r.ref)
  BY Zenon
<1>5. /\ state[t] = "active" /\ \A u \in Tx \ {t} : state[u] \notin Guarded
      /\ main' = set_rts(o, xid[t])
      /\ UNCHANGED <<app, used, vers, xid, nodes, rships, todo, clock, active, oldest, garbage, wrote>>
  BY <1>1, <1>2, AtAlone, Zenon DEF check_rts, shared
<1>6. /\ main' \in [Obj -> Cell] /\ Still(o) /\ xid[t] <= main'[o].rts
      /\ main[o].rts <= xid[t] => main'[o].rts = xid[t]
      /\ set_rts(o, xid[t])[o] = main'[o]
  BY <1>1, <1>5, RtsStill, SMTT(30)
<1>7. \/ /\ r.exc = "unknown_id"
         /\ Learn(t, o, Absent) /\ UNCHANGED <<state, call>>
      \/ /\ r.exc = "transaction_abort" \/ (r.exc = "none" /\ c.rts > xid[t])
         /\ state' = [state EXCEPT ![t] = "failed"] /\ UNCHANGED <<call, reads>>
      \/ /\ r.exc = "none" /\ c.rts <= xid[t]
         /\ Learn(t, o, c.val)
         /\ state' = [state EXCEPT ![t] = "checked"]
         /\ call' = [call EXCEPT ![t] = [op |-> op, obj |-> o, ref |-> r.ref]]
  BY <1>2, <1>3, <1>4, <1>6, Zenon DEF check_rts
<1>8. \/ r = [exc |-> "none", ref |-> 0] /\ main[o].lock = 0 /\ main[o].bts <= xid[t]
      \/ /\ wrote[t][o] # "none" /\ main[o].lock = xid[t]
         /\ \E n \in vers[o] : OwnOf(n, main[o], vers[o]) /\ r = [exc |-> "none", ref |-> n.pos]
      \/ \E v \in vers[o] : /\ v.lock = 0 /\ v.bts <= xid[t] /\ xid[t] < v.cts
                            /\ r = [exc |-> "none", ref |-> v.pos]
      \/ r = [exc |-> "transaction_abort", ref |-> 0]
  BY <1>3, <1>5, ByIdCases, Zenon
<1>10. Shape(main[o], vers[o], Dates(o)) /\ xid[t] # 0 /\ xid[t] \notin Dates(o) /\ Dates(o) \subseteq Xid
  BY <1>1, <1>5, NotDated, DatesType, Zenon DEF ObjectOK, Decided
<1>11. CASE state' = [state EXCEPT ![t] = "failed"] /\ UNCHANGED <<call, reads>>
  <2>1. Others(t) /\ state'[t] = "failed"
    BY <1>1, <1>5, <1>11, Zenon DEF Others, SameTx, TypeOK
  <2>2. TypeOK'
    BY <1>1, <1>5, <1>6, <1>11, Zenon DEF TypeOK, State
  <2>3. QED
    BY <1>5, <1>11, <2>1, <2>2, SerialCall, Zenon
<1>12. CASE /\ r.exc = "none" /\ c.rts <= xid[t]
            /\ Learn(t, o, c.val)
            /\ state' = [state EXCEPT ![t] = "checked"]
            /\ call' = [call EXCEPT ![t] = [op |-> op, obj |-> o, ref |-> r.ref]]
  <2>1. state'[t] = "checked" /\ call'[t] = [op |-> op, obj |-> o, ref |-> r.ref]
    BY <1>1, <1>12, Zenon DEF TypeOK
  <2>2. c.rts <= xid[t] /\ Learn(t, o, c.val)
    BY <1>12, Zenon
  <2>3. /\ xid[t] \in Nat /\ main[o].rts \in Nat /\ main'[o].rts \in Nat
        /\ main'[o].lock = main[o].lock /\ main'[o].bts = main[o].bts /\ main[o].rts <= main'[o].rts
    <3>1. /\ main[o].rts <= main'[o].rts /\ main'[o].lock = main[o].lock
          /\ main'[o].bts = main[o].bts
      BY <1>1, <1>6, StillFields, Zenon
    <3>2. main[o] \in Cell /\ main'[o] \in Cell
      BY <1>1, <1>6, Zenon DEF TypeOK
    <3>3. QED
      BY <1>1, <3>1, <3>2, CellNats, XidNats, Zenon
  <2>4. Others(t)
    BY <1>1, <1>5, <1>12, <2>2, Zenon DEF Others, SameTx, TypeOK, Learn
  <2>5. reads' \in [Tx -> SUBSET (Obj \X Value)] /\ r.ref \in Nat => TypeOK'
    <3>1. state' \in [Tx -> State]
      BY <1>1, <1>12, Zenon DEF TypeOK, State
    <3>2. r.ref \in Nat => call' \in [Tx -> [op : Operation, obj : Obj \cup {NoObj}, ref : Nat]]
      BY <1>1, <1>2, <1>12, Zenon DEF TypeOK
    <3>3. QED
      BY <1>1, <1>5, <1>6, <3>1, <3>2, Zenon DEF TypeOK
  <2>6. CASE r = [exc |-> "none", ref |-> 0] /\ main[o].lock = 0 /\ main[o].bts <= xid[t]
    <3>1. c = main'[o] /\ r.ref = 0
      BY <1>4, <2>6, Zenon
    <3>2. main'[o].rts = xid[t]
      <4>1. main'[o].rts <= xid[t]
        BY <2>2, <3>1, Zenon
      <4>2. main[o].rts <= xid[t]
        BY <2>3, <4>1, NatTrans, Zenon
      <4>3. QED
        BY <1>6, <4>2, Zenon
    <3>3. c.val = main[o].val
      <4>1. PICK q \in Xid : main'[o] = [main[o] EXCEPT !.rts = q]
        BY <1>6, Zenon DEF Still
      <4>2. main[o] \in Cell
        BY <1>1, Zenon DEF TypeOK
      <4>3. QED
        BY <3>1, <4>1, <4>2, Zenon DEF Cell
    <3>4. wrote[t][o] = "none"
      <4>1. Pending(t, o) => main[o].lock = xid[t]
        BY <1>1, Zenon DEF ObjectOK
      <4>2. QED
        BY <1>5, <1>10, <2>6, <4>1, Zenon DEF Pending, Open
    <3>5. reads' = [reads EXCEPT ![t] = @ \cup {<<o, main[o].val>>}]
      BY <2>2, <3>3, <3>4, Zenon DEF Learn
    <3>6. Latest(Dates(o), xid[t] - 1, main[o].val)
      BY <1>1, <1>10, <2>6, RecordLatest, Zenon
    <3>7. reads' \in [Tx -> SUBSET (Obj \X Value)] /\ reads'[t] = reads[t] \cup {<<o, main[o].val>>}
      <4>1. main[o].val \in Value
        BY <1>1, Zenon DEF TypeOK, Cell
      <4>2. QED
        BY <1>1, <3>5, <4>1, SMTT(30) DEF TypeOK
    <3>8. Calling(t)'
      <4>1. call'[t].op = "update" /\ call'[t].obj = o /\ call'[t].ref = 0
        BY <1>2, <2>1, <3>1, SMTT(30)
      <4>2. /\ (call[t].op = "update")' /\ (call[t].obj \in app.obj)' /\ (call[t].ref = 0)'
            /\ (main[call[t].obj].rts = xid[t])' /\ (main[call[t].obj].bts <= xid[t])'
            /\ (wrote[t][call[t].obj] = "none")' /\ (main[call[t].obj].lock = 0)'
        BY <1>5, <2>3, <2>6, <3>2, <3>4, <4>1, Zenon
      <4>3. QED
        BY <2>1, <4>2, Zenon DEF Calling
    <3>9. \A q \in reads'[t] : q \in reads[t] \/ /\ q[1] = o /\ Latest(Dates(o), xid[t] - 1, q[2])
                                                 /\ main[o].lock = 0 \/ xid[t] <= main[o].lock
      <4>1. <<o, main[o].val>>[1] = o /\ <<o, main[o].val>>[2] = main[o].val
        BY PairParts, Zenon
      <4>2. \A q \in reads'[t] : q \in reads[t] \/ q = <<o, main[o].val>>
        BY <3>7, Zenon
      <4>3. QED
        BY <2>6, <3>6, <4>1, <4>2, Zenon
    <3>10. TypeOK'
      <4>1. 0 \in Nat
        BY SMT
      <4>2. QED
        BY <2>5, <3>1, <3>7, <4>1, Zenon
    <3>11. QED
      BY <1>5, <2>1, <2>4, <3>8, <3>9, <3>10, SerialCall, Zenon
  <2>7. CASE /\ wrote[t][o] # "none" /\ main[o].lock = xid[t]
             /\ \E n \in vers[o] : OwnOf(n, main[o], vers[o]) /\ r = [exc |-> "none", ref |-> n.pos]
    <3>1. PICK n \in vers[o] : OwnOf(n, main[o], vers[o]) /\ r = [exc |-> "none", ref |-> n.pos]
      BY <2>7, Zenon
    <3>2. n.pos # 0 /\ n.pos \in Nat /\ r.ref = n.pos
      BY <1>10, <3>1, CellFound, Zenon DEF Shape, Positioned, Cell
    <3>3. reads' = reads
      BY <2>2, <2>7, Zenon DEF Learn
    <3>4. OwnOf(n, main'[o], vers'[o]) /\ n \in vers'[o]
      BY <1>5, <2>3, <3>1, Zenon DEF OwnOf
    <3>5. call'[t].op = "update" /\ call'[t].obj = o /\ call'[t].ref = n.pos
      BY <1>2, <2>1, <3>2, SMTT(30)
    <3>6. /\ (call[t].op = "update")' /\ (call[t].obj \in app.obj)' /\ (call[t].ref # 0)'
          /\ (wrote[t][call[t].obj] # "none")'
          /\ (\E k \in vers[call[t].obj] : /\ OwnOf(k, main[call[t].obj], vers[call[t].obj])
                                           /\ k.pos = call[t].ref)'
      BY <1>5, <2>7, <3>2, <3>4, <3>5, Zenon
    <3>7. Calling(t)'
      BY <3>6, Zenon DEF Calling
    <3>8. TypeOK'
      BY <1>1, <2>5, <3>2, <3>3, Zenon DEF TypeOK
    <3>9. QED
      BY <1>5, <2>1, <2>4, <3>3, <3>7, <3>8, SerialCall, Zenon
  <2>8. ASSUME NEW v \in vers[o], v.lock = 0, v.bts <= xid[t], xid[t] < v.cts,
               r = [exc |-> "none", ref |-> v.pos]
        PROVE  FALSE
    <3>1. c = v
      BY <1>4, <1>10, <2>8, CellFound, Zenon DEF Shape
    <3>2. xid[t] < v.rts
      BY <1>1, <1>10, <2>8, OldLatest, Zenon
    <3>3. v.rts \in Nat
      BY <1>10, SMTT(30) DEF Shape, Positioned, Cell, Xid
    <3>4. v.rts <= xid[t]
      BY <2>2, <3>1, Zenon
    <3>5. QED
      BY <2>3, <3>2, <3>3, <3>4, NatOrder, Zenon
  <2>9. r # [exc |-> "transaction_abort", ref |-> 0]
    BY <1>12, SMTT(30)
  <2>10. QED
    BY <1>8, <2>6, <2>7, <2>8, <2>9, Zenon
<1>13. r.exc # "unknown_id"
  BY <1>8, SMTT(30)
<1>14. QED
  BY <1>7, <1>11, <1>12, <1>13, Zenon
=============================================================================
