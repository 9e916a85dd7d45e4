--------------------------- MODULE RecoveryProofs ---------------------------
(***************************************************************************)
(* CheckpointCovers of Recovery for all constants. The argument: the LSN   *)
(* of a checkpoint is at most one larger than the LSN in the header of the *)
(* log file, from which a session starts to count, and the first record of *)
(* a session is a BOT record; so a data record of a later session is above *)
(* every checkpoint, although the LSNs in the log are not unique.          *)
(*                                                                         *)
(* And LogReplayed, which rests on it; the second half has its argument.   *)
(***************************************************************************)
EXTENDS Recovery, Minima, TLAPS

TxState == {"new", "active", "committing", "ended"}

LogType ==
    /\ mode \in Modes
    /\ log \in Seq(LogRecord) /\ header \in Nat /\ lsn \in Nat
    /\ state \in [Tx -> TxState]
    /\ todo \in [Tx -> Seq(Write)]

\* Where the LSN in memory is, relative to the one in the log file.
Counted ==
    /\ mode # "down" => header <= lsn
    /\ mode \in {"redo", "flush", "checkpoint"} => lsn = header
    /\ mode = "up" => \A t \in Tx : state[t] \in {"active", "committing"} => header < lsn
    /\ mode # "up" => \A t \in Tx : state[t] \in {"new", "ended"}

Behind == \A j \in Checkpoints : log[j].lsn <= header + 1

Positive == \A i \in DOMAIN log : 1 <= log[i].lsn

\* CheckpointCovers for every checkpoint of the log, not only the last one.
Covered ==
    \A i \in DOMAIN log, j \in Checkpoints :
        IsData(log[i]) /\ log[i].lsn <= log[j].lsn => \E k \in Checkpoints : i < k

LsnInv == LogType /\ Counted /\ Behind /\ Positive /\ Covered

\* The records after an append.
LEMMA AppendRecord ==
    ASSUME NEW s \in Seq(LogRecord), NEW r \in LogRecord
    PROVE  /\ Append(s, r) \in Seq(LogRecord)
           /\ DOMAIN s = 1 .. Len(s) /\ Len(s) \in Nat
           /\ DOMAIN Append(s, r) = 1 .. Len(s) + 1
           /\ \A i \in DOMAIN s : s[i] \in LogRecord /\ Append(s, r)[i] = s[i]
           /\ Append(s, r)[Len(s) + 1] = r
  BY SMTT(30)

\* An append that is not a checkpoint keeps the invariant about the log if the
\* LSN it gets is above the checkpoints, which matters for a data record.
LEMMA AppendStep ==
    ASSUME LsnInv, NEW kind, NEW t, NEW o, NEW v, append(kind, t, o, v),
           Entry(kind, t, o, v) \in LogRecord, kind # "chkpt",
           kind \in Data => header < lsn
    PROVE  /\ log' \in Seq(LogRecord) /\ header' = header /\ lsn' = lsn + 1
           /\ Behind' /\ Positive' /\ Covered'
<1> DEFINE r == Entry(kind, t, o, v)
<1>1. log' = Append(log, r) /\ lsn' = lsn + 1 /\ header' = header
  BY Zenon DEF append
<1>2. r.kind = kind /\ r.lsn = lsn + 1
  BY Zenon DEF Entry
<1>3. log \in Seq(LogRecord) /\ header \in Nat /\ lsn \in Nat
  BY Zenon DEF LsnInv, LogType
<1>4. r \in LogRecord
  BY Zenon
<1> HIDE DEF r
<1>5. /\ log' \in Seq(LogRecord)
      /\ DOMAIN log = 1 .. Len(log) /\ Len(log) \in Nat
      /\ DOMAIN log' = 1 .. Len(log) + 1
      /\ \A i \in DOMAIN log : log[i] \in LogRecord /\ log'[i] = log[i]
      /\ log'[Len(log) + 1] = r
  BY <1>1, <1>3, <1>4, AppendRecord, Zenon
<1>6. Checkpoints' = Checkpoints
  BY <1>5, <1>2, SMTT(30) DEF Checkpoints
<1>7. Behind'
  BY <1>6, <1>5, <1>1, Zenon DEF LsnInv, Behind, Checkpoints
<1>8. Positive'
  BY <1>5, <1>2, <1>3, SMTT(30) DEF LsnInv, Positive
<1>9. Covered'
  <2> SUFFICES ASSUME NEW i \in DOMAIN log', NEW j \in Checkpoints',
                      IsData(log'[i]), log'[i].lsn <= log'[j].lsn
               PROVE  \E k \in Checkpoints' : i < k
    BY Zenon DEF Covered, IsData
  <2>1. j \in Checkpoints /\ j \in DOMAIN log /\ log'[j] = log[j]
    BY <1>5, <1>6, Zenon DEF Checkpoints
  <2>2. CASE i \in DOMAIN log
    BY <2>1, <2>2, <1>5, <1>6, Zenon DEF LsnInv, Covered
  <2>3. CASE i = Len(log) + 1
    <3>1. kind \in Data /\ log'[i].lsn = lsn + 1
      BY <2>3, <1>5, <1>2, Zenon DEF IsData
    <3>2. log[j].lsn <= header + 1 /\ log[j].lsn \in Nat
      BY <2>1, <1>5, Zenon DEF LsnInv, Behind, LogRecord
    <3> QED BY <3>1, <3>2, <2>1, <1>3, SMTT(30)
  <2> QED BY <2>2, <2>3, <1>5, SMTT(30)
<1> QED BY <1>1, <1>5, <1>7, <1>8, <1>9, Zenon

\* A checkpoint is after everything that is in the log.
LEMMA CheckpointStep ==
    ASSUME RecoveryAssumption, LsnInv, checkpoint
    PROVE  LsnInv'
<1> DEFINE r == Entry("chkpt", NoTx, 0, Free)
<1>1. log' = Append(log, r) /\ lsn' = lsn + 1 /\ header' = header /\ mode' = "logclose" /\ lsn = header
  BY Zenon DEF checkpoint, append_tx, append, LsnInv, Counted
<1>2. r.kind = "chkpt" /\ r.lsn = lsn + 1
  BY Zenon DEF Entry
<1>3. log \in Seq(LogRecord) /\ header \in Nat /\ lsn \in Nat
  BY Zenon DEF LsnInv, LogType
<1>4. r \in LogRecord
  BY <1>3, SMTT(30) DEF Entry, LogRecord, Label
<1> HIDE DEF r
<1>5. /\ log' \in Seq(LogRecord)
      /\ DOMAIN log = 1 .. Len(log) /\ Len(log) \in Nat
      /\ DOMAIN log' = 1 .. Len(log) + 1
      /\ \A i \in DOMAIN log : log[i] \in LogRecord /\ log'[i] = log[i]
      /\ log'[Len(log) + 1] = r
  BY <1>1, <1>3, <1>4, AppendRecord, Zenon
<1>6. Len(log) + 1 \in Checkpoints' /\ \A j \in Checkpoints' : j \in Checkpoints \/ j = Len(log) + 1
  BY <1>5, <1>2, SMTT(30) DEF Checkpoints
<1>7. LogType' /\ Counted'
  BY <1>1, <1>3, <1>5, SMTT(30) DEF checkpoint, txs, LsnInv, LogType, Counted, Modes
<1>8. Behind'
  BY <1>6, <1>5, <1>2, <1>1, <1>3, SMTT(30) DEF LsnInv, Behind, Checkpoints
<1>9. Positive'
  BY <1>5, <1>2, <1>3, SMTT(30) DEF LsnInv, Positive
<1>10. Covered'
  <2> SUFFICES ASSUME NEW i \in DOMAIN log', NEW j \in Checkpoints',
                      IsData(log'[i]), log'[i].lsn <= log'[j].lsn
               PROVE  i < Len(log) + 1
    BY <1>6, Zenon DEF Covered, IsData
  <2>1. i # Len(log) + 1
    BY <1>5, <1>2, Zenon DEF IsData, Data
  <2> QED BY <2>1, <1>5, SMTT(30)
<1> QED BY <1>7, <1>8, <1>9, <1>10, Zenon DEF LsnInv

\* The records of a transaction.
LEMMA TransactionSteps ==
    ASSUME RecoveryAssumption, LsnInv, NEW t \in Tx,
           \/ begin_transaction(t) \/ commit_dirty_node(t)
           \/ commit_end(t) \/ abort_transaction(t)
    PROVE  LsnInv'
<1>1. LogType /\ mode = "up" /\ header <= lsn /\ header \in Nat /\ lsn \in Nat
  BY Zenon DEF LsnInv, LogType, Counted, begin_transaction, commit_dirty_node, commit_end, abort_transaction
<1>2. ASSUME NEW kind \in {"bot", "commit", "abort"}
      PROVE  Entry(kind, t, 0, Free) \in LogRecord /\ kind # "chkpt" /\ kind \notin Data
  BY <1>1, SMTT(30) DEF Entry, LogRecord, Label, Data
<1>3. CASE begin_transaction(t)
  <2>1. append("bot", t, 0, Free) /\ mode' = "up" /\ todo' = todo
        /\ state' = [state EXCEPT ![t] = "active"]
    BY <1>1, <1>3, Zenon DEF begin_transaction, append_tx
  <2>2. log' \in Seq(LogRecord) /\ header' = header /\ lsn' = lsn + 1 /\ Behind' /\ Positive' /\ Covered'
    BY <2>1, <1>2, AppendStep, Zenon
  <2>3. LogType' /\ Counted'
    BY <2>1, <2>2, <1>1, SMTT(30) DEF LogType, Counted, TxState
  <2> QED BY <2>2, <2>3, Zenon DEF LsnInv
<1>4. CASE commit_end(t)
  <2>1. append("commit", t, 0, Free) /\ mode' = "up" /\ todo' = todo
        /\ state' = [state EXCEPT ![t] = "ended"]
    BY <1>1, <1>4, Zenon DEF commit_end, append_tx
  <2>2. log' \in Seq(LogRecord) /\ header' = header /\ lsn' = lsn + 1 /\ Behind' /\ Positive' /\ Covered'
    BY <2>1, <1>2, AppendStep, Zenon
  <2>3. LogType' /\ Counted'
    BY <2>1, <2>2, <1>1, SMTT(30) DEF LogType, Counted, TxState
  <2> QED BY <2>2, <2>3, Zenon DEF LsnInv
<1>5. CASE abort_transaction(t)
  <2>1. append("abort", t, 0, Free) /\ mode' = "up" /\ todo' = [todo EXCEPT ![t] = <<>>]
        /\ state' = [state EXCEPT ![t] = "ended"]
    BY <1>1, <1>5, Zenon DEF abort_transaction, append_tx
  <2>2. log' \in Seq(LogRecord) /\ header' = header /\ lsn' = lsn + 1 /\ Behind' /\ Positive' /\ Covered'
    BY <2>1, <1>2, AppendStep, Zenon
  <2>3. LogType' /\ Counted'
    BY <2>1, <2>2, <1>1, SMTT(30) DEF LogType, Counted, TxState
  <2> QED BY <2>2, <2>3, Zenon DEF LsnInv
<1>6. CASE commit_dirty_node(t)
  <2> DEFINE w == Head(todo[t])
  <2>1. append(w.op, t, w.oid, w.val) /\ mode' = "up" /\ state' = state
        /\ todo' = [todo EXCEPT ![t] = Tail(@)] /\ todo[t] # <<>> /\ state[t] = "committing"
    BY <1>1, <1>6, Zenon DEF commit_dirty_node
  <2>2. w \in Write /\ Tail(todo[t]) \in Seq(Write)
    BY <2>1, <1>1, SMTT(30) DEF LogType
  <2> HIDE DEF w
  <2>3. Entry(w.op, t, w.oid, w.val) \in LogRecord /\ w.op # "chkpt"
    <3>1. w.op \in Data /\ w.oid \in Nat /\ w.val \in Label
      BY <2>2, SMTT(30) DEF Write, Oid
    <3> QED BY <3>1, <1>1, SMTT(30) DEF Entry, LogRecord, Data
  <2>4. header < lsn
    BY <2>1, <1>1, Zenon DEF LsnInv, Counted
  <2>5. log' \in Seq(LogRecord) /\ header' = header /\ lsn' = lsn + 1 /\ Behind' /\ Positive' /\ Covered'
    BY <2>1, <2>3, <2>4, AppendStep, Zenon
  <2>6. LogType' /\ Counted'
    BY <2>1, <2>2, <2>4, <2>5, <1>1, SMTT(30) DEF LogType, Counted
  <2> QED BY <2>5, <2>6, Zenon DEF LsnInv
<1> QED BY <1>3, <1>4, <1>5, <1>6, Zenon

\* Steps that leave the log alone only have to keep the order of the LSNs.
LEMMA SameLog ==
    ASSUME LsnInv, log' = log, header' \in Nat, header <= header'
    PROVE  Behind' /\ Positive' /\ Covered'
<1>1. Checkpoints' = Checkpoints /\ log \in Seq(LogRecord) /\ header \in Nat
  BY Zenon DEF Checkpoints, LsnInv, LogType
<1>2. \A j \in Checkpoints : log[j].lsn \in Nat /\ log[j].lsn <= header + 1
  <2>1. \A j \in Checkpoints : log[j] \in LogRecord
    BY <1>1, SMTT(30) DEF Checkpoints
  <2>2. \A r \in LogRecord : r.lsn \in Nat
    BY Zenon DEF LogRecord
  <2> QED BY <2>1, <2>2, Zenon DEF LsnInv, Behind
<1>3. Behind'
  BY <1>1, <1>2, SMTT(30) DEF Behind
<1>4. Positive'
  BY Zenon DEF LsnInv, Positive
<1>5. Covered'
  BY <1>1, Zenon DEF LsnInv, Covered, IsData
<1> QED BY <1>3, <1>4, <1>5, Zenon

\* The other steps of a session.
LEMMA SessionSteps ==
    ASSUME RecoveryAssumption, LsnInv, NEW t \in Tx,
           \/ commit_transaction(t)
           \/ \E o \in Oid, v \in Values : add_node(t, o, v) \/ change_node(t, "update", o, v)
           \/ \E o \in Oid : change_node(t, "delete", o, Free)
    PROVE  LsnInv'
<1>1. LogType /\ Counted
  BY Zenon DEF LsnInv
<1>2. mode = "up" /\ mode' = "up" /\ logs' = logs /\ t \in Active
  BY Zenon DEF commit_transaction, add_node, change_node
<1>3. log' = log /\ header' = header /\ lsn' = lsn
  BY <1>2, Zenon DEF logs
<1>4. Behind' /\ Positive' /\ Covered'
  BY <1>1, <1>3, SameLog, SMTT(30) DEF LogType
<1>5. CASE commit_transaction(t)
  <2>1. state' = [state EXCEPT ![t] = "committing"] /\ todo' = todo /\ state[t] = "active"
    BY <1>2, <1>5, Zenon DEF commit_transaction, Active
  <2>2. LogType' /\ Counted'
    BY <2>1, <1>1, <1>2, <1>3, Zenon DEF LogType, Counted, TxState
  <2> QED BY <2>2, <1>4, Zenon DEF LsnInv
<1>6. ASSUME NEW op \in Data, NEW o \in Oid, NEW v \in Values \cup {Free},
             state' = state, Pending(t, op, o, v)
      PROVE  LsnInv'
  <2>1. [op |-> op, oid |-> o, val |-> v] \in Write
    BY Zenon DEF Write, Label
  <2>2. Append(todo[t], [op |-> op, oid |-> o, val |-> v]) \in Seq(Write)
    BY <2>1, <1>1, SMTT(30) DEF LogType
  <2>3. todo' \in [Tx -> Seq(Write)]
    BY <2>2, <1>1, <1>6, Zenon DEF Pending, LogType
  <2>4. LogType' /\ Counted'
    BY <2>3, <1>1, <1>2, <1>3, <1>6, Zenon DEF LogType, Counted
  <2> QED BY <2>4, <1>4, Zenon DEF LsnInv
<1>7. CASE \E o \in Oid, v \in Values : add_node(t, o, v) \/ change_node(t, "update", o, v)
  <2>1. PICK o \in Oid, v \in Values : add_node(t, o, v) \/ change_node(t, "update", o, v)
    BY <1>7, Zenon
  <2>2. CASE add_node(t, o, v)
    <3>1. state' = state /\ Pending(t, "insert", o, v) /\ "insert" \in Data
      BY <2>2, Zenon DEF add_node, Data
    <3> QED BY <3>1, <1>6, Zenon
  <2>3. CASE change_node(t, "update", o, v)
    <3>1. state' = state /\ Pending(t, "update", o, v) /\ "update" \in Data
      BY <2>3, Zenon DEF change_node, Data
    <3> QED BY <3>1, <1>6, Zenon
  <2> QED BY <2>1, <2>2, <2>3, Zenon
<1>8. CASE \E o \in Oid : change_node(t, "delete", o, Free)
  <2>1. PICK o \in Oid : change_node(t, "delete", o, Free)
    BY <1>8, Zenon
  <2>2. state' = state /\ Pending(t, "delete", o, Free) /\ "delete" \in Data
    BY <2>1, Zenon DEF change_node, Data
  <2> QED BY <2>2, <1>6, Zenon
<1> QED BY <1>5, <1>7, <1>8, Zenon

\* Recovery and the regular end, apart from the checkpoint and the truncation.
LEMMA ProcessSteps ==
    ASSUME LsnInv,
           \/ \E p \in Page : flush(p)
           \/ close \/ close_flushed \/ close_file \/ close_log
           \/ crash \/ open \/ redo_skip \/ redo \/ redo_repair \/ redo_throw \/ redo_end
           \/ redo_flushed \/ log_close
           \/ UNCHANGED vars
    PROVE  LsnInv'
<1>1. LogType /\ Counted
  BY Zenon DEF LsnInv
<1>2. log' = log
  BY Zenon DEF flush, close, close_flushed, close_file, close_log, crash, open, redo_skip, redo,
         redo_repair, redo_throw, redo_end, redo_flushed, log_close, logs, vars
<1>3. header' \in Nat /\ header <= header' /\ lsn' \in Nat /\ mode' \in Modes
  BY <1>1, SMTT(30) DEF flush, close, close_flushed, close_file, close_log, crash, open, redo_skip, redo,
         redo_repair, redo_throw, redo_end, redo_flushed, log_close, LoseMemory, logs, vars,
         LogType, Counted, Modes
<1>4. state' \in [Tx -> TxState] /\ todo' \in [Tx -> Seq(Write)]
  <2>1. CASE crash
    <3>1. <<>> \in Seq(Write)
      BY SMTT(30)
    <3>2. todo' \in [Tx -> Seq(Write)]
      BY <2>1, <3>1, Zenon DEF crash, LoseMemory
    <3>3. state' \in [Tx -> TxState]
      BY <2>1, <1>1, Zenon DEF crash, LogType, TxState
    <3> QED BY <3>2, <3>3, Zenon
  <2>2. CASE ~ crash
    <3>1. state' = state /\ todo' = todo
      BY <2>2, Zenon DEF flush, close, close_flushed, close_file, close_log, open, redo_skip, redo,
         redo_repair, redo_throw, redo_end, redo_flushed, log_close, txs, vars
    <3> QED BY <3>1, <1>1, Zenon DEF LogType
  <2> QED BY <2>1, <2>2, Zenon
<1>5. Counted'
  <2>1. CASE crash
    BY <2>1, <1>1, Zenon DEF crash, Counted, LogType, TxState
  <2>2. CASE log_close
    BY <2>2, <1>1, SMTT(30) DEF log_close, Counted, LogType, txs
  <2>3. CASE open
    BY <2>3, <1>1, SMTT(30) DEF open, Counted, LogType, txs
  <2>4. CASE close \/ close_flushed \/ close_file \/ close_log
    BY <2>4, <1>1, SMTT(30) DEF close, close_flushed, close_file, close_log, Counted, LogType, txs, logs
  <2>5. CASE redo_skip \/ redo \/ redo_repair \/ redo_throw
    BY <2>5, <1>1, Zenon DEF redo_skip, redo, redo_repair, redo_throw, Missing, Counted, LogType, txs, logs
  <2>6. CASE redo_end \/ redo_flushed \/ UNCHANGED vars \/ \E p \in Page : flush(p)
    BY <2>6, <1>1, Zenon DEF redo_end, redo_flushed, flush, Counted, LogType, txs, logs, vars
  <2> QED BY <2>1, <2>2, <2>3, <2>4, <2>5, <2>6, Zenon
<1>6. Behind' /\ Positive' /\ Covered'
  BY <1>2, <1>3, SameLog, Zenon
<1> QED BY <1>2, <1>3, <1>4, <1>5, <1>6, <1>1, Zenon DEF LsnInv, LogType

\* An empty log has nothing to cover.
LEMMA EmptyLog ==
    ASSUME LogType, log = <<>>
    PROVE  Behind /\ Positive /\ Covered
  BY SMTT(30) DEF Behind, Positive, Covered, Checkpoints

\* The truncation at the end of close_files.
LEMMA TruncateStep ==
    ASSUME LsnInv, truncate
    PROVE  LsnInv'
<1>1. log' = <<>> /\ header' = header /\ lsn' = 0 /\ mode' = "down" /\ state' = state
      /\ todo' = [t \in Tx |-> <<>>] /\ mode = "truncate"
  BY Zenon DEF truncate, LoseMemory
<1>2. todo' \in [Tx -> Seq(Write)] /\ log' \in Seq(LogRecord)
  BY <1>1, SMTT(30)
<1>3. LogType' /\ Counted'
  BY <1>1, <1>2, Zenon DEF LsnInv, LogType, Counted, Modes
<1>4. Behind' /\ Positive' /\ Covered'
  BY <1>1, SMTT(30) DEF Behind, Positive, Covered, Checkpoints
<1> QED BY <1>3, <1>4, Zenon DEF LsnInv

\* What recovery reads as max_lsn is the LSN of some checkpoint, or 0.
LEMMA MaxLsnIsOne ==
    ASSUME LsnInv, Checkpoints # {}
    PROVE  \E j \in Checkpoints : MaxLsn = log[j].lsn
<1>1. Len(log) \in Nat /\ \A x \in Checkpoints : x \in Nat /\ x <= Len(log)
  BY SMTT(30) DEF LsnInv, LogType, Checkpoints
<1>2. Max(Checkpoints) \in Checkpoints
  BY <1>1, MaxOfBounded, Zenon
<1> QED BY <1>2, Zenon DEF MaxLsn

\* The invariant about LSNs holds in every state.
LEMMA LsnInvariant == Spec => []LsnInv
<1>1. Init => LsnInv
  <2> SUFFICES ASSUME Init PROVE LsnInv
    BY Zenon
  <2>1. todo \in [Tx -> Seq(Write)] /\ log \in Seq(LogRecord) /\ log = <<>>
    BY SMTT(30) DEF Init
  <2>2. LogType /\ Counted
    BY <2>1, Zenon DEF Init, LogType, Counted, TxState, Modes
  <2> QED BY <2>1, <2>2, EmptyLog, Zenon DEF LsnInv
<1>2. LsnInv /\ [Next]_vars => LsnInv'
  <2> SUFFICES ASSUME LsnInv, [Next]_vars PROVE LsnInv'
    BY Zenon
  <2>1. ASSUME NEW t \in Tx,
               \/ begin_transaction(t) \/ commit_dirty_node(t)
               \/ commit_end(t) \/ abort_transaction(t)
        PROVE  LsnInv'
    BY <2>1, TransactionSteps, RecoveryAssumption, Zenon
  <2>2. ASSUME NEW t \in Tx,
               \/ commit_transaction(t)
               \/ \E o \in Oid, v \in Values : add_node(t, o, v) \/ change_node(t, "update", o, v)
               \/ \E o \in Oid : change_node(t, "delete", o, Free)
        PROVE  LsnInv'
    BY <2>2, SessionSteps, RecoveryAssumption, Zenon
  <2>3. CASE checkpoint
    BY <2>3, CheckpointStep, RecoveryAssumption, Zenon
  <2>4. CASE truncate
    BY <2>4, TruncateStep, Zenon
  <2> QED BY <2>1, <2>2, <2>3, <2>4, ProcessSteps, Zenon DEF Next
<1> QED BY <1>1, <1>2, PTL DEF Spec

\* A record is passed over because of its LSN only if it is before a checkpoint.
LEMMA PassedOver ==
    ASSUME LsnInv, NEW i \in DOMAIN log, IsData(log[i]), log[i].lsn <= MaxLsn
    PROVE  \E j \in Checkpoints : i < j
<1>1. 1 <= log[i].lsn /\ log[i].lsn \in Nat
  <2>1. log[i] \in LogRecord
    BY SMTT(30) DEF LsnInv, LogType
  <2>2. log[i].lsn \in Nat
    BY <2>1, Zenon DEF LogRecord
  <2> QED BY <2>2, Zenon DEF LsnInv, Positive
<1>2. Checkpoints # {}
  BY <1>1, SMTT(30) DEF MaxLsn
<1>3. PICK j \in Checkpoints : MaxLsn = log[j].lsn
  BY <1>2, MaxLsnIsOne, Zenon
<1> QED BY <1>3, Zenon DEF LsnInv, Covered

\* CheckpointCovers holds in every state, for all values of the constants: the
\* restart of the LSNs after a crash never makes recovery pass over a record
\* that is not before a checkpoint (wa_log::checkpoint, apply_log).
THEOREM CheckpointTheorem == Spec => []CheckpointCovers
<1>1. LsnInv => CheckpointCovers
  BY PassedOver, Zenon DEF CheckpointCovers
<1> QED BY <1>1, LsnInvariant, PTL

-----------------------------------------------------------------------------
(***************************************************************************)
(* LogReplayed for all constants. An object is done when a checkpoint lies *)
(* behind its last record: from then on the file has what that record      *)
(* says, and the session only changes its lock. Before, the record is     *)
(* still to be replayed. While apply_log scans the log, the table has what *)
(* the last record that was not passed over says, or what the file has.    *)
(***************************************************************************)
PageType ==
    /\ file \in [npages : 0 .. MaxPages, slots : SUBSET Page, cells : [Oid -> Cell]]
    /\ valid \subseteq Page /\ table \in [Oid -> Cell]
    /\ cursor \in Nat /\ maxlsn \in Nat
    /\ garbage \subseteq Oid \X Tx
    /\ \A i \in DOMAIN log : IsData(log[i]) => log[i].oid \in Oid

Idle == {"down", "redo", "flush", "checkpoint", "logclose", "failed"}
Session == {"up", "shutflush", "shutfile", "shutlog", "truncate"}

\* What was in memory only is gone when the database is opened.
Forgotten == mode \in Idle => garbage = {} /\ todo = [t \in Tx |-> <<>>]

\* No page was allocated: the file knows the pages of all records.
Known ==
    /\ mode # "down" => valid = file.slots
    /\ \A i \in DOMAIN log : IsData(log[i]) => PageOf(log[i].oid) \in file.slots
    /\ \A t \in Tx : \A i \in DOMAIN todo[t] : PageOf(todo[t][i].oid) \in file.slots

\* A transaction has locked what it is going to commit, each object once.
OwnedAt(t, i) ==
    /\ table[todo[t][i].oid].own = t
    /\ todo[t][i].op = "insert" => table[todo[t][i].oid].val = Free
    /\ todo[t][i].op # "insert" => table[todo[t][i].oid].val \in Values
    /\ \A j \in DOMAIN todo[t] : j # i => todo[t][j].oid # todo[t][i].oid
Owned == \A t \in Tx : \A i \in DOMAIN todo[t] : OwnedAt(t, i)

\* What vacuum will remove was deleted by the last record about it.
Buried ==
    /\ \A g \in garbage : /\ Records(g[1]) # {} /\ LastRecord(g[1]).kind = "delete"
                          /\ table[g[1]].val = Dead
    /\ \A g \in garbage, h \in garbage : g[1] = h[1] => g = h

\* Recovery marks the pages that it changes.
Clean ==
    /\ mode \in {"redo"} \cup AfterRedo =>
          \A o \in Oid : PageOf(o) \notin dirty => table[o] = file.cells[o]
    /\ mode = "checkpoint" => dirty = {}

Replayed(o) == {i \in Records(o) : i < cursor /\ log[i].lsn > maxlsn}
Scanned ==
    mode = "redo" =>
        /\ maxlsn = MaxLsn /\ cursor \in 1 .. Len(log) + 1
        /\ \A o \in Oid : /\ Replayed(o) = {} => table[o] = file.cells[o]
                          /\ Replayed(o) # {} => table[o] = Effect(log[Max(Replayed(o))])

Done(o) == \E c \in Checkpoints : Max(Records(o)) < c
Shown(o) == Effect(LastRecord(o)).val
InFile(o) == Done(o) => file.cells[o].val = Shown(o)
InTable(o) ==
    /\ mode \in AfterRedo => table[o].val = Shown(o)
    /\ mode \in Session => \/ table[o].val = Shown(o)
                           \/ ~ Done(o) /\ LastRecord(o).kind = "delete" /\ table[o].val = Dead
Right == \A o \in Oid : Records(o) # {} /\ Untangled(o) => InFile(o) /\ InTable(o)

Intact ==
    /\ mode # "failed" /\ Known
    /\ mode = "up" => Owned /\ Buried
    /\ Clean /\ Scanned /\ Right

ReplayInv == PageType /\ Forgotten /\ (~ grown => Intact)

-----------------------------------------------------------------------------
\* An object that a transaction is going to commit stays its own if nobody
\* touches it, wherever the transaction has put it in its list.
LEMMA OwnedMoved ==
    ASSUME Owned, NEW u \in Tx, NEW i, NEW k \in DOMAIN todo[u], todo'[u][i] = todo[u][k],
           table'[todo[u][k].oid] = table[todo[u][k].oid],
           \A j \in DOMAIN todo'[u] : j # i => todo'[u][j].oid # todo[u][k].oid
    PROVE  OwnedAt(u, i)'
<1>1. OwnedAt(u, k)
  BY Zenon DEF Owned
<1> QED BY <1>1, Zenon DEF OwnedAt

\* The same of a list that stays as it is.
LEMMA OwnedKept ==
    ASSUME Owned, NEW u \in Tx, todo'[u] = todo[u], NEW i \in DOMAIN todo'[u],
           table'[todo[u][i].oid] = table[todo[u][i].oid]
    PROVE  OwnedAt(u, i)'
<1>1. i \in DOMAIN todo[u] /\ todo'[u][i] = todo[u][i]
  OBVIOUS
<1>2. OwnedAt(u, i)
  BY <1>1, Zenon DEF Owned
<1>3. \A j \in DOMAIN todo'[u] : j # i => todo'[u][j].oid # todo[u][i].oid
  BY <1>2, SMT DEF OwnedAt
<1>4. table'[todo'[u][i].oid] = table[todo[u][i].oid] /\ todo'[u][i].oid = todo[u][i].oid
  BY <1>1, Zenon
<1> QED BY <1>1, <1>2, <1>3, <1>4, Zenon DEF OwnedAt

\* The last record about an object.
LEMMA LastOne ==
    ASSUME LsnInv, NEW o, Records(o) # {}
    PROVE  /\ Max(Records(o)) \in Records(o) /\ Max(Records(o)) \in DOMAIN log
           /\ \A i \in Records(o) : i <= Max(Records(o))
<1>1. Len(log) \in Nat /\ \A i \in Records(o) : i \in Nat /\ i <= Len(log)
  BY SMTT(30) DEF LsnInv, LogType, Records
<1>2. Max(Records(o)) \in Records(o) /\ \A i \in Records(o) : i <= Max(Records(o))
  BY <1>1, MaxOfBounded, Zenon
<1> QED BY <1>2, Zenon DEF Records

\* A step that leaves the log alone changes nothing of what it says.
LEMMA SameView ==
    ASSUME log' = log, NEW o
    PROVE  /\ Records(o)' = Records(o) /\ LastRecord(o)' = LastRecord(o) /\ Shown(o)' = Shown(o)
           /\ Done(o)' <=> Done(o)
           /\ Untangled(o)' <=> Untangled(o)
<1>1. Records(o)' = Records(o) /\ Checkpoints' = Checkpoints
  BY Zenon DEF Records, Checkpoints, IsData
<1>2. LastRecord(o)' = LastRecord(o)
  BY <1>1, Zenon DEF LastRecord
<1> QED BY <1>1, <1>2, Zenon DEF Shown, Effect, Done, Untangled

\* Nor does a record about something else.
LEMMA OtherRecord ==
    ASSUME LsnInv, NEW r \in LogRecord, log' = Append(log, r), r.kind # "chkpt",
           NEW o, ~ (IsData(r) /\ r.oid = o)
    PROVE  /\ Records(o)' = Records(o)
           /\ Records(o) # {} => /\ LastRecord(o)' = LastRecord(o) /\ Shown(o)' = Shown(o)
                                 /\ Done(o)' <=> Done(o)
                                 /\ Untangled(o)' <=> Untangled(o)
<1>1. log \in Seq(LogRecord)
  BY Zenon DEF LsnInv, LogType
<1>2. /\ DOMAIN log = 1 .. Len(log) /\ Len(log) \in Nat
      /\ DOMAIN log' = 1 .. Len(log) + 1
      /\ \A i \in DOMAIN log : log'[i] = log[i]
      /\ log'[Len(log) + 1] = r
  BY <1>1, AppendRecord, Zenon
<1>3. Records(o)' = Records(o) /\ Checkpoints' = Checkpoints
  BY <1>2, SMTT(30) DEF Records, Checkpoints, IsData
<1>4. ASSUME Records(o) # {} PROVE LastRecord(o)' = LastRecord(o)
  BY <1>2, <1>3, <1>4, LastOne, Zenon DEF LastRecord
<1>5. ASSUME Records(o) # {} PROVE Untangled(o)' <=> Untangled(o)
  <2>1. \A i \in Records(o) \cup Checkpoints : log'[i] = log[i]
    BY <1>2, Zenon DEF Records, Checkpoints
  <2> QED BY <2>1, <1>3, <1>4, <1>5, Zenon DEF Untangled
<1> QED BY <1>3, <1>4, <1>5, Zenon DEF Shown, Effect, Done

\* A record about an object is its last one, and no checkpoint is behind it.
LEMMA NewRecord ==
    ASSUME LsnInv, NEW r \in LogRecord, log' = Append(log, r), IsData(r)
    PROVE  /\ Records(r.oid)' # {} /\ LastRecord(r.oid)' = r /\ Shown(r.oid)' = Effect(r).val
           /\ ~ Done(r.oid)'
<1>1. log \in Seq(LogRecord)
  BY Zenon DEF LsnInv, LogType
<1>2. /\ DOMAIN log = 1 .. Len(log) /\ Len(log) \in Nat
      /\ DOMAIN log' = 1 .. Len(log) + 1
      /\ \A i \in DOMAIN log : log'[i] = log[i]
      /\ log'[Len(log) + 1] = r
  BY <1>1, AppendRecord, Zenon
<1>3. /\ Len(log) + 1 \in Records(r.oid)'
      /\ \A i \in Records(r.oid)' \cup Checkpoints' : i \in Nat /\ i <= Len(log) + 1
  BY <1>2, SMTT(30) DEF Records, Checkpoints, IsData
<1>4. Max(Records(r.oid)') = Len(log) + 1
  <2> DEFINE S == Records(r.oid)'
  <2> HIDE DEF S
  <2>1. Len(log) + 1 \in S /\ \A i \in S : i \in Nat /\ i <= Len(log) + 1
    BY <1>3, Zenon DEF S
  <2>2. Max(S) = Len(log) + 1
    BY <1>2, <2>1, MaxIs, Zenon
  <2> QED BY <2>2, Zenon DEF S
<1>5. LastRecord(r.oid)' = r
  BY <1>2, <1>4, Zenon DEF LastRecord
<1>6. ~ Done(r.oid)'
  BY <1>2, <1>3, <1>4, SMTT(30) DEF Done
<1> QED BY <1>3, <1>5, <1>6, Zenon DEF Shown, Effect

\* A checkpoint can only put more objects out of order.
LEMMA NewCheckpoint ==
    ASSUME LsnInv, NEW r \in LogRecord, log' = Append(log, r), r.kind = "chkpt", NEW o
    PROVE  /\ Records(o)' = Records(o)
           /\ Records(o) # {} => /\ LastRecord(o)' = LastRecord(o) /\ Shown(o)' = Shown(o)
                                 /\ Untangled(o)' => Untangled(o)
<1>1. log \in Seq(LogRecord)
  BY Zenon DEF LsnInv, LogType
<1>2. /\ DOMAIN log = 1 .. Len(log) /\ Len(log) \in Nat
      /\ DOMAIN log' = 1 .. Len(log) + 1
      /\ \A i \in DOMAIN log : log'[i] = log[i]
      /\ log'[Len(log) + 1] = r
  BY <1>1, AppendRecord, Zenon
<1>3. Records(o)' = Records(o) /\ Checkpoints \subseteq Checkpoints'
  BY <1>2, SMTT(30) DEF Records, Checkpoints, IsData, Data
<1>4. ASSUME Records(o) # {} PROVE LastRecord(o)' = LastRecord(o)
  BY <1>2, <1>3, <1>4, LastOne, Zenon DEF LastRecord
<1>5. ASSUME Records(o) # {}, Untangled(o)' PROVE Untangled(o)
  <2>1. \A i \in Records(o) \cup Checkpoints : log'[i] = log[i]
    BY <1>2, Zenon DEF Records, Checkpoints
  <2> QED BY <2>1, <1>3, <1>4, <1>5, Zenon DEF Untangled
<1> QED BY <1>3, <1>4, <1>5, Zenon DEF Shown, Effect

-----------------------------------------------------------------------------
\* The types of a page, of the table and of the records in the log.
LEMMA CellTypes ==
    /\ Empty \in Cell /\ \A t \in Tx : Reserved(t) \in Cell
    /\ \A r \in LogRecord : Effect(r) \in Cell
    /\ \A c \in Cell, t \in Tx \cup {NoTx} : [c EXCEPT !.own = t] \in Cell
  BY Zenon DEF Empty, Cell, Label, Reserved, Effect, LogRecord

\* allocate_page keeps them.
LEMMA AllocateType ==
    ASSUME RecoveryAssumption, PageType, allocate_page
    PROVE  /\ file' \in [npages : 0 .. MaxPages, slots : SUBSET Page, cells : [Oid -> Cell]]
           /\ valid' \subseteq Page
           /\ Erased(table, NextPage) \in [Oid -> Cell]
<1>1. Erased(file.cells, NextPage) \in [Oid -> Cell] /\ Erased(table, NextPage) \in [Oid -> Cell]
  BY CellTypes, Zenon DEF PageType, Erased
<1>2. (IF Unused # {} THEN file.npages ELSE file.npages + 1) \in 0 .. MaxPages
  BY RecoveryAssumption, SMTT(30) DEF PageType, allocate_page, NextPage, Page
<1> QED BY <1>1, <1>2, Zenon DEF PageType, allocate_page

\* The table after an object has been locked or released, and after vacuum.
LEMMA TableTypes ==
    ASSUME PageType
    PROVE  /\ \A o \in Oid, t \in Tx : [table EXCEPT ![o].own = t] \in [Oid -> Cell]
           /\ \A o, c \in Cell : [table EXCEPT ![o] = c] \in [Oid -> Cell]
           /\ \A old, ins, unl : vacuum(old, ins, unl) => table' \in [Oid -> Cell] /\ garbage' \subseteq Oid \X Tx
<1>1. table \in [Oid -> Cell] /\ garbage \subseteq Oid \X Tx
  BY Zenon DEF PageType
<1>2. \A o \in Oid, t \in Tx : [table EXCEPT ![o].own = t] \in [Oid -> Cell]
  BY <1>1, CellTypes, Zenon
<1>3. ASSUME NEW old, NEW ins, NEW unl, vacuum(old, ins, unl)
      PROVE  table' \in [Oid -> Cell] /\ garbage' \subseteq Oid \X Tx
  <2>1. Empty \in Cell /\ \A o \in Oid : table[o] \in Cell /\ [table[o] EXCEPT !.own = NoTx] \in Cell
    BY <1>1, CellTypes, Zenon
  <2> QED BY <1>1, <1>3, <2>1, Zenon DEF vacuum
<1> QED BY <1>1, <1>2, <1>3, Zenon

\* A record that commit_dirty_node appends is about an object of the table.
LEMMA LoggedOid ==
    ASSUME LsnInv, PageType, NEW r \in LogRecord, log' = Append(log, r), IsData(r) => r.oid \in Oid
    PROVE  \A i \in DOMAIN log' : IsData(log'[i]) => log'[i].oid \in Oid
<1>1. log \in Seq(LogRecord)
  BY Zenon DEF LsnInv, LogType
<1>2. /\ DOMAIN log' = 1 .. Len(log) + 1 /\ DOMAIN log = 1 .. Len(log) /\ Len(log) \in Nat
      /\ \A i \in DOMAIN log : log'[i] = log[i]
      /\ log'[Len(log) + 1] = r
  BY <1>1, AppendRecord, Zenon
<1> QED BY <1>2, SMTT(30) DEF PageType

\* The first of the objects that a transaction has to commit.
LEMMA FirstWrite ==
    ASSUME LsnInv, NEW t \in Tx, commit_dirty_node(t)
    PROVE  /\ Head(todo[t]) \in Write /\ Head(todo[t]) = todo[t][1] /\ 1 \in DOMAIN todo[t]
           /\ todo[t] \in Seq(Write)
           /\ LET w == Head(todo[t]) IN
                 /\ Entry(w.op, t, w.oid, w.val) \in LogRecord
                 /\ IsData(Entry(w.op, t, w.oid, w.val)) /\ Entry(w.op, t, w.oid, w.val).oid = w.oid
                 /\ log' = Append(log, Entry(w.op, t, w.oid, w.val))
<1>1. todo[t] \in Seq(Write) /\ todo[t] # <<>> /\ lsn \in Nat
  BY Zenon DEF LsnInv, LogType, commit_dirty_node
<1>2. Head(todo[t]) \in Write /\ Head(todo[t]) = todo[t][1] /\ 1 \in DOMAIN todo[t]
  BY <1>1, SMTT(30)
<1>3. PICK w \in Write : w = Head(todo[t])
  BY <1>2, Zenon
<1>4. w.op \in Data /\ w.oid \in Nat /\ w.val \in Label
  BY SMTT(30) DEF Write, Oid
<1>5. Entry(w.op, t, w.oid, w.val) \in LogRecord
  BY <1>1, <1>4, SMTT(30) DEF Entry, LogRecord
<1>6. IsData(Entry(w.op, t, w.oid, w.val)) /\ Entry(w.op, t, w.oid, w.val).oid = w.oid
  BY <1>4, Zenon DEF Entry, IsData
<1>7. log' = Append(log, Entry(w.op, t, w.oid, w.val))
  BY <1>3, Zenon DEF commit_dirty_node, append
<1> QED BY <1>1, <1>2, <1>3, <1>5, <1>6, <1>7, Zenon

\* A BOT, commit, abort or checkpoint record is not about an object.
LEMMA TxRecord ==
    ASSUME LsnInv, NEW kind \in {"bot", "commit", "abort", "chkpt"}, NEW t \in Tx \cup {NoTx}, append_tx(kind, t)
    PROVE  /\ Entry(kind, t, 0, Free) \in LogRecord /\ ~ IsData(Entry(kind, t, 0, Free))
           /\ Entry(kind, t, 0, Free).kind = kind
           /\ log' = Append(log, Entry(kind, t, 0, Free))
<1>1. lsn \in Nat
  BY Zenon DEF LsnInv, LogType
<1> QED BY <1>1, SMTT(30) DEF Entry, LogRecord, Label, IsData, Data, append_tx, append

\* PageType is inductive.
LEMMA TypeStep ==
    ASSUME LsnInv, PageType, [Next]_vars
    PROVE  PageType'
<1>1. /\ file \in [npages : 0 .. MaxPages, slots : SUBSET Page, cells : [Oid -> Cell]]
      /\ valid \subseteq Page /\ table \in [Oid -> Cell] /\ cursor \in Nat /\ maxlsn \in Nat
      /\ garbage \subseteq Oid \X Tx /\ log \in Seq(LogRecord)
  BY Zenon DEF PageType, LsnInv, LogType
<1>2. ASSUME NEW t \in Tx, begin_transaction(t) PROVE PageType'
  <2>1. \A i \in DOMAIN log' : IsData(log'[i]) => log'[i].oid \in Oid
    BY <1>2, TxRecord, LoggedOid, Zenon DEF begin_transaction
  <2> QED BY <1>1, <1>2, <2>1, Zenon DEF begin_transaction, PageType, scan, pages, IsData
<1>3. ASSUME NEW t \in Tx, commit_transaction(t) PROVE PageType'
  BY <1>3, Zenon DEF commit_transaction, PageType, scan, pages, logs, IsData
<1>4. ASSUME NEW t \in Tx, commit_dirty_node(t) PROVE PageType'
  <2> DEFINE w == Head(todo[t])
  <2>1. /\ w \in Write /\ Entry(w.op, t, w.oid, w.val) \in LogRecord
        /\ Entry(w.op, t, w.oid, w.val).oid = w.oid
        /\ log' = Append(log, Entry(w.op, t, w.oid, w.val))
    BY <1>4, FirstWrite, Zenon
  <2>2. w.oid \in Oid /\ w.val \in Label
    BY <2>1, Zenon DEF Write
  <2>3. \A i \in DOMAIN log' : IsData(log'[i]) => log'[i].oid \in Oid
    BY <2>1, <2>2, LoggedOid, Zenon
  <2>4. [val |-> IF w.op = "delete" THEN Dead ELSE w.val, own |-> NoTx] \in Cell
    BY <2>2, Zenon DEF Cell, Label
  <2>5. table' \in [Oid -> Cell]
    BY <1>1, <1>4, <2>4, Zenon DEF commit_dirty_node
  <2>6. garbage' \subseteq Oid \X Tx
    BY <1>1, <1>4, <2>2, SMTT(30) DEF commit_dirty_node
  <2>7. UNCHANGED <<file, valid, cursor, maxlsn>>
    BY <1>4, Zenon DEF commit_dirty_node, scan
  <2> QED BY <1>1, <2>3, <2>5, <2>6, <2>7, Zenon DEF PageType, IsData
<1>5. ASSUME NEW t \in Tx, commit_end(t) PROVE PageType'
  <2>1. \A i \in DOMAIN log' : IsData(log'[i]) => log'[i].oid \in Oid
    BY <1>5, TxRecord, LoggedOid, Zenon DEF commit_end
  <2>2. table' \in [Oid -> Cell] /\ garbage' \subseteq Oid \X Tx
    BY <1>5, TableTypes, Zenon DEF commit_end
  <2> QED BY <1>1, <1>5, <2>1, <2>2, Zenon DEF commit_end, PageType, scan, IsData
<1>6. ASSUME NEW t \in Tx, abort_transaction(t) PROVE PageType'
  <2>1. \A i \in DOMAIN log' : IsData(log'[i]) => log'[i].oid \in Oid
    BY <1>6, TxRecord, LoggedOid, Zenon DEF abort_transaction
  <2>2. table' \in [Oid -> Cell] /\ garbage' \subseteq Oid \X Tx
    BY <1>6, TableTypes, Zenon DEF abort_transaction
  <2> QED BY <1>1, <1>6, <2>1, <2>2, Zenon DEF abort_transaction, PageType, scan, IsData
<1>7. ASSUME NEW t \in Tx, NEW o \in Oid, NEW v \in Values, add_node(t, o, v) PROVE PageType'
  <2>1. Reserved(t) \in Cell
    BY CellTypes, Zenon
  <2>2. UNCHANGED <<log, cursor, maxlsn, garbage>>
    BY <1>7, Zenon DEF add_node, logs, scan
  <2>3. CASE /\ table' = [table EXCEPT ![o] = Reserved(t)] /\ UNCHANGED <<file, valid, grown>>
    BY <1>1, <2>1, <2>2, <2>3, Zenon DEF PageType, IsData
  <2>4. CASE allocate_page /\ table' = [Erased(table, NextPage) EXCEPT ![o] = Reserved(t)]
    <3>1. /\ file' \in [npages : 0 .. MaxPages, slots : SUBSET Page, cells : [Oid -> Cell]]
          /\ valid' \subseteq Page /\ Erased(table, NextPage) \in [Oid -> Cell]
      BY <2>4, AllocateType, RecoveryAssumption, Zenon
    <3>2. table' \in [Oid -> Cell]
      BY <2>1, <2>4, <3>1, Zenon
    <3> QED BY <1>1, <2>2, <3>1, <3>2, Zenon DEF PageType, IsData
  <2> QED BY <1>7, <2>3, <2>4, Zenon DEF add_node
<1>8. ASSUME NEW t \in Tx, NEW op, NEW o \in Oid, NEW v, change_node(t, op, o, v) PROVE PageType'
  <2>1. table' \in [Oid -> Cell]
    BY <1>8, TableTypes, Zenon DEF change_node, Lock
  <2> QED BY <1>1, <1>8, <2>1, Zenon DEF change_node, PageType, scan, logs, IsData
<1>9. ASSUME NEW p \in Page, flush(p) PROVE PageType'
  <2>1. file' \in [npages : 0 .. MaxPages, slots : SUBSET Page, cells : [Oid -> Cell]]
    BY <1>1, <1>9, Zenon DEF flush, WritePage
  <2> QED BY <1>1, <1>9, <2>1, Zenon DEF flush, PageType, txs, scan, logs, IsData
<1>10. CASE close \/ close_flushed \/ close_log \/ redo_flushed \/ redo_end \/ redo_skip
  BY <1>1, <1>10, SMTT(30) DEF close, close_flushed, close_log, redo_flushed, redo_end, redo_skip, PageType, pages, txs, scan, logs, IsData
<1>11. CASE close_file
  BY <1>1, <1>11, Zenon DEF close_file, PageType, txs, scan, logs, IsData
<1>12. CASE truncate
  <2>1. DOMAIN log' = {} /\ table' \in [Oid -> Cell] /\ file' = file /\ valid' = {} /\ garbage' = {}
        /\ cursor' = 1 /\ maxlsn' = 0
    BY <1>12, CellTypes, SMTT(30) DEF truncate, LoseMemory
  <2> QED BY <1>1, <2>1, Zenon DEF PageType
<1>13. CASE crash
  <2>1. log' = log /\ table' \in [Oid -> Cell] /\ file' = file /\ valid' = {} /\ garbage' = {}
        /\ cursor' = 1 /\ maxlsn' = 0
    BY <1>13, CellTypes, Zenon DEF crash, LoseMemory
  <2> QED BY <1>1, <2>1, Zenon DEF PageType, IsData
<1>14. CASE open
  <2>1. MaxLsn \in Nat
    <3>1. CASE Checkpoints = {}
      BY <3>1, Zenon DEF MaxLsn
    <3>2. CASE Checkpoints # {}
      <4>1. PICK j \in Checkpoints : MaxLsn = log[j].lsn
        BY <3>2, MaxLsnIsOne, Zenon
      <4>2. log[j] \in LogRecord
        BY <1>1, SMTT(30) DEF Checkpoints
      <4> QED BY <4>1, <4>2, Zenon DEF LogRecord
    <3> QED BY <3>1, <3>2, Zenon
  <2> QED BY <1>1, <1>14, <2>1, Zenon DEF open, PageType, txs, IsData
<1>15. CASE redo
  <2>1. log[cursor] \in LogRecord
    BY <1>1, <1>15, SMTT(30) DEF redo
  <2>2. table' \in [Oid -> Cell]
    BY <1>1, <1>15, <2>1, CellTypes, Zenon DEF redo
  <2> QED BY <1>1, <1>15, <2>2, SMTT(30) DEF redo, PageType, txs, logs, IsData
<1>16. CASE redo_repair
  <2>1. log[cursor] \in LogRecord
    BY <1>1, <1>16, SMTT(30) DEF redo_repair, Missing
  <2>2. /\ file' \in [npages : 0 .. MaxPages, slots : SUBSET Page, cells : [Oid -> Cell]]
        /\ valid' \subseteq Page /\ Erased(table, NextPage) \in [Oid -> Cell]
    BY <1>16, AllocateType, RecoveryAssumption, Zenon DEF redo_repair
  <2>3. table' \in [Oid -> Cell]
    BY <1>16, <2>1, <2>2, CellTypes, Zenon DEF redo_repair
  <2> QED BY <1>1, <1>16, <2>2, <2>3, SMTT(30) DEF redo_repair, PageType, txs, logs, IsData
<1>17. CASE redo_throw
  <2>1. /\ file' \in [npages : 0 .. MaxPages, slots : SUBSET Page, cells : [Oid -> Cell]]
        /\ valid' \subseteq Page
    BY <1>1, <1>17, AllocateType, RecoveryAssumption, Zenon DEF redo_throw
  <2> QED BY <1>1, <1>17, <2>1, Zenon DEF redo_throw, PageType, txs, scan, logs, IsData
<1>18. CASE checkpoint
  <2>1. \A i \in DOMAIN log' : IsData(log'[i]) => log'[i].oid \in Oid
    BY <1>18, TxRecord, LoggedOid, Zenon DEF checkpoint
  <2> QED BY <1>1, <1>18, <2>1, Zenon DEF checkpoint, PageType, scan, pages, txs, IsData
<1>19. CASE log_close
  BY <1>1, <1>19, Zenon DEF log_close, PageType, pages, txs, IsData
<1>20. CASE UNCHANGED vars
  BY <1>1, <1>20, Zenon DEF vars, PageType, pages, txs, scan, logs, IsData
<1> QED BY <1>2, <1>3, <1>4, <1>5, <1>6, <1>7, <1>8, <1>9, <1>10, <1>11, <1>12, <1>13, <1>14,
           <1>15, <1>16, <1>17, <1>18, <1>19, <1>20, Zenon DEF Next

-----------------------------------------------------------------------------
\* What the log says of an object is the same after the step.
Unmoved(o) ==
    /\ Records(o)' = Records(o)
    /\ Records(o) # {} => /\ LastRecord(o)' = LastRecord(o) /\ Shown(o)' = Shown(o)
                          /\ Done(o)' <=> Done(o)
                          /\ Untangled(o)' <=> Untangled(o)

\* A step that only moves on keeps file and table right.
LEMMA RightKept ==
    ASSUME Right,
           \A o \in Oid : Unmoved(o) /\ file'.cells[o] = file.cells[o] /\ table'[o].val = table[o].val,
           mode' \in AfterRedo => mode \in AfterRedo,
           mode' \in Session => mode \in Session \cup AfterRedo
    PROVE  Right'
<1> SUFFICES ASSUME NEW o \in Oid, (Records(o) # {})', Untangled(o)'
             PROVE  InFile(o)' /\ InTable(o)'
  BY Zenon DEF Right
<1>1. /\ Records(o) # {} /\ Untangled(o) /\ LastRecord(o)' = LastRecord(o) /\ Shown(o)' = Shown(o)
      /\ Done(o)' <=> Done(o)
  BY Zenon DEF Unmoved
<1>2. InFile(o) /\ InTable(o)
  BY <1>1, Zenon DEF Right
<1> QED BY <1>1, <1>2, Zenon DEF InFile, InTable

\* Memory is lost: only the file has to be right.
LEMMA RightInFile ==
    ASSUME Right, \A o \in Oid : Unmoved(o) /\ file'.cells[o] = file.cells[o],
           mode' \in {"down", "redo"}
    PROVE  Right'
<1> SUFFICES ASSUME NEW o \in Oid, (Records(o) # {})', Untangled(o)'
             PROVE  InFile(o)' /\ InTable(o)'
  BY Zenon DEF Right
<1>1. /\ Records(o) # {} /\ Untangled(o) /\ Shown(o)' = Shown(o) /\ (Done(o)' <=> Done(o))
  BY Zenon DEF Unmoved
<1>2. InFile(o)
  BY <1>1, Zenon DEF Right
<1> QED BY <1>1, <1>2, Zenon DEF InFile, InTable, AfterRedo, Session

\* A step that appends no record changes nothing of what the log says.
LEMMA SameLogUnmoved ==
    ASSUME log' = log
    PROVE  \A o : Unmoved(o)
  BY SameView, Zenon DEF Unmoved

\* A record of a transaction that is not about an object.
LEMMA TxRecordUnmoved ==
    ASSUME LsnInv, NEW kind \in {"bot", "commit", "abort"}, NEW t \in Tx, append_tx(kind, t)
    PROVE  /\ \A o : Unmoved(o)
           /\ \A i \in DOMAIN log' : IsData(log'[i]) => i \in DOMAIN log /\ log'[i] = log[i]
<1> DEFINE r == Entry(kind, t, 0, Free)
<1>1. r \in LogRecord /\ ~ IsData(r) /\ r.kind # "chkpt" /\ log' = Append(log, r)
  BY TxRecord, Zenon
<1>2. log \in Seq(LogRecord)
  BY Zenon DEF LsnInv, LogType
<1> HIDE DEF r
<1>3. \A o : Unmoved(o)
  BY <1>1, OtherRecord, Zenon DEF Unmoved
<1>4. /\ DOMAIN log' = 1 .. Len(log) + 1 /\ DOMAIN log = 1 .. Len(log) /\ Len(log) \in Nat
      /\ \A i \in DOMAIN log : log'[i] = log[i]
      /\ log'[Len(log) + 1] = r
  BY <1>1, <1>2, AppendRecord, Zenon
<1> QED BY <1>1, <1>3, <1>4, SMTT(30)

\* begin_transaction and the start of the commit.
LEMMA IntactBegin ==
    ASSUME LsnInv, Intact, NEW t \in Tx, begin_transaction(t) \/ commit_transaction(t)
    PROVE  Intact'
<1>1. /\ mode = "up" /\ mode' = "up"
      /\ UNCHANGED <<file, valid, table, todo, garbage>>
  BY Zenon DEF begin_transaction, commit_transaction, pages
<1>2. /\ \A o : Unmoved(o)
      /\ \A i \in DOMAIN log' : IsData(log'[i]) => i \in DOMAIN log /\ log'[i] = log[i]
  <2>1. CASE begin_transaction(t)
    BY <2>1, TxRecordUnmoved, Zenon DEF begin_transaction
  <2>2. CASE commit_transaction(t)
    BY <2>2, SameLogUnmoved, Zenon DEF commit_transaction, logs
  <2> QED BY <2>1, <2>2, Zenon
<1>3. Known'
  BY <1>1, <1>2, Zenon DEF Intact, Known, IsData
<1>4. Owned'
  BY <1>1, SMTT(30) DEF Intact, Owned, OwnedAt
<1>5. Buried'
  BY <1>1, <1>2, Zenon DEF Intact, Buried, Unmoved
<1>6. Right'
  BY <1>1, <1>2, RightKept, Zenon DEF Intact, AfterRedo
<1> QED BY <1>1, <1>3, <1>4, <1>5, <1>6, Zenon DEF Intact, Clean, Scanned, AfterRedo

\* A change of a transaction that locks an object nobody has locked.
LEMMA IntactPending ==
    ASSUME LsnInv, PageType, Intact, NEW t \in Tx, NEW o \in Oid, NEW op \in Data, NEW v,
           Pending(t, op, o, v), mode = "up", UNCHANGED <<mode, log, file, valid, garbage>>,
           PageOf(o) \in valid, table[o].own = NoTx,
           table'[o].own = t /\ table'[o].val = table[o].val,
           \A x \in Oid : x # o => table'[x] = table[x],
           op = "insert" => table[o].val = Free,
           op # "insert" => table[o].val \in Values
    PROVE  Intact'
<1> DEFINE new == [op |-> op, oid |-> o, val |-> v]
<1>1. todo \in [Tx -> Seq(Write)] /\ todo' = [todo EXCEPT ![t] = Append(@, new)]
  BY Zenon DEF LsnInv, LogType, Pending
<1>2. /\ \A u \in Tx : u # t => todo'[u] = todo[u]
      /\ todo'[t] = Append(todo[t], new) /\ todo[t] \in Seq(Write)
  BY <1>1, Zenon
<1>3. /\ DOMAIN todo[t] = 1 .. Len(todo[t]) /\ Len(todo[t]) \in Nat
      /\ DOMAIN todo'[t] = 1 .. Len(todo[t]) + 1
      /\ \A i \in DOMAIN todo[t] : todo'[t][i] = todo[t][i] /\ todo[t][i] \in Write
      /\ todo'[t][Len(todo[t]) + 1] = new
  BY <1>2, SMTT(30)
<1>4. new.oid = o /\ new.op = op
  BY Zenon
<1> HIDE DEF new
<1>5. \A u \in Tx : \A i \in DOMAIN todo[u] : todo[u][i].oid \in Oid /\ todo[u][i].oid # o
  <2> SUFFICES ASSUME NEW u \in Tx, NEW i \in DOMAIN todo[u]
               PROVE  todo[u][i].oid \in Oid /\ todo[u][i].oid # o
    BY Zenon
  <2>1. todo[u] \in Seq(Write)
    BY <1>1, Zenon
  <2>2. todo[u][i] \in Write
    BY <2>1, SMTT(30)
  <2>3. todo[u][i].oid \in Oid
    BY <2>2, Zenon DEF Write
  <2>4. table[todo[u][i].oid].own = u /\ u # NoTx
    <3>1. OwnedAt(u, i)
      BY Zenon DEF Intact, Owned
    <3>2. u # NoTx
      BY SMT DEF Tx, NoTx
    <3> QED BY <3>1, <3>2, Zenon DEF OwnedAt
  <2> QED BY <2>3, <2>4, Zenon
<1>6. Known'
  <2>1. \A u \in Tx : \A i \in DOMAIN todo[u] : PageOf(todo[u][i].oid) \in file.slots
    BY Zenon DEF Intact, Known
  <2>2. PageOf(o) \in file.slots /\ file' = file /\ valid' = valid /\ mode' = mode /\ log' = log
    BY Zenon DEF Intact, Known
  <2>3. \A i \in DOMAIN todo'[t] : i \in DOMAIN todo[t] \/ i = Len(todo[t]) + 1
    BY <1>3, SMT
  <2>4. ASSUME NEW u \in Tx, NEW i \in DOMAIN todo'[u]
        PROVE  PageOf(todo'[u][i].oid) \in file.slots
    <3>1. CASE u # t
      BY <1>2, <2>1, <3>1, Zenon
    <3>2. CASE u = t /\ i \in DOMAIN todo[t]
      BY <1>3, <2>1, <3>2, Zenon
    <3>3. CASE u = t /\ i = Len(todo[t]) + 1
      BY <1>3, <1>4, <2>2, <3>3, Zenon
    <3> QED BY <2>3, <3>1, <3>2, <3>3, Zenon
  <2> QED BY <2>2, <2>4, Zenon DEF Intact, Known, IsData
<1>7. Owned'
  <2> SUFFICES ASSUME NEW u \in Tx, NEW i \in DOMAIN todo'[u]
               PROVE  OwnedAt(u, i)'
    BY Zenon DEF Owned
  <2>1. CASE u # t
    <3>1. todo'[u] = todo[u] /\ table'[todo[u][i].oid] = table[todo[u][i].oid]
      BY <2>1, <1>2, <1>5, Zenon
    <3> QED BY <3>1, OwnedKept, Zenon DEF Intact
  <2>2. CASE u = t /\ i \in DOMAIN todo[t]
    <3>1. todo'[t][i] = todo[t][i] /\ table'[todo[t][i].oid] = table[todo[t][i].oid]
      BY <2>2, <1>3, <1>5, Zenon
    <3>2. ASSUME NEW j \in DOMAIN todo'[t], j # i PROVE todo'[t][j].oid # todo[t][i].oid
      <4>1. CASE j \in DOMAIN todo[t]
        <5>1. OwnedAt(t, i)
          BY <2>2, <1>3, Zenon DEF Intact, Owned
        <5>2. todo[t][j].oid # todo[t][i].oid /\ todo'[t][j] = todo[t][j]
          BY <5>1, <3>2, <4>1, <1>3, Zenon DEF OwnedAt
        <5> QED BY <5>2, Zenon
      <4>2. CASE j = Len(todo[t]) + 1
        BY <2>2, <4>2, <1>3, <1>4, <1>5, Zenon
      <4> QED BY <4>1, <4>2, <1>3, SMTT(30)
    <3>3. Owned
      BY Zenon DEF Intact
    <3>4. OwnedAt(t, i)'
      BY <2>2, <3>1, <3>2, <3>3, OwnedMoved, SMT
    <3> QED BY <2>2, <3>4, Zenon
  <2>3. CASE u = t /\ i = Len(todo[t]) + 1
    <3>1. \A j \in DOMAIN todo'[t] : j # i => j \in DOMAIN todo[t] /\ todo'[t][j] = todo[t][j]
      BY <2>3, <1>3, SMTT(30)
    <3> QED BY <2>3, <3>1, <1>3, <1>4, <1>5, SMTT(30) DEF OwnedAt
  <2> QED BY <2>1, <2>2, <2>3, <1>3, SMTT(30)
<1>8. \A x \in Oid : table'[x].val = table[x].val
  BY Zenon
<1>9. \A x : Unmoved(x)
  BY SameLogUnmoved, Zenon
<1>10. Buried'
  <2>1. \A g \in garbage : g[1] \in Oid
    BY Zenon DEF PageType
  <2> QED BY <1>8, <1>9, <2>1, SMTT(30) DEF Intact, Buried, Unmoved
<1>11. Right'
  BY <1>8, <1>9, RightKept, Zenon DEF Intact, AfterRedo
<1> QED BY <1>6, <1>7, <1>10, <1>11, Zenon DEF Intact, Clean, Scanned, AfterRedo

\* add_node on a page the file has.
LEMMA IntactAdd ==
    ASSUME LsnInv, PageType, Intact, NEW t \in Tx, NEW o \in Oid, NEW v \in Values,
           add_node(t, o, v), ~ grown'
    PROVE  Intact'
<1>1. /\ PageOf(o) \in valid /\ table[o] = Empty /\ table' = [table EXCEPT ![o] = Reserved(t)]
      /\ UNCHANGED <<mode, log, file, valid, garbage>> /\ mode = "up" /\ Pending(t, "insert", o, v)
  BY Zenon DEF add_node, allocate_page, logs
<1>2. table \in [Oid -> Cell]
  BY Zenon DEF PageType
<1>3. /\ table'[o] = Reserved(t) /\ \A x \in Oid : x # o => table'[x] = table[x]
  BY <1>1, <1>2, Zenon
<1>4. /\ table[o].own = NoTx /\ table[o].val = Free /\ table'[o].own = t /\ table'[o].val = Free
  BY <1>1, <1>3, SMTT(30) DEF Empty, Reserved
<1>5. "insert" \in Data
  BY Zenon DEF Data
<1> QED BY <1>1, <1>3, <1>4, <1>5, IntactPending, Zenon

\* update_node and delete_node.
LEMMA IntactChange ==
    ASSUME LsnInv, PageType, Intact, NEW t \in Tx, NEW op \in {"update", "delete"}, NEW o \in Oid, NEW v,
           change_node(t, op, o, v)
    PROVE  Intact'
<1>1. /\ PageOf(o) \in valid /\ table[o].val \in Values /\ table[o].own = NoTx
      /\ table' = [table EXCEPT ![o].own = t]
      /\ UNCHANGED <<mode, log, file, valid, garbage>> /\ mode = "up" /\ Pending(t, op, o, v)
  BY Zenon DEF change_node, Lock, logs
<1>2. table \in [Oid -> Cell]
  BY Zenon DEF PageType
<1>3. table'[o] = [table[o] EXCEPT !.own = t] /\ \A x \in Oid : x # o => table'[x] = table[x]
  BY <1>1, <1>2, Zenon
<1>4. table[o] \in [val : Label, own : Tx \cup {NoTx}]
  BY <1>2, Zenon DEF Cell
<1>5. table'[o].own = t /\ table'[o].val = table[o].val
  BY <1>3, <1>4, Zenon
<1>6. op \in Data /\ op # "insert"
  BY Zenon DEF Data
<1> QED BY <1>1, <1>3, <1>5, <1>6, IntactPending, Zenon

\* commit_dirty_node: the new record says what the table has now, except that a
\* deleted object stays until vacuum removes it.
LEMMA IntactCommit ==
    ASSUME LsnInv, PageType, Intact, NEW t \in Tx, commit_dirty_node(t)
    PROVE  Intact'
<1>0. PICK w : w = Head(todo[t])
  BY Zenon
<1>r. PICK r : r = Entry(w.op, t, w.oid, w.val)
  BY Zenon
<1>1. /\ w \in Write /\ w = todo[t][1] /\ 1 \in DOMAIN todo[t] /\ todo[t] \in Seq(Write)
      /\ r \in LogRecord /\ IsData(r) /\ r.oid = w.oid /\ log' = Append(log, r)
  BY <1>0, <1>r, FirstWrite, Zenon
<1>2. r.kind = w.op /\ r.val = w.val
  BY <1>r, Zenon DEF Entry
<1>3. /\ mode = "up" /\ mode' = "up" /\ UNCHANGED <<file, valid>>
      /\ table' = [table EXCEPT ![w.oid] = [val |-> IF w.op = "delete" THEN Dead ELSE w.val, own |-> NoTx]]
      /\ garbage' = IF w.op = "delete" THEN garbage \cup {<<w.oid, t>>} ELSE garbage
      /\ todo' = [todo EXCEPT ![t] = Tail(@)]
  BY <1>0, Zenon DEF commit_dirty_node
<1>4. w.oid \in Oid /\ w.op \in Data
  BY <1>1, Zenon DEF Write
<1>5. /\ table[w.oid].own = t /\ (w.op = "insert" => table[w.oid].val = Free)
      /\ (w.op # "insert" => table[w.oid].val \in Values)
      /\ \A j \in DOMAIN todo[t] : j # 1 => todo[t][j].oid # w.oid
  BY <1>1, <1>3, SMTT(30) DEF Intact, Owned, OwnedAt
<1>6. table \in [Oid -> Cell] /\ garbage \subseteq Oid \X Tx /\ todo \in [Tx -> Seq(Write)]
      /\ log \in Seq(LogRecord)
  BY Zenon DEF PageType, LsnInv, LogType
<1>7. /\ table'[w.oid] = [val |-> IF w.op = "delete" THEN Dead ELSE w.val, own |-> NoTx]
      /\ \A x \in Oid : x # w.oid => table'[x] = table[x]
  BY <1>3, <1>4, <1>6, Zenon
<1>8. \A o : o # w.oid => Unmoved(o)
  <2>1. r.kind # "chkpt"
    BY <1>2, <1>4, Zenon DEF Data
  <2> QED BY <1>1, <2>1, OtherRecord, Zenon DEF Unmoved
<1>9. /\ Records(w.oid)' # {} /\ LastRecord(w.oid)' = r /\ Shown(w.oid)' = Effect(r).val
      /\ ~ Done(w.oid)'
  BY <1>1, NewRecord, Zenon
<1>10. /\ \A u \in Tx : u # t => todo'[u] = todo[u]
       /\ DOMAIN todo'[t] = 1 .. Len(todo[t]) - 1 /\ DOMAIN todo[t] = 1 .. Len(todo[t])
       /\ Len(todo[t]) \in Nat
       /\ \A i \in DOMAIN todo'[t] : i + 1 \in DOMAIN todo[t] /\ i + 1 # 1 /\ todo'[t][i] = todo[t][i + 1]
  <2>1. todo'[t] = Tail(todo[t]) /\ \A u \in Tx : u # t => todo'[u] = todo[u]
    BY <1>3, <1>6, Zenon
  <2>2. todo[t] # <<>>
    BY Zenon DEF commit_dirty_node
  <2> QED BY <1>1, <2>1, <2>2, SMTT(30)
<1>11. Known'
  <2>1. /\ DOMAIN log' = 1 .. Len(log) + 1 /\ DOMAIN log = 1 .. Len(log) /\ Len(log) \in Nat
        /\ \A i \in DOMAIN log : log'[i] = log[i]
        /\ log'[Len(log) + 1] = r
    BY <1>1, <1>6, AppendRecord, Zenon
  <2>2. PageOf(w.oid) \in file.slots
    BY <1>1, Zenon DEF Intact, Known
  <2>3. \A i \in DOMAIN log' : IsData(log'[i]) => PageOf(log'[i].oid) \in file.slots
    BY <1>1, <2>1, <2>2, SMTT(30) DEF Intact, Known
  <2>4. \A u \in Tx : \A i \in DOMAIN todo'[u] : PageOf(todo'[u][i].oid) \in file.slots
    BY <1>10, ZenonT(30) DEF Intact, Known
  <2>5. valid = file.slots
    BY <1>3, Zenon DEF Intact, Known
  <2> QED BY <1>3, <2>3, <2>4, <2>5, Zenon DEF Known, IsData
<1>12. \A u \in Tx : \A i \in DOMAIN todo'[u] : todo'[u][i].oid \in Oid /\ todo'[u][i].oid # w.oid
  <2> SUFFICES ASSUME NEW u \in Tx, NEW i \in DOMAIN todo'[u]
               PROVE  todo'[u][i].oid \in Oid /\ todo'[u][i].oid # w.oid
    BY Zenon
  <2>1. CASE u = t
    <3>1. todo[t][i + 1] \in Write
      BY <1>1, <1>10, <2>1, SMTT(30)
    <3> QED BY <3>1, <1>5, <1>10, <2>1, Zenon DEF Write
  <2>2. CASE u # t
    <3>1. todo'[u] = todo[u] /\ todo[u] \in Seq(Write)
      BY <1>6, <1>10, <2>2, Zenon
    <3>2. todo[u][i] \in Write
      BY <3>1, SMTT(30)
    <3>3. table[todo[u][i].oid].own = u
      BY <1>3, <3>1, Zenon DEF Intact, Owned, OwnedAt
    <3> QED BY <3>1, <3>2, <3>3, <1>5, <2>2, Zenon DEF Write
  <2> QED BY <2>1, <2>2, Zenon
<1>13. Owned'
  <2> SUFFICES ASSUME NEW u \in Tx, NEW i \in DOMAIN todo'[u]
               PROVE  OwnedAt(u, i)'
    BY Zenon DEF Owned
  <2>1. table'[todo'[u][i].oid] = table[todo'[u][i].oid]
    BY <1>7, <1>12, Zenon
  <2>2. CASE u # t
    BY <1>3, <1>10, <2>1, <2>2, OwnedKept, Zenon DEF Intact
  <2>3. CASE u = t
    <3>1. i + 1 \in DOMAIN todo[t] /\ todo'[t][i] = todo[t][i + 1]
      BY <1>10, <2>3, Zenon
    <3>2. ASSUME NEW j \in DOMAIN todo'[t], j # i PROVE todo'[t][j].oid # todo'[t][i].oid
      <4>1. j + 1 \in DOMAIN todo[t] /\ todo'[t][j] = todo[t][j + 1] /\ j + 1 # i + 1
        BY <1>10, <2>3, <3>2, SMTT(30)
      <4>2. \A a \in DOMAIN todo[t], b \in DOMAIN todo[t] : b # a => todo[t][b].oid # todo[t][a].oid
        BY <1>3, Zenon DEF Intact, Owned, OwnedAt
      <4>3. todo[t][j + 1].oid # todo[t][i + 1].oid
        BY <3>1, <4>1, <4>2, Zenon
      <4> QED BY <3>1, <4>1, <4>3, Zenon
    <3>3. Owned /\ table'[todo[t][i + 1].oid] = table[todo[t][i + 1].oid]
      BY <1>3, <2>1, <2>3, <3>1, Zenon DEF Intact
    <3>4. \A j \in DOMAIN todo'[t] : j # i => todo'[t][j].oid # todo[t][i + 1].oid
      BY <3>1, <3>2, Zenon
    <3>5. OwnedAt(t, i)'
      BY <3>1, <3>3, <3>4, OwnedMoved, SMT
    <3> QED BY <2>3, <3>5, Zenon
  <2> QED BY <2>2, <2>3, Zenon
<1>14. \A g \in garbage : g[1] \in Oid /\ g[1] # w.oid
  <2>1. table[w.oid].val # Dead
    BY <1>5, RecoveryAssumption, Zenon
  <2> QED BY <1>3, <1>6, <2>1, Zenon DEF Intact, Buried
<1>15. Buried'
  <2>1. ASSUME NEW g \in garbage
        PROVE  Records(g[1])' # {} /\ LastRecord(g[1])'.kind = "delete" /\ table'[g[1]].val = Dead
    BY <1>3, <1>7, <1>8, <1>14, Zenon DEF Intact, Buried, Unmoved
  <2>2. CASE w.op # "delete"
    BY <1>3, <2>1, <2>2, Zenon DEF Intact, Buried
  <2>3. CASE w.op = "delete"
    <3>1. <<w.oid, t>>[1] = w.oid /\ table'[w.oid].val = Dead /\ LastRecord(w.oid)'.kind = "delete"
      BY <1>2, <1>7, <1>9, <2>3, SMTT(30)
    <3>2. \A g \in garbage' : g \in garbage \/ g = <<w.oid, t>>
      BY <1>3, <2>3, Zenon
    <3>3. Records(w.oid)' # {}
      BY <1>9, Zenon
    <3>4. \A g \in garbage' : /\ Records(g[1])' # {} /\ LastRecord(g[1])'.kind = "delete"
                              /\ table'[g[1]].val = Dead
      BY <2>1, <3>1, <3>2, <3>3, Zenon
    <3>5. \A g \in garbage, h \in garbage : g[1] = h[1] => g = h
      BY <1>3, Zenon DEF Intact, Buried
    <3>6. \A g \in garbage', h \in garbage' : g[1] = h[1] => g = h
      BY <1>14, <3>1, <3>2, <3>5, Zenon
    <3> QED BY <3>4, <3>6, Zenon DEF Buried
  <2> QED BY <2>2, <2>3, Zenon
<1>16. Right'
  <2> SUFFICES ASSUME NEW o \in Oid, (Records(o) # {})', Untangled(o)'
               PROVE  InFile(o)' /\ InTable(o)'
    BY Zenon DEF Right
  <2>1. CASE o # w.oid
    <3>1. /\ Records(o) # {} /\ Untangled(o) /\ LastRecord(o)' = LastRecord(o) /\ Shown(o)' = Shown(o)
          /\ Done(o)' <=> Done(o)
      BY <1>8, <2>1, Zenon DEF Unmoved
    <3>2. InFile(o) /\ InTable(o)
      BY <3>1, Zenon DEF Intact, Right
    <3> QED BY <1>3, <1>7, <2>1, <3>1, <3>2, Zenon DEF InFile, InTable
  <2>2. CASE o = w.oid
    <3>1. InFile(o)'
      BY <1>9, <2>2, Zenon DEF InFile
    <3>2. CASE w.op = "delete"
      BY <1>2, <1>3, <1>7, <1>9, <2>2, <3>1, <3>2, SMTT(30) DEF InTable, AfterRedo
    <3>3. CASE w.op # "delete"
      <4>1. Shown(w.oid)' = w.val
        BY <1>2, <1>9, <3>3, Zenon DEF Effect
      <4> QED BY <1>3, <1>7, <2>2, <3>1, <3>3, <4>1, SMTT(30) DEF InTable, AfterRedo
    <3> QED BY <3>2, <3>3, Zenon
  <2> QED BY <2>1, <2>2, Zenon
<1> QED BY <1>3, <1>11, <1>13, <1>15, <1>16, Zenon DEF Intact, Clean, Scanned, AfterRedo

\* What vacuum does to an object.
LEMMA VacuumCell ==
    ASSUME PageType, NEW old, NEW ins, NEW unl, vacuum(old, ins, unl), NEW x \in Oid
    PROVE  LET oids == {g[1] : g \in {h \in garbage : h[2] <= old}} \cup ins IN
              /\ x \in oids => table'[x] = Empty
              /\ x \notin oids => table'[x].val = table[x].val
              /\ x \notin oids \cup unl => table'[x] = table[x]
              /\ garbage' = garbage \ {h \in garbage : h[2] <= old}
<1> DEFINE oids == {g[1] : g \in {h \in garbage : h[2] <= old}} \cup ins
<1>1. table[x] \in [val : Label, own : Tx \cup {NoTx}]
  BY Zenon DEF PageType, Cell
<1>2. /\ table' = [o \in Oid |-> CASE o \in oids -> Empty
                                   [] o \in unl \ oids -> [table[o] EXCEPT !.own = NoTx]
                                   [] OTHER -> table[o]]
      /\ garbage' = garbage \ {h \in garbage : h[2] <= old}
  BY Zenon DEF vacuum
<1> HIDE DEF oids
<1>3. x \in oids => table'[x] = Empty
  BY <1>2, Zenon
<1>4. ASSUME x \notin oids, x \in unl PROVE table'[x] = [table[x] EXCEPT !.own = NoTx]
  BY <1>2, <1>4, Zenon
<1>5. x \notin oids \cup unl => table'[x] = table[x]
  BY <1>2, Zenon
<1>6. [table[x] EXCEPT !.own = NoTx].val = table[x].val
  BY <1>1, Zenon
<1> QED BY <1>2, <1>3, <1>4, <1>5, <1>6, Zenon DEF oids

\* It removes what was deleted or never committed, and leaves the rest.
LEMMA IntactVacuum ==
    ASSUME LsnInv, PageType, Intact, mode = "up", NEW old, NEW ins, NEW unl, vacuum(old, ins, unl),
           \A x \in ins \cap Oid : table[x].val = Free,
           \A o : Unmoved(o), UNCHANGED <<mode, file, valid>>
    PROVE  Buried' /\ Right'
<1> DEFINE items == {h \in garbage : h[2] <= old}
           oids == {g[1] : g \in items} \cup ins
<1>1. \A x \in Oid : /\ x \in oids => table'[x] = Empty
                     /\ x \notin oids => table'[x].val = table[x].val
  BY VacuumCell, Zenon
<1>2. garbage' = garbage \ items /\ garbage \subseteq Oid \X Tx
  BY Zenon DEF vacuum, PageType
<1>3. \A g \in garbage : /\ g[1] \in Oid
                         /\ Records(g[1]) # {} /\ LastRecord(g[1]).kind = "delete" /\ table[g[1]].val = Dead
  BY <1>2, Zenon DEF Intact, Buried
<1>4. Buried'
  <2>1. ASSUME NEW g \in garbage'
        PROVE  Records(g[1])' # {} /\ LastRecord(g[1])'.kind = "delete" /\ table'[g[1]].val = Dead
    <3>1. g \in garbage /\ g \notin items
      BY <1>2, Zenon
    <3>2. g[1] \notin ins
      BY <1>3, <3>1, RecoveryAssumption, Zenon
    <3>3. g[1] \notin {h[1] : h \in items}
      BY <3>1, Zenon DEF Intact, Buried
    <3> QED BY <1>1, <1>3, <3>1, <3>2, <3>3, Zenon DEF Unmoved
  <2> QED BY <1>2, <2>1, Zenon DEF Intact, Buried
<1>5. Right'
  <2> SUFFICES ASSUME NEW o \in Oid, (Records(o) # {})', Untangled(o)'
               PROVE  InFile(o)' /\ InTable(o)'
    BY Zenon DEF Right
  <2>1. /\ Records(o) # {} /\ Untangled(o) /\ LastRecord(o)' = LastRecord(o) /\ Shown(o)' = Shown(o)
        /\ Done(o)' <=> Done(o)
    BY Zenon DEF Unmoved
  <2>2. InFile(o) /\ InTable(o)
    BY <2>1, Zenon DEF Intact, Right
  <2>3. CASE o \notin oids
    <3>1. table'[o].val = table[o].val
      BY <1>1, <2>3, Zenon
    <3> QED BY <2>1, <2>2, <3>1, Zenon DEF InFile, InTable
  <2>4. CASE o \in {g[1] : g \in items}
    <3>1. LastRecord(o).kind = "delete"
      BY <1>3, <2>4, Zenon
    <3>2. Shown(o) = Free /\ table'[o].val = Free
      BY <1>1, <2>4, <3>1, SMTT(30) DEF Shown, Effect, Empty
    <3> QED BY <2>1, <2>2, <3>2, Zenon DEF InFile, InTable, AfterRedo
  <2>5. CASE o \in ins
    <3>1. table[o].val = Free /\ table'[o].val = Free
      BY <1>1, <2>5, SMTT(30) DEF Empty
    <3> QED BY <2>1, <2>2, <3>1, Zenon DEF InFile, InTable
  <2> QED BY <2>3, <2>4, <2>5, Zenon
<1> QED BY <1>4, <1>5, Zenon

\* The end of a commit.
LEMMA IntactCommitEnd ==
    ASSUME LsnInv, PageType, Intact, NEW t \in Tx, commit_end(t)
    PROVE  Intact'
<1>1. /\ mode = "up" /\ UNCHANGED <<mode, file, valid, todo>> /\ vacuum(oldest, {}, {})
      /\ append_tx("commit", t)
  BY Zenon DEF commit_end
<1>2. /\ \A o : Unmoved(o)
      /\ \A i \in DOMAIN log' : IsData(log'[i]) => i \in DOMAIN log /\ log'[i] = log[i]
  BY <1>1, TxRecordUnmoved, Zenon
<1>3. Buried' /\ Right'
  BY <1>1, <1>2, IntactVacuum, Zenon
<1>4. Known'
  BY <1>1, <1>2, Zenon DEF Intact, Known, IsData
<1>5. Owned'
  <2>1. ASSUME NEW u \in Tx, NEW i \in DOMAIN todo[u]
        PROVE  table'[todo[u][i].oid] = table[todo[u][i].oid]
    <3>1. todo[u] \in Seq(Write)
      BY Zenon DEF LsnInv, LogType
    <3>2. todo[u][i] \in Write
      BY <3>1, SMTT(30)
    <3>3. todo[u][i].oid \in Oid
      BY <3>2, Zenon DEF Write
    <3>4. table[todo[u][i].oid].val # Dead
      <4>1. OwnedAt(u, i)
        BY <1>1, Zenon DEF Intact, Owned
      <4>2. Free # Dead /\ Dead \notin Values
        BY RecoveryAssumption, Zenon
      <4> QED BY <4>1, <4>2, Zenon DEF OwnedAt
    <3>5. todo[u][i].oid \notin {g[1] : g \in garbage}
      BY <1>1, <3>4, Zenon DEF Intact, Buried
    <3>6. todo[u][i].oid \notin {g[1] : g \in {h \in garbage : h[2] <= oldest}} \cup {}
      BY <3>5, Zenon
    <3> QED BY <1>1, <3>3, <3>6, VacuumCell, SMTT(30)
  <2> QED BY <1>1, <2>1, OwnedKept, Zenon DEF Intact, Owned
<1> QED BY <1>1, <1>3, <1>4, <1>5, Zenon DEF Intact, Clean, Scanned, AfterRedo

\* An abort.
LEMMA IntactAbort ==
    ASSUME LsnInv, PageType, Intact, NEW t \in Tx, abort_transaction(t)
    PROVE  Intact'
<1> DEFINE ins == Written(t, {"insert"})
           unl == Written(t, {"update", "delete"})
<1>1. /\ mode = "up" /\ UNCHANGED <<mode, file, valid>> /\ vacuum(Oldest(t), ins, unl)
      /\ append_tx("abort", t) /\ todo' = [todo EXCEPT ![t] = <<>>]
  BY Zenon DEF abort_transaction
<1>2. /\ \A o : Unmoved(o)
      /\ \A i \in DOMAIN log' : IsData(log'[i]) => i \in DOMAIN log /\ log'[i] = log[i]
  BY <1>1, TxRecordUnmoved, Zenon
<1>3. /\ \A x \in ins : table[x].val = Free
      /\ \A x \in ins \cup unl : table[x].own = t
  BY <1>1, SMTT(30) DEF Written, Intact, Owned, OwnedAt
<1> HIDE DEF ins, unl
<1>4. Buried' /\ Right'
  BY <1>1, <1>2, <1>3, IntactVacuum, Zenon
<1>5. todo \in [Tx -> Seq(Write)]
  BY Zenon DEF LsnInv, LogType
<1>6. DOMAIN todo'[t] = {} /\ \A u \in Tx : u # t => todo'[u] = todo[u]
  BY <1>1, <1>5, SMTT(30)
<1>7. Known'
  BY <1>1, <1>2, <1>6, Zenon DEF Intact, Known, IsData
<1>8. Owned'
  <2>1. ASSUME NEW u \in Tx, u # t, NEW i \in DOMAIN todo[u]
        PROVE  table'[todo[u][i].oid] = table[todo[u][i].oid]
    <3>1. todo[u] \in Seq(Write)
      BY <1>5, Zenon
    <3>2. todo[u][i] \in Write
      BY <3>1, SMTT(30)
    <3>3. todo[u][i].oid \in Oid
      BY <3>2, Zenon DEF Write
    <3>4. table[todo[u][i].oid].val # Dead /\ table[todo[u][i].oid].own = u
      <4>1. OwnedAt(u, i)
        BY <1>1, Zenon DEF Intact, Owned
      <4>2. Free # Dead /\ Dead \notin Values
        BY RecoveryAssumption, Zenon
      <4> QED BY <4>1, <4>2, Zenon DEF OwnedAt
    <3>5. todo[u][i].oid \notin {g[1] : g \in garbage}
      BY <1>1, <3>4, Zenon DEF Intact, Buried
    <3>6. todo[u][i].oid \notin ({g[1] : g \in {h \in garbage : h[2] <= Oldest(t)}} \cup ins) \cup unl
      BY <1>3, <2>1, <3>4, <3>5, Zenon
    <3> QED BY <1>1, <3>3, <3>6, VacuumCell, SMTT(30)
  <2> SUFFICES ASSUME NEW u \in Tx, NEW i \in DOMAIN todo'[u]
               PROVE  OwnedAt(u, i)'
    BY Zenon DEF Owned
  <2>2. u # t /\ todo'[u] = todo[u]
    BY <1>6, Zenon
  <2> QED BY <1>1, <2>1, <2>2, OwnedKept, Zenon DEF Intact
<1> QED BY <1>1, <1>4, <1>7, <1>8, Zenon DEF Intact, Clean, Scanned, AfterRedo

\* A page is written: by the session, by recovery or by the regular end. An
\* object that is done has in the table what the file has to have.
LEMMA IntactFlush ==
    ASSUME LsnInv, PageType, Intact, NEW p \in Page, flush(p)
    PROVE  Intact'
<1>1. /\ mode \in {"up", "flush", "shutflush"} /\ UNCHANGED <<mode, log, cursor, maxlsn, valid, table, todo, garbage>>
      /\ dirty' = dirty \ {p}
  BY Zenon DEF flush, WritePage, logs, scan, txs
<1>2. /\ file'.slots = file.slots
      /\ \A o \in Oid : file'.cells[o] = IF PageOf(o) = p THEN table[o] ELSE file.cells[o]
  <2>1. file \in [npages : 0 .. MaxPages, slots : SUBSET Page, cells : [Oid -> Cell]]
    BY Zenon DEF PageType
  <2>2. file' = [file EXCEPT !.cells = [o \in Oid |-> IF PageOf(o) = p THEN table[o] ELSE file.cells[o]]]
    BY Zenon DEF flush, WritePage
  <2>3. file'.slots = file.slots /\ file'.cells = [o \in Oid |-> IF PageOf(o) = p THEN table[o] ELSE file.cells[o]]
    BY <2>1, <2>2, Zenon
  <2> QED BY <2>3, Zenon
<1>3. \A o : Unmoved(o)
  BY <1>1, SameLogUnmoved, Zenon
<1>4. Known'
  BY <1>1, <1>2, Zenon DEF Intact, Known, IsData
<1>5. mode' = "up" => Owned' /\ Buried'
  <2>1. Owned => Owned'
    BY <1>1, OwnedKept, Zenon DEF Owned
  <2>2. Buried => Buried'
    BY <1>1, <1>3, Zenon DEF Buried, Unmoved
  <2> QED BY <1>1, <2>1, <2>2, Zenon DEF Intact
<1>6. Clean' /\ Scanned'
  BY <1>1, <1>2, Zenon DEF Intact, Clean, Scanned, AfterRedo
<1>7. Right'
  <2> SUFFICES ASSUME NEW o \in Oid, (Records(o) # {})', Untangled(o)'
               PROVE  InFile(o)' /\ InTable(o)'
    BY Zenon DEF Right
  <2>1. /\ Records(o) # {} /\ Untangled(o) /\ LastRecord(o)' = LastRecord(o) /\ Shown(o)' = Shown(o)
        /\ Done(o)' <=> Done(o)
    BY <1>3, Zenon DEF Unmoved
  <2>2. InFile(o) /\ InTable(o)
    BY <2>1, Zenon DEF Intact, Right
  <2>3. mode \in AfterRedo \cup Session
    BY <1>1, Zenon DEF AfterRedo, Session
  <2>4. InFile(o)'
    BY <1>2, <2>1, <2>2, <2>3, Zenon DEF InFile, InTable
  <2>5. InTable(o)'
    BY <1>1, <2>1, <2>2, Zenon DEF InTable
  <2> QED BY <2>4, <2>5, Zenon
<1> QED BY <1>1, <1>4, <1>5, <1>6, <1>7, Zenon DEF Intact

\* The regular end, up to the truncation of the log.
LEMMA IntactClose ==
    ASSUME LsnInv, PageType, Intact, close \/ close_flushed \/ close_file \/ close_log
    PROVE  Intact'
<1>1. /\ mode \in Session /\ mode' \in Session \ {"up"} /\ UNCHANGED <<log, valid, table, todo, garbage>>
  BY Zenon DEF close, close_flushed, close_file, close_log, logs, pages, txs, Session
<1>2. file'.slots = file.slots /\ file'.cells = file.cells
  <2>1. file \in [npages : 0 .. MaxPages, slots : SUBSET Page, cells : [Oid -> Cell]]
    BY Zenon DEF PageType
  <2>2. CASE close_file
    <3>1. valid = file.slots
      BY <2>2, Zenon DEF close_file, Intact, Known
    <3> QED BY <2>1, <2>2, <3>1, Zenon DEF close_file
  <2>3. CASE ~ close_file
    BY <2>3, Zenon DEF close, close_flushed, close_log, pages
  <2> QED BY <2>2, <2>3, Zenon
<1>3. \A o : Unmoved(o)
  BY <1>1, SameLogUnmoved, Zenon
<1>4. Known'
  BY <1>1, <1>2, Zenon DEF Intact, Known, IsData, Session
<1>5. Right'
  BY <1>1, <1>2, <1>3, RightKept, Zenon DEF Intact, AfterRedo, Session
<1> QED BY <1>1, <1>4, <1>5, Zenon DEF Intact, Clean, Scanned, AfterRedo, Session

\* The end of the process loses the table, and opening the file reads it.
LEMMA IntactCrash ==
    ASSUME LsnInv, PageType, Intact, crash
    PROVE  Intact'
<1>1. mode' = "down" /\ UNCHANGED <<log, file>> /\ todo' = [t \in Tx |-> <<>>]
  BY Zenon DEF crash, LoseMemory
<1>2. \A o : Unmoved(o)
  BY <1>1, SameLogUnmoved, Zenon
<1>3. Known'
  BY <1>1, SMTT(30) DEF Intact, Known, IsData
<1>4. Right'
  BY <1>1, <1>2, RightInFile, Zenon DEF Intact
<1> QED BY <1>1, <1>3, <1>4, Zenon DEF Intact, Clean, Scanned, AfterRedo

\* Opening the file: nothing is replayed yet.
LEMMA IntactOpen ==
    ASSUME LsnInv, PageType, Intact, open
    PROVE  Intact'
<1>1. /\ mode' = "redo" /\ valid' = file.slots /\ table' = file.cells /\ maxlsn' = MaxLsn /\ cursor' = 1
      /\ UNCHANGED <<log, file, todo>>
  BY Zenon DEF open, txs
<1>2. \A o : Unmoved(o)
  BY <1>1, SameLogUnmoved, Zenon
<1>3. Known'
  BY <1>1, Zenon DEF Intact, Known, IsData
<1>4. Right'
  BY <1>1, <1>2, RightInFile, Zenon DEF Intact
<1>5. Clean'
  BY <1>1, Zenon DEF Clean
<1>6. Scanned'
  <2>1. log \in Seq(LogRecord)
    BY Zenon DEF LsnInv, LogType
  <2>2. MaxLsn' = MaxLsn /\ 1 \in 1 .. Len(log) + 1
    BY <1>1, <2>1, SMTT(30) DEF MaxLsn, Checkpoints
  <2>3. \A o : Replayed(o)' = {}
    BY <1>1, <2>1, SMTT(30) DEF Replayed, Records
  <2> QED BY <1>1, <2>2, <2>3, Zenon DEF Scanned
<1> QED BY <1>1, <1>3, <1>4, <1>5, <1>6, Zenon DEF Intact

\* A record that is passed over.
LEMMA IntactSkip ==
    ASSUME LsnInv, PageType, Intact, redo_skip
    PROVE  Intact'
<1>1. /\ mode = "redo" /\ cursor \in DOMAIN log /\ Skips(log[cursor]) /\ cursor' = cursor + 1
      /\ UNCHANGED <<mode, log, maxlsn, file, valid, table, dirty, todo>>
  BY Zenon DEF redo_skip, logs, pages, txs
<1>2. \A o : Unmoved(o)
  BY <1>1, SameLogUnmoved, Zenon
<1>3. log \in Seq(LogRecord) /\ Len(log) \in Nat /\ DOMAIN log = 1 .. Len(log) /\ cursor \in Nat /\ maxlsn \in Nat
  BY SMTT(30) DEF LsnInv, LogType, PageType
<1>4. Known'
  BY <1>1, Zenon DEF Intact, Known, IsData
<1>5. Right'
  BY <1>1, <1>2, RightInFile, Zenon DEF Intact
<1>6. Clean'
  BY <1>1, Zenon DEF Intact, Clean
<1>7. Scanned'
  <2>1. ASSUME NEW o PROVE Replayed(o)' = Replayed(o)
    <3>1. Records(o)' = Records(o) /\ Records(o) \subseteq DOMAIN log
      BY <1>2, Zenon DEF Unmoved, Records
    <3>2. \A i \in Records(o) : i < cursor + 1 <=> i < cursor \/ i = cursor
      BY <1>3, <3>1, SMTT(30)
    <3>3. cursor \in Records(o) => ~ (log[cursor].lsn > maxlsn)
      <4>1. log[cursor] \in LogRecord
        BY <1>1, <1>3, SMTT(30)
      <4>2. log[cursor].lsn \in Nat
        BY <4>1, Zenon DEF LogRecord
      <4> QED BY <1>1, <1>3, <4>2, SMTT(30) DEF Records, Skips
    <3> QED BY <1>1, <3>1, <3>2, <3>3, Zenon DEF Replayed
  <2>2. MaxLsn' = MaxLsn /\ cursor + 1 \in 1 .. Len(log) + 1
    BY <1>1, <1>3, SMTT(30) DEF MaxLsn, Checkpoints
  <2>3. \A o : Replayed(o)' = Replayed(o)
    BY <2>1, Zenon
  <2> QED BY <1>1, <2>2, <2>3, Zenon DEF Intact, Scanned, Effect
<1> QED BY <1>1, <1>4, <1>5, <1>6, <1>7, Zenon DEF Intact

\* A record that is replayed: the table has what it says.
LEMMA IntactRedo ==
    ASSUME LsnInv, PageType, Intact, redo
    PROVE  Intact'
<1>0. PICK r : r = log[cursor]
  BY Zenon
<1>1. /\ mode = "redo" /\ cursor \in DOMAIN log /\ ~ Skips(r) /\ cursor' = cursor + 1
      /\ table' = [table EXCEPT ![r.oid] = Effect(r)] /\ dirty' = dirty \cup {PageOf(r.oid)}
      /\ UNCHANGED <<mode, log, maxlsn, file, valid, todo>>
  BY <1>0, Zenon DEF redo, logs, txs
<1>2. \A o : Unmoved(o)
  BY <1>1, SameLogUnmoved, Zenon
<1>3. /\ log \in Seq(LogRecord) /\ Len(log) \in Nat /\ DOMAIN log = 1 .. Len(log)
      /\ cursor \in Nat /\ maxlsn \in Nat /\ table \in [Oid -> Cell]
  BY SMTT(30) DEF LsnInv, LogType, PageType
<1>4. r \in LogRecord /\ r.lsn \in Nat
  <2>1. r \in LogRecord
    BY <1>0, <1>1, <1>3, SMTT(30)
  <2> QED BY <2>1, Zenon DEF LogRecord
<1>5. IsData(r) /\ r.lsn > maxlsn /\ r.oid \in Oid
  <2>1. IsData(r) /\ r.lsn > maxlsn
    BY <1>1, <1>3, <1>4, SMTT(30) DEF Skips
  <2> QED BY <1>0, <1>1, <2>1, Zenon DEF PageType
<1>6. table'[r.oid] = Effect(r) /\ \A x \in Oid : x # r.oid => table'[x] = table[x]
  BY <1>1, <1>3, <1>5, Zenon
<1>7. Known'
  BY <1>1, Zenon DEF Intact, Known, IsData
<1>8. Right'
  BY <1>1, <1>2, RightInFile, Zenon DEF Intact
<1>9. Clean'
  BY <1>1, <1>6, Zenon DEF Intact, Clean
<1>10. MaxLsn' = MaxLsn /\ cursor + 1 \in 1 .. Len(log) + 1
  BY <1>1, <1>3, SMTT(30) DEF MaxLsn, Checkpoints
<1>11. ASSUME NEW o \in Oid
       PROVE  /\ Replayed(o)' = {} => table'[o] = file.cells[o]
              /\ Replayed(o)' # {} => table'[o] = Effect(log[Max(Replayed(o)')])
  <2>1. Records(o)' = Records(o) /\ Records(o) \subseteq DOMAIN log
    BY <1>2, Zenon DEF Unmoved, Records
  <2>2. \A i \in Records(o) : i < cursor + 1 <=> i < cursor \/ i = cursor
    BY <1>3, <2>1, SMTT(30)
  <2>3. CASE o = r.oid
    <3>1. cursor \in Replayed(o)' /\ \A i \in Replayed(o)' : i \in Nat /\ i <= cursor
      <4>1. cursor \in Records(o) /\ cursor < cursor + 1
        BY <1>0, <1>1, <1>3, <1>5, <2>3, SMTT(30) DEF Records
      <4>2. cursor \in Replayed(o)'
        BY <1>0, <1>1, <1>5, <2>1, <4>1, Zenon DEF Replayed
      <4>3. \A i \in Replayed(o)' : i \in Nat /\ i <= cursor
        BY <1>1, <1>3, <2>1, SMTT(30) DEF Replayed
      <4> QED BY <4>2, <4>3, Zenon
    <3>2. Max(Replayed(o)') = cursor
      <4> DEFINE S == Replayed(o)'
      <4> HIDE DEF S
      <4>1. cursor \in S /\ \A i \in S : i \in Nat /\ i <= cursor
        BY <3>1, Zenon DEF S
      <4>2. Max(S) = cursor
        BY <1>3, <4>1, MaxIs, Zenon
      <4> QED BY <4>2, Zenon DEF S
    <3> QED BY <1>0, <1>6, <2>3, <3>1, <3>2, Zenon
  <2>4. CASE o # r.oid
    <3>1. cursor \notin Records(o)
      BY <1>0, <2>4, Zenon DEF Records
    <3>2. Replayed(o)' = Replayed(o)
      BY <1>1, <2>1, <2>2, <3>1, Zenon DEF Replayed
    <3> QED BY <1>1, <1>6, <2>4, <3>2, Zenon DEF Intact, Scanned
  <2> QED BY <2>3, <2>4, Zenon
<1>12. Scanned'
  BY <1>1, <1>10, <1>11, Zenon DEF Intact, Scanned, Effect
<1> QED BY <1>1, <1>7, <1>8, <1>9, <1>12, Zenon DEF Intact

\* The scan is over: the last record about an object was replayed, or all were
\* passed over, because they are before a checkpoint, and the file has it.
LEMMA IntactRedoEnd ==
    ASSUME LsnInv, PageType, Intact, redo_end
    PROVE  Intact'
<1>1. /\ mode = "redo" /\ cursor \notin DOMAIN log /\ mode' \in {"flush", "logclose"}
      /\ UNCHANGED <<log, cursor, maxlsn, file, valid, table, dirty, todo, garbage>>
  BY Zenon DEF redo_end, logs, scan, pages, txs
<1>2. \A o : Unmoved(o)
  BY <1>1, SameLogUnmoved, Zenon
<1>3. log \in Seq(LogRecord) /\ Len(log) \in Nat /\ DOMAIN log = 1 .. Len(log) /\ maxlsn \in Nat
  BY SMTT(30) DEF LsnInv, LogType, PageType
<1>4. maxlsn = MaxLsn /\ \A i \in DOMAIN log : i < cursor
  BY <1>1, <1>3, SMTT(30) DEF Intact, Scanned
<1>5. ASSUME NEW o \in Oid, Records(o) # {}, Untangled(o)
      PROVE  table[o].val = Shown(o)
  <2> DEFINE m == Max(Records(o))
  <2>1. m \in Records(o) /\ m \in DOMAIN log /\ \A i \in Records(o) : i <= m
    BY <1>5, LastOne, Zenon
  <2>2. LastRecord(o) = log[m]
    BY Zenon DEF LastRecord
  <2>3. \A i \in Records(o) : i \in DOMAIN log /\ log[i] \in LogRecord /\ log[i].lsn \in Nat
    <3>1. \A i \in Records(o) : i \in DOMAIN log /\ log[i] \in LogRecord
      BY <1>3, SMTT(30) DEF Records
    <3> QED BY <3>1, Zenon DEF LogRecord
  <2> HIDE DEF m
  <2>4. CASE log[m].lsn > maxlsn
    <3> DEFINE S == Replayed(o)
    <3>1. m \in S /\ \A i \in S : i \in Nat /\ i <= m
      BY <1>3, <1>4, <2>1, <2>4, SMTT(30) DEF Replayed, Records
    <3>2. m \in Nat
      BY <3>1, Zenon
    <3> HIDE DEF S
    <3>3. Max(S) = m
      BY <3>1, <3>2, MaxIs, Zenon
    <3>4. table[o] = Effect(log[m])
      BY <1>1, <3>1, <3>3, Zenon DEF S, Intact, Scanned
    <3> QED BY <2>2, <3>4, Zenon DEF Shown
  <2>5. CASE ~ (log[m].lsn > maxlsn)
    <3>1. log[m].lsn <= MaxLsn /\ IsData(log[m])
      BY <1>3, <1>4, <2>1, <2>3, <2>5, SMTT(30) DEF Records
    <3>2. Done(o)
      <4>1. \E c \in Checkpoints : m < c
        BY <2>1, <3>1, PassedOver, Zenon
      <4> QED BY <4>1, Zenon DEF Done, m
    <3>3. Checkpoints # {}
      BY <3>2, Zenon DEF Done
    <3>4. PICK c \in Checkpoints : MaxLsn = log[c].lsn
      BY <3>3, MaxLsnIsOne, Zenon
    <3>5. \A i \in Records(o) : log[i].lsn <= maxlsn
      BY <1>4, <1>5, <2>2, <3>1, <3>4, Zenon DEF Untangled
    <3>6. Replayed(o) = {}
      BY <1>3, <2>3, <3>5, SMTT(30) DEF Replayed
    <3>7. table[o] = file.cells[o]
      BY <1>1, <3>6, Zenon DEF Intact, Scanned
    <3> QED BY <1>5, <3>2, <3>7, Zenon DEF Intact, Right, InFile
  <2> QED BY <2>4, <2>5, Zenon
<1>6. Known'
  BY <1>1, Zenon DEF Intact, Known, IsData
<1>7. Clean'
  BY <1>1, Zenon DEF Intact, Clean
<1>8. Right'
  <2> SUFFICES ASSUME NEW o \in Oid, (Records(o) # {})', Untangled(o)'
               PROVE  InFile(o)' /\ InTable(o)'
    BY Zenon DEF Right
  <2>1. /\ Records(o) # {} /\ Untangled(o) /\ LastRecord(o)' = LastRecord(o) /\ Shown(o)' = Shown(o)
        /\ Done(o)' <=> Done(o)
    BY <1>2, Zenon DEF Unmoved
  <2>2. InFile(o)
    BY <2>1, Zenon DEF Intact, Right
  <2>3. table[o].val = Shown(o)
    BY <1>5, <2>1, Zenon
  <2> QED BY <1>1, <2>1, <2>2, <2>3, Zenon DEF InFile, InTable, Session
<1> QED BY <1>1, <1>6, <1>7, <1>8, Zenon DEF Intact, Scanned

\* All pages are written before the checkpoint.
LEMMA IntactFlushed ==
    ASSUME LsnInv, PageType, Intact, redo_flushed
    PROVE  Intact'
<1>1. /\ mode = "flush" /\ dirty = {} /\ mode' = "checkpoint"
      /\ UNCHANGED <<log, file, valid, table, dirty, todo, garbage>>
  BY Zenon DEF redo_flushed, logs, pages, txs
<1>2. \A o : Unmoved(o)
  BY <1>1, SameLogUnmoved, Zenon
<1>3. Known'
  BY <1>1, Zenon DEF Intact, Known, IsData
<1>4. Right'
  BY <1>1, <1>2, RightKept, Zenon DEF Intact, AfterRedo, Session
<1>5. Clean'
  BY <1>1, Zenon DEF Intact, Clean, AfterRedo
<1> QED BY <1>1, <1>3, <1>4, <1>5, Zenon DEF Intact, Scanned

\* The checkpoint: what the log says is in the file.
LEMMA IntactCheckpoint ==
    ASSUME LsnInv, PageType, Intact, checkpoint
    PROVE  Intact'
<1>0. PICK r : r = Entry("chkpt", NoTx, 0, Free)
  BY Zenon
<1>1. /\ mode = "checkpoint" /\ mode' = "logclose" /\ append_tx("chkpt", NoTx)
      /\ UNCHANGED <<file, valid, table, dirty, todo, garbage>>
  BY Zenon DEF checkpoint, pages, txs
<1>2. r \in LogRecord /\ ~ IsData(r) /\ r.kind = "chkpt" /\ log' = Append(log, r)
  BY <1>0, <1>1, TxRecord, Zenon
<1>3. log \in Seq(LogRecord)
  BY Zenon DEF LsnInv, LogType
<1>4. /\ DOMAIN log' = 1 .. Len(log) + 1 /\ DOMAIN log = 1 .. Len(log) /\ Len(log) \in Nat
      /\ \A i \in DOMAIN log : log'[i] = log[i]
      /\ log'[Len(log) + 1] = r
  BY <1>2, <1>3, AppendRecord, Zenon
<1>5. Known'
  BY <1>1, <1>2, <1>4, SMTT(30) DEF Intact, Known, IsData
<1>6. \A o \in Oid : table[o] = file.cells[o]
  BY <1>1, Zenon DEF Intact, Clean, AfterRedo
<1>7. Clean'
  BY <1>1, <1>6, Zenon DEF Clean
<1>8. Right'
  <2> SUFFICES ASSUME NEW o \in Oid, (Records(o) # {})', Untangled(o)'
               PROVE  InFile(o)' /\ InTable(o)'
    BY Zenon DEF Right
  <2>1. Records(o) # {} /\ Untangled(o) /\ Shown(o)' = Shown(o)
    BY <1>2, NewCheckpoint, Zenon
  <2>2. table[o].val = Shown(o)
    BY <1>1, <2>1, Zenon DEF Intact, Right, InTable, AfterRedo
  <2> QED BY <1>1, <1>6, <2>1, <2>2, Zenon DEF InFile, InTable, Session
<1> QED BY <1>1, <1>5, <1>7, <1>8, Zenon DEF Intact, Scanned

\* Recovery is over, and nothing is locked or deleted yet.
LEMMA IntactLogClose ==
    ASSUME LsnInv, PageType, Forgotten, Intact, log_close
    PROVE  Intact'
<1>1. /\ mode = "logclose" /\ mode' = "up" /\ UNCHANGED <<log, file, valid, table, todo, garbage>>
  BY Zenon DEF log_close, pages, txs
<1>2. garbage' = {} /\ todo' = [t \in Tx |-> <<>>]
  BY <1>1, Zenon DEF Forgotten, Idle
<1>3. \A o : Unmoved(o)
  BY <1>1, SameLogUnmoved, Zenon
<1>4. Known'
  BY <1>1, Zenon DEF Intact, Known, IsData
<1>5. Owned' /\ Buried'
  BY <1>2, SMTT(30) DEF Owned, Buried
<1>6. Right'
  BY <1>1, <1>3, RightKept, Zenon DEF Intact, AfterRedo, Session
<1> QED BY <1>1, <1>4, <1>5, <1>6, Zenon DEF Intact, Clean, Scanned, AfterRedo

\* The truncation: an empty log says nothing.
LEMMA IntactTruncate ==
    ASSUME truncate
    PROVE  Intact'
<1>1. mode' = "down" /\ log' = <<>> /\ todo' = [t \in Tx |-> <<>>]
  BY Zenon DEF truncate, LoseMemory
<1>2. \A o : Records(o)' = {}
  BY <1>1, SMTT(30) DEF Records
<1>3. Known' /\ Right'
  BY <1>1, <1>2, SMTT(30) DEF Known, Right
<1> QED BY <1>1, <1>3, Zenon DEF Intact, Clean, Scanned, AfterRedo

\* ReplayInv is inductive.
LEMMA ReplayStep ==
    ASSUME LsnInv, ReplayInv, [Next]_vars
    PROVE  ReplayInv'
<1>1. PageType /\ PageType'
  BY TypeStep, Zenon DEF ReplayInv
<1>2. Forgotten'
  <2>1. Forgotten
    BY Zenon DEF ReplayInv
  <2>2. CASE crash \/ truncate
    BY <2>2, Zenon DEF crash, truncate, LoseMemory, Forgotten
  <2>3. CASE \E t \in Tx :
                \/ begin_transaction(t) \/ commit_transaction(t) \/ commit_dirty_node(t)
                \/ commit_end(t) \/ abort_transaction(t)
                \/ \E o \in Oid, v \in Values : add_node(t, o, v) \/ change_node(t, "update", o, v)
                \/ \E o \in Oid : change_node(t, "delete", o, Free)
    BY <2>3, SMTT(30) DEF begin_transaction, commit_transaction, commit_dirty_node, commit_end, abort_transaction,
                add_node, change_node, Forgotten, Idle
  <2>4. CASE \/ \E p \in Page : flush(p)
             \/ close \/ close_flushed \/ close_file \/ close_log
    BY <2>1, <2>4, Zenon DEF flush, close, close_flushed, close_file, close_log, Forgotten, Idle, txs
  <2>5. CASE \/ open \/ redo_skip \/ redo \/ redo_repair \/ redo_throw \/ redo_end
             \/ redo_flushed \/ checkpoint \/ log_close
    BY <2>1, <2>5, Zenon DEF open, redo_skip, redo, redo_repair, redo_throw, redo_end, redo_flushed, checkpoint,
                      log_close, Missing, Forgotten, Idle, txs
  <2>6. CASE UNCHANGED vars
    BY <2>1, <2>6, Zenon DEF vars, txs, Forgotten
  <2> QED BY <2>2, <2>3, <2>4, <2>5, <2>6, Zenon DEF Next
<1>3. ASSUME ~ grown' PROVE Intact'
  <2>1. CASE truncate
    BY <2>1, IntactTruncate, Zenon
  <2>2. CASE ~ truncate
    <3>1. ~ grown
      BY <1>3, <2>2, Zenon DEF Next, vars, pages, begin_transaction, commit_transaction, commit_dirty_node,
             commit_end, abort_transaction, add_node, change_node, allocate_page, flush, close,
             close_flushed, close_file, close_log, crash, open, redo_skip, redo, redo_repair,
             redo_throw, redo_end, redo_flushed, checkpoint, log_close
    <3>2. Intact /\ Forgotten
      BY <3>1, Zenon DEF ReplayInv
    <3>3. ~ redo_repair /\ ~ redo_throw
      <4>1. ~ Missing
        BY <3>2, Zenon DEF Missing, Intact, Known, Skips
      <4> QED BY <4>1, Zenon DEF redo_repair, redo_throw
    <3>4. CASE \E t \in Tx :
                  \/ begin_transaction(t) \/ commit_transaction(t) \/ commit_dirty_node(t)
                  \/ commit_end(t) \/ abort_transaction(t)
                  \/ \E o \in Oid, v \in Values : add_node(t, o, v) \/ change_node(t, "update", o, v)
                  \/ \E o \in Oid : change_node(t, "delete", o, Free)
      BY <1>1, <1>3, <3>2, <3>4, IntactBegin, IntactCommit, IntactCommitEnd, IntactAbort, IntactAdd, IntactChange, Zenon
    <3>5. CASE UNCHANGED vars
      <4>1. \A o : Unmoved(o)
        BY <3>5, SameLogUnmoved, Zenon DEF vars, logs
      <4>2. UNCHANGED <<mode, log, cursor, maxlsn, file, valid, table, dirty, todo, garbage>>
        BY <3>5, Zenon DEF vars, logs, scan, pages, txs
      <4>3. Right'
        BY <3>2, <4>1, <4>2, RightKept, Zenon DEF Intact, AfterRedo, Session
      <4>4. Known' /\ Clean'
        BY <3>2, <4>2, Zenon DEF Intact, Known, Clean, IsData
      <4>5. mode' = "up" => Owned' /\ Buried'
        <5>1. mode' = "up" => Owned /\ Buried
          BY <3>2, <4>2, Zenon DEF Intact
        <5>2. Owned => Owned'
          BY <4>2, OwnedKept, Zenon DEF Owned
        <5>3. \A o : Records(o)' = Records(o) /\ (Records(o) # {} => LastRecord(o)' = LastRecord(o))
          BY <4>1, Zenon DEF Unmoved
        <5>4. garbage' = garbage /\ table' = table
          BY <4>2, Zenon
        <5>5. Buried => Buried'
          BY <5>3, <5>4, Zenon DEF Buried
        <5> QED BY <5>1, <5>2, <5>5, Zenon
      <4>6. Scanned'
        <5>1. \A o : Replayed(o)' = Replayed(o)
          BY <4>1, <4>2, Zenon DEF Replayed, Unmoved
        <5>2. MaxLsn' = MaxLsn
          BY <4>2, Zenon DEF MaxLsn, Checkpoints
        <5> QED BY <3>2, <4>2, <5>1, <5>2, Zenon DEF Intact, Scanned, Effect
      <4> QED BY <3>2, <4>2, <4>3, <4>4, <4>5, <4>6, Zenon DEF Intact
    <3>6. CASE \E p \in Page : flush(p)
      BY <1>1, <3>2, <3>6, IntactFlush, Zenon
    <3>7. CASE close \/ close_flushed \/ close_file \/ close_log
      BY <1>1, <3>2, <3>7, IntactClose, Zenon
    <3>8. CASE crash \/ open
      BY <1>1, <3>2, <3>8, IntactCrash, IntactOpen, Zenon
    <3>9. CASE redo_skip \/ redo \/ redo_end
      BY <1>1, <3>2, <3>9, IntactSkip, IntactRedo, IntactRedoEnd, Zenon
    <3>10. CASE redo_flushed \/ checkpoint \/ log_close
      BY <1>1, <3>2, <3>10, IntactFlushed, IntactCheckpoint, IntactLogClose, Zenon
    <3> QED BY <2>2, <3>3, <3>4, <3>5, <3>6, <3>7, <3>8, <3>9, <3>10, Zenon DEF Next
  <2> QED BY <2>1, <2>2, Zenon
<1> QED BY <1>1, <1>2, <1>3, Zenon DEF ReplayInv

\* LogReplayed holds in every state, for all values of the constants: however
\* many crashes there are, at whatever points, recovery brings every object
\* back to the last record about it, unless a page was allocated since the log
\* was truncated or a checkpoint puts the records about it out of order
\* (apply_log, apply_redo, wa_log::checkpoint).
THEOREM ReplayTheorem == Spec => []LogReplayed
<1>1. Init => ReplayInv
  <2> SUFFICES ASSUME Init PROVE ReplayInv
    BY Zenon
  <2>1. PICK n \in InitPages :
            file = [npages |-> n, slots |-> 1 .. n, cells |-> [o \in Oid |-> InitCell(o, n)]]
    BY Zenon DEF Init
  <2>2. n \in 0 .. MaxPages /\ MaxPages \in Nat /\ 1 .. n \subseteq Page
    BY RecoveryAssumption, SMTT(30) DEF Page
  <2>3. \A o \in Oid : InitCell(o, n) \in Cell /\ Empty \in Cell
    BY RecoveryAssumption, CellTypes, Zenon DEF InitCell, Cell, Label
  <2>4. PageType
    BY <2>1, <2>2, <2>3, SMTT(30) DEF Init, PageType
  <2>5. \A o : Records(o) = {}
    BY SMTT(30) DEF Init, Records
  <2>6. Known /\ Right
    BY <2>5, SMTT(30) DEF Init, Known, Right
  <2> QED BY <2>4, <2>6, Zenon DEF Init, ReplayInv, Forgotten, Intact, Clean, Scanned, AfterRedo
<1>2. LsnInv /\ ReplayInv /\ [Next]_vars => ReplayInv'
  BY ReplayStep, Zenon
<1>3. ReplayInv => LogReplayed
  <2> SUFFICES ASSUME ReplayInv, ~ grown
               PROVE  /\ mode # "failed"
                      /\ \A o \in Oid : mode \in AfterRedo /\ Records(o) # {} /\ Untangled(o) => Restored(o)
    BY Zenon DEF LogReplayed
  <2>1. Intact
    BY Zenon DEF ReplayInv
  <2>2. ASSUME NEW o \in Oid, mode \in AfterRedo, Records(o) # {}, Untangled(o) PROVE Restored(o)
    <3>1. table[o].val = Effect(LastRecord(o)).val
      BY <2>1, <2>2, Zenon DEF Intact, Right, InTable, Shown
    <3>2. PICK i \in Records(o) : TRUE
      BY <2>2, Zenon
    <3>3. PageOf(o) \in file.slots
      BY <2>1, <3>2, Zenon DEF Intact, Known, Records
    <3>4. valid = file.slots
      BY <2>1, <2>2, Zenon DEF Intact, Known, AfterRedo
    <3> QED BY <3>1, <3>3, <3>4, Zenon DEF Restored
  <2> QED BY <2>1, <2>2, Zenon DEF Intact
<1> QED BY <1>1, <1>2, <1>3, LsnInvariant, PTL DEF Spec
=============================================================================
