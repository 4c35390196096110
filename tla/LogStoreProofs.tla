--------------------------- MODULE LogStoreProofs ---------------------------
(***************************************************************************)
(* Proofs about LogStore, for every number of sessions and logs and every  *)
(* set of ParsedLogs: types, safety, and that it implements LogLifecycle.  *)
(***************************************************************************)
EXTENDS LogStore, TLAPS

(***************************************************************************)
(* Type correctness.  TypeOK alone is not inductive: that the next row of  *)
(* a ParsedLog is a row needs the loops to stay within its sequences.      *)
(***************************************************************************)
WithinParsed ==
  \A s \in Session : pc[s] = "insert" =>
    \A t \in Table : Len(tx[s][t]) <= Len(call[s].parsed[t])

TypeInv == TypeOK /\ WithinParsed

LEMMA EmptyRowsType == EmptyRows \in ParsedLog
  BY DEF EmptyRows, ParsedLog

LEMMA NoLogType == NoLog \in LogRow
  BY DEF NoLog, LogRow, Status

LEMMA NoCallType == NoCall \in Call
  BY EmptyRowsType DEF NoCall, Call, Op

LEMMA TypeInit == Init => TypeInv
<1> SUFFICES ASSUME Init PROVE TypeInv
  OBVIOUS
<1>1. TypeOK
  BY EmptyRowsType, NoLogType, NoCallType, MaxLogsAssumption
  DEF Init, TypeOK, Place, Reply
<1>2. WithinParsed
  BY DEF Init, WithinParsed
<1> QED
  BY <1>1, <1>2 DEF TypeInv

LEMMA AnswerType ==
  ASSUME TypeOK, NEW s \in Session, NEW r \in Reply, Answer(s, r)
  PROVE  pc' \in [Session -> Place] /\ reply' \in [Session -> Reply]
  BY DEF TypeOK, Answer, Place

LEMMA UnlockType ==
  ASSUME TypeOK, NEW s \in Session, Unlock(s)
  PROVE  lock' \in [LogId -> Session \cup {NoSession}] /\ tx' \in [Session -> ParsedLog]
  BY EmptyRowsType DEF TypeOK, Unlock

LEMMA RollbackType ==
  ASSUME TypeOK, NEW s \in Session, NEW r \in Reply, Rollback(s, r)
  PROVE  TypeOK'
<1>1. Answer(s, r) /\ Unlock(s) /\ UNCHANGED <<logs, rows, nextID, call>>
  BY DEF Rollback
<1> QED
  BY <1>1, AnswerType, UnlockType DEF TypeOK

LEMMA BeginType ==
  ASSUME TypeOK, NEW s \in Session, NEW first \in Place, NEW c \in Call,
         Begin(s, first, c)
  PROVE  TypeOK'
<1>1. call' \in [Session -> Call] /\ UNCHANGED <<logs, rows, nextID, lock, tx>>
  BY DEF Begin, TypeOK
<1>2. pc' \in [Session -> Place] /\ reply' \in [Session -> Reply]
  BY AnswerType DEF Begin, TypeOK, Reply
<1> QED
  BY <1>1, <1>2 DEF TypeOK

LEMMA RequestType ==
  ASSUME TypeOK, NEW s \in Session, Receive(s)
  PROVE  TypeOK'
<1>1. ASSUME CallCreateLog(s) PROVE TypeOK'
  <2>1. [op |-> "create", log |-> 0, parsed |-> EmptyRows] \in Call
    BY EmptyRowsType DEF Call, Op
  <2> QED
    BY <1>1, <2>1, BeginType DEF CallCreateLog, Place
<1>2. ASSUME NEW l \in LogId \cup {0}, NEW p \in Payload, CallSaveParsedLog(s, l, p)
      PROVE  TypeOK'
  <2>1. [op |-> "save", log |-> l, parsed |-> p] \in Call
    BY PayloadAssumption DEF Call, Op, ParsedLog
  <2> QED
    BY <1>2, <2>1, BeginType DEF CallSaveParsedLog, Place
<1>3. ASSUME NEW l \in LogId \cup {0}, CallFailLog(s, l) PROVE TypeOK'
  <2>1. [op |-> "fail", log |-> l, parsed |-> EmptyRows] \in Call
    BY EmptyRowsType DEF Call, Op
  <2> QED
    BY <1>3, <2>1, BeginType DEF CallFailLog, Place
<1> QED
  BY <1>1, <1>2, <1>3 DEF Receive

LEMMA NextRowIsRow ==
  ASSUME TypeInv, NEW s \in Session, NEW t \in Table, Inserting(s, t)
  PROVE  /\ NextRow(s, t) \in Row
         /\ Len(tx[s][t]) + 1 <= Len(call[s].parsed[t])
<1>1. tx[s][t] \in Seq(Row) /\ call[s].parsed[t] \in Seq(Row)
  BY DEF TypeInv, TypeOK, Call, ParsedLog
<1>2. Len(tx[s][t]) \in Nat /\ Len(call[s].parsed[t]) \in Nat
  BY <1>1
<1>3. Len(tx[s][t]) + 1 \in 1 .. Len(call[s].parsed[t])
  <2>1. Len(tx[s][t]) <= Len(call[s].parsed[t]) /\ Len(tx[s][t]) # Len(call[s].parsed[t])
    BY DEF TypeInv, WithinParsed, Inserting, Inserted
  <2> QED
    BY <1>2, <2>1
<1> QED
  BY <1>1, <1>2, <1>3 DEF NextRow

LEMMA CreateLogType ==
  ASSUME TypeOK, NEW s \in Session, CreateLog(s)
  PROVE  TypeOK'
<1>1. nextID \in LogId /\ nextID' \in 1 .. MaxLogs + 1
  BY MaxLogsAssumption DEF CreateLog, LogId
<1>2. logs' \in [LogId -> LogRow]
  BY <1>1 DEF CreateLog, TypeOK, NoLog, LogRow, Status
<1>3. call' \in [Session -> Call]
  <2>1. CASE call' = [call EXCEPT ![s].log = nextID]
    BY <1>1, <2>1 DEF TypeOK, Call
  <2>2. CASE call' = call
    BY <2>2 DEF TypeOK
  <2> QED
    BY <2>1, <2>2 DEF CreateLog
<1>4. pc' \in [Session -> Place] /\ reply' \in [Session -> Reply]
  BY AnswerType DEF CreateLog, Reply
<1>5. UNCHANGED <<rows, lock, tx>>
  BY DEF CreateLog
<1> QED
  BY <1>1, <1>2, <1>3, <1>4, <1>5 DEF TypeOK

LEMMA FailLogType ==
  ASSUME TypeOK, NEW s \in Session, FailLog(s)
  PROVE  TypeOK'
<1>1. logs' \in [LogId -> LogRow]
  BY DEF FailLog, TypeOK, LogRow, Status
<1>2. pc' \in [Session -> Place] /\ reply' \in [Session -> Reply]
  BY AnswerType DEF FailLog, Reply
<1> QED
  BY <1>1, <1>2 DEF FailLog, TypeOK

LEMMA CommitType ==
  ASSUME TypeOK, NEW s \in Session, CommitParsed(s)
  PROVE  TypeOK'
<1>1. /\ Len(call[s].parsed["nodes"]) \in Nat
      /\ Len(call[s].parsed["ports"]) \in Nat
  BY DEF TypeOK, Call, ParsedLog, Table
<1>2. logs' \in [LogId -> LogRow]
  BY <1>1 DEF CommitParsed, TypeOK, LogRow, Status
<1>3. rows' \in [LogId -> ParsedLog]
  BY DEF CommitParsed, TypeOK
<1>4. pc' \in [Session -> Place] /\ reply' \in [Session -> Reply]
  BY AnswerType DEF CommitParsed, Reply
<1>5. lock' \in [LogId -> Session \cup {NoSession}] /\ tx' \in [Session -> ParsedLog]
  BY UnlockType DEF CommitParsed
<1> QED
  BY <1>2, <1>3, <1>4, <1>5 DEF CommitParsed, TypeOK

LEMMA InsertType ==
  ASSUME TypeInv, NEW s \in Session, NEW t \in Table, InsertRow(s, t)
  PROVE  TypeOK'
<1>1. NextRow(s, t) \in Row
  BY NextRowIsRow DEF InsertRow
<1>2. tx' \in [Session -> ParsedLog]
  BY <1>1 DEF InsertRow, TypeInv, TypeOK, ParsedLog
<1> QED
  BY <1>2 DEF InsertRow, TypeInv, TypeOK

LEMMA TypeOKStep == TypeInv /\ [Next]_vars => TypeOK'
<1> SUFFICES ASSUME TypeInv, [Next]_vars PROVE TypeOK'
  OBVIOUS
<1>0. TypeOK
  BY DEF TypeInv
<1>1. ASSUME NEW s \in Session, Return(s) PROVE TypeOK'
  BY <1>0, <1>1, NoCallType DEF Return, TypeOK, Place, Reply
<1>2. ASSUME NEW s \in Session, LockLog(s) PROVE TypeOK'
  BY <1>0, <1>2, EmptyRowsType DEF LockLog, TypeOK, Place
<1>3. ASSUME NEW s \in Session, LockRefused(s) PROVE TypeOK'
  BY <1>0, <1>3, RollbackType DEF LockRefused, Reply
<1>4. ASSUME NEW s \in Session, NEW t \in Table, RejectRow(s, t) PROVE TypeOK'
  BY <1>0, <1>4, RollbackType DEF RejectRow, Reply
<1>5. ASSUME NEW s \in Session, FailLogMisses(s) PROVE TypeOK'
  BY <1>0, <1>5 DEF FailLogMisses, TypeOK, Place
<1>6. ASSUME NEW s \in Session, FailLogExplains(s) PROVE TypeOK'
  BY <1>0, <1>6, RollbackType DEF FailLogExplains, Reply
<1>7. ASSUME NEW s \in Session, CreateLogFails(s) PROVE TypeOK'
  <2>1. nextID' \in 1 .. MaxLogs + 1
    BY <1>0, <1>7, MaxLogsAssumption DEF CreateLogFails, TypeOK
  <2>2. pc' \in [Session -> Place] /\ reply' \in [Session -> Reply]
    BY <1>0, <1>7, AnswerType DEF CreateLogFails, Reply
  <2> QED
    BY <1>0, <1>7, <2>1, <2>2 DEF CreateLogFails, TypeOK
<1>8. ASSUME NEW s \in Session, StatementFails(s) PROVE TypeOK'
  BY <1>0, <1>8, RollbackType DEF StatementFails, Reply
<1>9. CASE Crash
  BY <1>0, <1>9, EmptyRowsType DEF Crash, TypeOK, Place, Reply
<1>10. CASE UNCHANGED vars
  BY <1>0, <1>10 DEF vars, TypeOK
<1> QED
  BY <1>0, <1>1, <1>2, <1>3, <1>4, <1>5, <1>6, <1>7, <1>8, <1>9, <1>10,
     RequestType, CreateLogType, InsertType, CommitType, FailLogType
  DEF Next, Step, Work

(***************************************************************************)
(* The frame of a step: a handler leaves the others alone, and is among    *)
(* the inserts of SaveParsedLog only by its own doing.                     *)
(***************************************************************************)
Untouched(u) ==
  /\ pc'[u] = pc[u]
  /\ call'[u] = call[u]
  /\ tx'[u] = tx[u]
  /\ reply'[u] = reply[u]

LEMMA RollbackFrame ==
  ASSUME TypeOK, NEW s \in Session, NEW r, Rollback(s, r)
  PROVE  /\ \A u \in Session \ {s} : Untouched(u)
         /\ pc'[s] = "done" /\ reply'[s] = r
         /\ UNCHANGED <<logs, rows, nextID, call>>
         /\ \A l \in LogId : lock[l] # s => lock'[l] = lock[l]
  BY DEF TypeOK, Rollback, Answer, Unlock, Untouched

LEMMA BeginFrame ==
  ASSUME TypeOK, NEW s \in Session, NEW first, NEW c, Begin(s, first, c)
  PROVE  /\ \A u \in Session \ {s} : Untouched(u)
         /\ pc[s] = "idle" /\ call'[s] = c
         /\ \/ pc'[s] = "done" /\ reply'[s] = "ErrBadArguments"
            \/ /\ pc'[s] = first /\ reply'[s] = reply[s]
               /\ c.op # "create" => c.log # 0
         /\ UNCHANGED <<logs, rows, nextID, lock, tx>>
  BY DEF TypeOK, Begin, Answer, Untouched

LEMMA OthersUntouched ==
  ASSUME TypeOK, NEW s \in Session, Step(s), NEW u \in Session \ {s}
  PROVE  Untouched(u)
<1>1. CASE Receive(s)
  BY <1>1, BeginFrame DEF Receive, CallCreateLog, CallSaveParsedLog, CallFailLog
<1>2. CASE Return(s)
  BY <1>2 DEF Return, TypeOK, Untouched
<1>3. CASE CreateLog(s)
  BY <1>3 DEF CreateLog, Answer, TypeOK, Untouched
<1>4. CASE LockLog(s)
  BY <1>4 DEF LockLog, TypeOK, Untouched
<1>5. CASE LockRefused(s)
  BY <1>5, RollbackFrame DEF LockRefused
<1>6. ASSUME NEW t \in Table, InsertRow(s, t) PROVE Untouched(u)
  BY <1>6 DEF InsertRow, TypeOK, Untouched
<1>7. ASSUME NEW t \in Table, RejectRow(s, t) PROVE Untouched(u)
  BY <1>7, RollbackFrame DEF RejectRow
<1>8. CASE CommitParsed(s)
  BY <1>8 DEF CommitParsed, Answer, Unlock, TypeOK, Untouched
<1>9. CASE FailLog(s)
  BY <1>9 DEF FailLog, Answer, TypeOK, Untouched
<1>10. CASE FailLogMisses(s)
  BY <1>10 DEF FailLogMisses, TypeOK, Untouched
<1>11. CASE FailLogExplains(s)
  BY <1>11, RollbackFrame DEF FailLogExplains
<1>12. CASE CreateLogFails(s)
  BY <1>12 DEF CreateLogFails, Answer, TypeOK, Untouched
<1>13. CASE StatementFails(s)
  BY <1>13, RollbackFrame DEF StatementFails
<1> QED
  BY <1>1, <1>2, <1>3, <1>4, <1>5, <1>6, <1>7, <1>8, <1>9, <1>10, <1>11, <1>12,
     <1>13 DEF Step, Work

LEMMA OwnInsert ==
  ASSUME TypeOK, NEW s \in Session, Step(s), pc'[s] = "insert"
  PROVE  LockLog(s) \/ \E t \in Table : InsertRow(s, t)
<1>1. CASE Receive(s)
  <2>1. CASE CallCreateLog(s)
    BY <2>1, BeginFrame DEF CallCreateLog
  <2>2. ASSUME NEW l, NEW p, CallSaveParsedLog(s, l, p) PROVE FALSE
    BY <2>2, BeginFrame DEF CallSaveParsedLog
  <2>3. ASSUME NEW l, CallFailLog(s, l) PROVE FALSE
    BY <2>3, BeginFrame DEF CallFailLog
  <2> QED
    BY <1>1, <2>1, <2>2, <2>3 DEF Receive
<1>2. CASE Return(s) \/ FailLogMisses(s)
  BY <1>2 DEF Return, FailLogMisses, TypeOK
<1>3. CASE CreateLog(s) \/ CommitParsed(s) \/ FailLog(s) \/ CreateLogFails(s)
  BY <1>3 DEF CreateLog, CommitParsed, FailLog, CreateLogFails, Answer, TypeOK
<1>4. CASE LockRefused(s) \/ FailLogExplains(s) \/ StatementFails(s)
  BY <1>4, RollbackFrame DEF LockRefused, FailLogExplains, StatementFails
<1>5. ASSUME NEW t \in Table, RejectRow(s, t) PROVE FALSE
  BY <1>5, RollbackFrame DEF RejectRow
<1> QED
  BY <1>1, <1>2, <1>3, <1>4, <1>5 DEF Step, Work

\* Why a handler is among its inserts after a step.
LEMMA WhyInserting ==
  ASSUME TypeOK, [Next]_vars, NEW u \in Session, pc'[u] = "insert"
  PROVE  \/ Untouched(u) /\ pc[u] = "insert"
         \/ LockLog(u)
         \/ \E t \in Table : InsertRow(u, t)
<1>1. CASE Crash
  BY <1>1 DEF Crash
<1>2. CASE UNCHANGED vars
  BY <1>2 DEF vars, Untouched
<1>3. ASSUME NEW s \in Session, Step(s)
      PROVE  \/ Untouched(u) /\ pc[u] = "insert"
             \/ LockLog(u)
             \/ \E t \in Table : InsertRow(u, t)
  <2>1. CASE s = u
    BY <1>3, <2>1, OwnInsert
  <2>2. CASE s # u
    BY <1>3, <2>2, OthersUntouched DEF Untouched
  <2> QED
    BY <2>1, <2>2
<1> QED
  BY <1>1, <1>2, <1>3 DEF Next

LEMMA WithinStep == TypeInv /\ [Next]_vars => WithinParsed'
<1> SUFFICES ASSUME TypeInv, [Next]_vars, NEW u \in Session, pc'[u] = "insert",
                    NEW v \in Table
             PROVE  Len(tx'[u][v]) <= Len(call'[u].parsed[v])
  BY DEF WithinParsed
<1>0. TypeOK
  BY DEF TypeInv
<1>1. CASE Untouched(u) /\ pc[u] = "insert"
  BY <1>1 DEF TypeInv, WithinParsed, Untouched
<1>2. CASE LockLog(u)
  <2>1. tx'[u][v] = <<>> /\ call'[u].parsed[v] \in Seq(Row)
    BY <1>0, <1>2 DEF LockLog, TypeOK, EmptyRows, Call, ParsedLog
  <2> QED
    BY <2>1
<1>3. ASSUME NEW t \in Table, InsertRow(u, t)
      PROVE  Len(tx'[u][v]) <= Len(call'[u].parsed[v])
  <2>1. /\ NextRow(u, t) \in Row
        /\ Len(tx[u][t]) + 1 <= Len(call[u].parsed[t])
    BY <1>3, NextRowIsRow DEF InsertRow
  <2>2. tx[u][t] \in Seq(Row)
    BY <1>0 DEF TypeOK, ParsedLog
  <2>3. CASE v = t
    <3>1. tx'[u][t] = Append(tx[u][t], NextRow(u, t)) /\ call'[u] = call[u]
      BY <1>0, <1>3 DEF InsertRow, TypeOK, ParsedLog
    <3> QED
      BY <2>1, <2>2, <2>3, <3>1
  <2>4. CASE v # t
    <3>1. tx'[u][v] = tx[u][v] /\ call'[u] = call[u] /\ pc[u] = "insert"
      BY <1>0, <1>3, <2>4 DEF InsertRow, Inserting, TypeOK, ParsedLog
    <3> QED
      BY <3>1 DEF TypeInv, WithinParsed
  <2> QED
    BY <2>3, <2>4
<1> QED
  BY <1>0, <1>1, <1>2, <1>3, WhyInserting

\* Every variable keeps to its type: a log's status to the CHECK constraint of
\* the schema, the rows that are stored to what the loops have read.
THEOREM TypeCorrect == Spec => []TypeOK
<1>1. TypeInv /\ [Next]_vars => TypeInv'
  BY TypeOKStep, WithinStep DEF TypeInv
<1>2. TypeInv => TypeOK
  BY DEF TypeInv
<1> QED
  BY TypeInit, <1>1, <1>2, PTL DEF Spec

-----------------------------------------------------------------------------
(***************************************************************************)
(* Safety.  None of the invariants is inductive by itself: the status that *)
(* a transaction checked holds because it owns the row lock, the rows that *)
(* it commits are sound because of what its loops checked, and a new       *)
(* identifier is unused because the sequence only grows.                   *)
(***************************************************************************)
\* Which call a handler that has reached a statement is executing.
Disciplined(s) ==
  /\ pc[s] \in {"lock", "insert", "fail", "explain"} => call[s].log \in LogId
  /\ pc[s] \in {"lock", "insert"} => call[s].op = "save" /\ call[s].parsed \in Payload
  /\ pc[s] \in {"fail", "explain"} => call[s].op = "fail"
  /\ pc[s] = "create" => call[s].op = "create"
  /\ pc[s] # "done" => reply[s] = "none"
  /\ Finalized(s) => call[s].log \in LogId

Discipline == \A s \in Session : Disciplined(s)

\* The sequence has not yet drawn the identifiers of the rows to come.
FreshIDs == \A l \in LogId : l >= nextID => logs[l].status = "none"

\* What a transaction has inserted is well formed and the beginning of its call.
Prefix(s) ==
  \A t \in Table : \A i \in 1 .. Len(tx[s][t]) : tx[s][t][i] = call[s].parsed[t][i]

TxSound == \A s \in Session : pc[s] = "insert" => WellFormed(tx[s]) /\ Prefix(s)

SafetyInv ==
  /\ TypeInv
  /\ Discipline
  /\ FreshIDs
  /\ CheckedStatusHolds
  /\ TxSound
  /\ DataMatchesStatus
  /\ OneFinalizer

-----------------------------------------------------------------------------
(***************************************************************************)
(* Handlers.                                                               *)
(***************************************************************************)
LEMMA RollbackDiscipline ==
  ASSUME TypeOK, NEW s \in Session, NEW r \in Reply \ {"ok"}, Rollback(s, r)
  PROVE  Disciplined(s)'
  BY RollbackFrame DEF Disciplined, Finalized

LEMMA BeginDiscipline ==
  ASSUME TypeOK, NEW s \in Session, Disciplined(s), Receive(s)
  PROVE  Disciplined(s)'
<1>1. reply[s] = "none" \/ pc[s] # "idle"
  BY DEF Disciplined
<1>2. CASE CallCreateLog(s)
  BY <1>1, <1>2, BeginFrame DEF CallCreateLog, Disciplined, Finalized
<1>3. ASSUME NEW l \in LogId \cup {0}, NEW p \in Payload, CallSaveParsedLog(s, l, p)
      PROVE  Disciplined(s)'
  BY <1>1, <1>3, BeginFrame DEF CallSaveParsedLog, Disciplined, Finalized
<1>4. ASSUME NEW l \in LogId \cup {0}, CallFailLog(s, l)
      PROVE  Disciplined(s)'
  BY <1>1, <1>4, BeginFrame DEF CallFailLog, Disciplined, Finalized
<1> QED
  BY <1>2, <1>3, <1>4 DEF Receive

LEMMA OwnDiscipline ==
  ASSUME TypeOK, NEW s \in Session, Disciplined(s), Step(s)
  PROVE  Disciplined(s)'
<1>1. CASE Receive(s)
  BY <1>1, BeginDiscipline
<1>2. CASE Return(s)
  BY <1>2 DEF Return, TypeOK, Disciplined, Finalized
<1>3. CASE CreateLog(s)
  <2>1. call[s].op = "create" /\ call'[s].op = call[s].op /\ pc'[s] = "done"
    BY <1>3 DEF CreateLog, Answer, TypeOK, Call, Disciplined
  <2> QED
    BY <2>1 DEF Disciplined, Finalized
<1>4. CASE LockLog(s)
  BY <1>4 DEF LockLog, TypeOK, Disciplined, Finalized
<1>5. CASE LockRefused(s)
  BY <1>5, RollbackDiscipline DEF LockRefused, Reply
<1>6. ASSUME NEW t \in Table, InsertRow(s, t) PROVE Disciplined(s)'
  BY <1>6 DEF InsertRow, Disciplined, Finalized
<1>7. ASSUME NEW t \in Table, RejectRow(s, t) PROVE Disciplined(s)'
  BY <1>7, RollbackDiscipline DEF RejectRow, Reply
<1>8. CASE CommitParsed(s)
  BY <1>8 DEF CommitParsed, Answer, TypeOK, Disciplined, Finalized
<1>9. CASE FailLog(s)
  BY <1>9 DEF FailLog, Answer, TypeOK, Disciplined, Finalized
<1>10. CASE FailLogMisses(s)
  BY <1>10 DEF FailLogMisses, TypeOK, Disciplined, Finalized
<1>11. CASE FailLogExplains(s)
  BY <1>11, RollbackDiscipline DEF FailLogExplains, Reply
<1>12. CASE CreateLogFails(s)
  BY <1>12 DEF CreateLogFails, Answer, TypeOK, Disciplined, Finalized
<1>13. CASE StatementFails(s)
  BY <1>13, RollbackDiscipline DEF StatementFails, Reply
<1> QED
  BY <1>1, <1>2, <1>3, <1>4, <1>5, <1>6, <1>7, <1>8, <1>9, <1>10, <1>11, <1>12,
     <1>13 DEF Step, Work

LEMMA DisciplineInit == Init => Discipline
  BY DEF Init, Discipline, Disciplined, Finalized

LEMMA DisciplineStep == TypeOK /\ Discipline /\ [Next]_vars => Discipline'
<1> SUFFICES ASSUME TypeOK, Discipline, [Next]_vars, NEW u \in Session
             PROVE  Disciplined(u)'
  BY DEF Discipline
<1>0. Disciplined(u)
  BY DEF Discipline
<1>1. CASE Crash
  BY <1>0, <1>1 DEF Crash, Disciplined, Finalized
<1>2. CASE UNCHANGED vars
  BY <1>0, <1>2 DEF vars, Disciplined, Finalized
<1>3. ASSUME NEW s \in Session, Step(s), s # u PROVE Disciplined(u)'
  BY <1>0, <1>3, OthersUntouched DEF Untouched, Disciplined, Finalized
<1> QED
  BY <1>0, <1>1, <1>2, <1>3, OwnDiscipline DEF Next

-----------------------------------------------------------------------------
(***************************************************************************)
(* Who changes a log, and who releases its lock.                           *)
(***************************************************************************)
Finalizes(s) == CommitParsed(s) \/ FailLog(s)

LEMMA WhoChanges ==
  ASSUME TypeOK, NEW s \in Session, Step(s), NEW l \in LogId
  PROVE  \/ logs'[l] = logs[l] /\ rows'[l] = rows[l]
         \/ CreateLog(s) /\ l = nextID
         \/ Finalizes(s) /\ l = call[s].log
<1> DEFINE Kept == logs'[l] = logs[l] /\ rows'[l] = rows[l]
<1>1. CASE Receive(s)
  BY <1>1, BeginFrame DEF Receive, CallCreateLog, CallSaveParsedLog, CallFailLog
<1>2. CASE Return(s) \/ LockLog(s) \/ FailLogMisses(s) \/ CreateLogFails(s)
  BY <1>2 DEF Return, LockLog, FailLogMisses, CreateLogFails
<1>3. CASE CreateLog(s)
  BY <1>3 DEF CreateLog, TypeOK
<1>4. CASE LockRefused(s) \/ FailLogExplains(s) \/ StatementFails(s)
  BY <1>4, RollbackFrame DEF LockRefused, FailLogExplains, StatementFails
<1>5. ASSUME NEW t \in Table, InsertRow(s, t) PROVE Kept
  BY <1>5 DEF InsertRow
<1>6. ASSUME NEW t \in Table, RejectRow(s, t) PROVE Kept
  BY <1>6, RollbackFrame DEF RejectRow
<1>7. CASE CommitParsed(s)
  BY <1>7 DEF CommitParsed, TypeOK, Finalizes
<1>8. CASE FailLog(s)
  BY <1>8 DEF FailLog, TypeOK, Finalizes
<1> QED
  BY <1>1, <1>2, <1>3, <1>4, <1>5, <1>6, <1>7, <1>8 DEF Step, Work

LEMMA LockKept ==
  ASSUME TypeOK, NEW s \in Session, Step(s), NEW l \in LogId,
         NEW u \in Session \ {s}, lock[l] = u
  PROVE  lock'[l] = u
<1>1. CASE Receive(s)
  BY <1>1, BeginFrame DEF Receive, CallCreateLog, CallSaveParsedLog, CallFailLog
<1>2. CASE Return(s) \/ CreateLog(s) \/ FailLog(s) \/ FailLogMisses(s) \/ CreateLogFails(s)
  BY <1>2 DEF Return, CreateLog, FailLog, FailLogMisses, CreateLogFails
<1>3. CASE LockLog(s)
  BY <1>3, NoSessionAssumption DEF LockLog, TypeOK
<1>4. CASE LockRefused(s) \/ FailLogExplains(s) \/ StatementFails(s)
  BY <1>4, RollbackFrame DEF LockRefused, FailLogExplains, StatementFails
<1>5. ASSUME NEW t \in Table, InsertRow(s, t) PROVE lock'[l] = u
  BY <1>5 DEF InsertRow
<1>6. ASSUME NEW t \in Table, RejectRow(s, t) PROVE lock'[l] = u
  BY <1>6, RollbackFrame DEF RejectRow
<1>7. CASE CommitParsed(s)
  BY <1>7 DEF CommitParsed, Unlock, TypeOK
<1> QED
  BY <1>1, <1>2, <1>3, <1>4, <1>5, <1>6, <1>7 DEF Step, Work

\* Who finalizes a log, and how: it is "processing" until then, and nobody
\* else owns its row.
LEMMA HowFinalized ==
  ASSUME TypeOK, Discipline, CheckedStatusHolds, NEW s \in Session, Finalizes(s)
  PROVE  /\ call[s].log \in LogId
         /\ logs[call[s].log].status = "processing"
         /\ lock[call[s].log] \in {s, NoSession}
<1>1. CASE CommitParsed(s)
  BY <1>1 DEF CommitParsed, Discipline, Disciplined, CheckedStatusHolds
<1>2. CASE FailLog(s)
  BY <1>2 DEF FailLog, LockedStatus, Discipline, Disciplined
<1> QED
  BY <1>1, <1>2 DEF Finalizes

LEMMA CheckedStep ==
  TypeOK /\ Discipline /\ CheckedStatusHolds /\ [Next]_vars => CheckedStatusHolds'
<1> SUFFICES ASSUME TypeOK, Discipline, CheckedStatusHolds, [Next]_vars,
                    NEW u \in Session, pc'[u] = "insert"
             PROVE  /\ lock'[call'[u].log] = u
                    /\ logs'[call'[u].log].status = "processing"
  BY DEF CheckedStatusHolds
<1>1. CASE LockLog(u)
  BY <1>1 DEF LockLog, LockedStatus, TypeOK, Discipline, Disciplined
<1>2. ASSUME NEW t \in Table, InsertRow(u, t)
      PROVE  /\ lock'[call'[u].log] = u
             /\ logs'[call'[u].log].status = "processing"
  BY <1>2 DEF InsertRow, Inserting, CheckedStatusHolds
<1>3. CASE Untouched(u) /\ pc[u] = "insert"
  <2> DEFINE l == call[u].log
  <2>1. l \in LogId /\ lock[l] = u /\ logs[l].status = "processing" /\ call'[u].log = l
    BY <1>3 DEF Discipline, Disciplined, CheckedStatusHolds, Untouched
  <2>2. CASE Crash
    BY <1>3, <2>2 DEF Crash, Untouched
  <2>3. CASE UNCHANGED vars
    BY <2>1, <2>3 DEF vars
  <2>4. ASSUME NEW s \in Session, Step(s), s # u
        PROVE  lock'[l] = u /\ logs'[l].status = "processing"
    <3>1. lock'[l] = u
      BY <2>1, <2>4, LockKept
    <3>2. CASE CreateLog(s) /\ l = nextID
      BY <2>1, <3>2 DEF CreateLog, NoLog, TypeOK
    <3>3. CASE Finalizes(s) /\ l = call[s].log
      BY <2>1, <2>4, <3>3, HowFinalized, NoSessionAssumption
    <3> QED
      BY <2>1, <2>4, <3>1, <3>2, <3>3, WhoChanges
  <2>5. CASE Step(u)
    BY <1>1, <1>2, <1>3, <2>5, OwnInsert DEF Untouched
  <2> QED
    BY <2>1, <2>2, <2>3, <2>4, <2>5, <1>1, <1>2 DEF Next
<1> QED
  BY <1>1, <1>2, <1>3, WhyInserting

LEMMA SequenceGrows ==
  ASSUME TypeOK, [Next]_vars
  PROVE  nextID' \in Int /\ nextID' >= nextID
<1>1. nextID \in Int
  BY DEF TypeOK
<1>2. CASE Crash \/ UNCHANGED vars
  BY <1>1, <1>2 DEF Crash, vars
<1>3. ASSUME NEW s \in Session, Step(s) PROVE nextID' = nextID \/ nextID' = nextID + 1
  <2>1. CASE Receive(s)
    BY <2>1, BeginFrame DEF Receive, CallCreateLog, CallSaveParsedLog, CallFailLog
  <2>2. CASE CreateLog(s) \/ CreateLogFails(s)
    BY <2>2 DEF CreateLog, CreateLogFails
  <2>3. CASE LockRefused(s) \/ FailLogExplains(s) \/ StatementFails(s)
    BY <2>3, RollbackFrame DEF LockRefused, FailLogExplains, StatementFails
  <2>4. ASSUME NEW t \in Table, RejectRow(s, t) PROVE nextID' = nextID
    BY <2>4, RollbackFrame DEF RejectRow
  <2>5. CASE Return(s) \/ LockLog(s) \/ CommitParsed(s) \/ FailLog(s) \/ FailLogMisses(s)
    BY <2>5 DEF Return, LockLog, CommitParsed, FailLog, FailLogMisses
  <2>6. ASSUME NEW t \in Table, InsertRow(s, t) PROVE nextID' = nextID
    BY <2>6 DEF InsertRow
  <2> QED
    BY <1>3, <2>1, <2>2, <2>3, <2>4, <2>5, <2>6 DEF Step, Work
<1> QED
  BY <1>1, <1>2, <1>3 DEF Next

LEMMA FreshStep ==
  TypeOK /\ Discipline /\ CheckedStatusHolds /\ FreshIDs /\ [Next]_vars => FreshIDs'
<1> SUFFICES ASSUME TypeOK, Discipline, CheckedStatusHolds, FreshIDs, [Next]_vars,
                    NEW l \in LogId, l >= nextID'
             PROVE  logs'[l].status = "none"
  BY DEF FreshIDs
<1>1. l \in Int /\ nextID \in Int /\ nextID' \in Int /\ nextID' >= nextID
  BY SequenceGrows DEF TypeOK, LogId
<1>2. CASE Crash \/ UNCHANGED vars
  BY <1>2 DEF Crash, vars, FreshIDs
<1>3. ASSUME NEW s \in Session, Step(s) PROVE logs'[l].status = "none"
  <2>1. logs[l].status = "none"
    BY <1>1, <1>3 DEF FreshIDs
  <2>2. ~ (CreateLog(s) /\ l = nextID)
    BY <1>1 DEF CreateLog
  <2>3. ~ (Finalizes(s) /\ l = call[s].log)
    BY <2>1, HowFinalized
  <2> QED
    BY <1>3, <2>1, <2>2, <2>3, WhoChanges
<1> QED
  BY <1>2, <1>3 DEF Next

\* The step that TerminalIsFinal forbids.
LEMMA TerminalStep ==
  ASSUME TypeOK, Discipline, CheckedStatusHolds, FreshIDs, [Next]_vars,
         NEW l \in LogId, logs[l].status \in Terminal
  PROVE  logs'[l] = logs[l] /\ rows'[l] = rows[l]
<1>1. CASE Crash \/ UNCHANGED vars
  BY <1>1 DEF Crash, vars
<1>2. ASSUME NEW s \in Session, Step(s)
      PROVE  logs'[l] = logs[l] /\ rows'[l] = rows[l]
  <2>1. l # nextID
    BY DEF FreshIDs, Terminal, LogId
  <2>2. ~ (Finalizes(s) /\ l = call[s].log)
    BY HowFinalized DEF Terminal
  <2> QED
    BY <1>2, <2>1, <2>2, WhoChanges
<1> QED
  BY <1>1, <1>2 DEF Next

-----------------------------------------------------------------------------
(***************************************************************************)
(* What a transaction inserts.                                             *)
(***************************************************************************)
LEMMA EmptyWellFormed == WellFormed(EmptyRows)
  BY DEF WellFormed, EmptyRows, GUIDsOf, Distinct, Table

LEMMA AppendRange ==
  ASSUME NEW S, NEW q \in Seq(S), NEW e \in S
  PROVE  /\ Len(Append(q, e)) = Len(q) + 1
         /\ \A i \in 1 .. Len(q) : Append(q, e)[i] = q[i]
         /\ Append(q, e)[Len(q) + 1] = e
  OBVIOUS

LEMMA AppendGUIDs ==
  ASSUME NEW q \in Seq(Row), NEW r \in Row
  PROVE  GUIDsOf(Append(q, r)) = GUIDsOf(q) \cup {r.guid}
<1>1. DOMAIN q = 1 .. Len(q) /\ DOMAIN Append(q, r) = 1 .. Len(q) + 1 /\ Len(q) \in Nat
  OBVIOUS
<1>2. \A i \in 1 .. Len(q) : Append(q, r)[i] = q[i]
  OBVIOUS
<1>3. Append(q, r)[Len(q) + 1] = r
  OBVIOUS
<1>4. 1 .. Len(q) + 1 = (1 .. Len(q)) \cup {Len(q) + 1}
  BY <1>1
<1>5. GUIDsOf(Append(q, r)) = {Append(q, r)[i].guid : i \in 1 .. Len(q)} \cup {r.guid}
  BY <1>1, <1>3, <1>4 DEF GUIDsOf
<1> QED
  BY <1>1, <1>2, <1>5 DEF GUIDsOf

LEMMA AppendDistinct ==
  ASSUME NEW t \in Table, NEW q \in Seq(Row), NEW r \in Row, Distinct(t, q),
         \A row \in RowsOf(q) : ~ SameKey(t, row, r)
  PROVE  Distinct(t, Append(q, r))
<1> SUFFICES ASSUME NEW i \in 1 .. Len(q) + 1, NEW j \in 1 .. Len(q) + 1,
                    SameKey(t, Append(q, r)[i], Append(q, r)[j])
             PROVE  i = j
  BY DEF Distinct
<1>1. Len(q) \in Nat /\ DOMAIN q = 1 .. Len(q)
  OBVIOUS
<1>2. \A k \in 1 .. Len(q) : 
       Append(q, r)[k] = q[k] /\ ~ SameKey(t, q[k], r) /\ ~ SameKey(t, r, q[k])
  BY DEF RowsOf, SameKey
<1>3. Append(q, r)[Len(q) + 1] = r
  OBVIOUS
<1>4. CASE i \in 1 .. Len(q) /\ j \in 1 .. Len(q)
  BY <1>1, <1>2, <1>4 DEF Distinct
<1>5. CASE ~ (i \in 1 .. Len(q) /\ j \in 1 .. Len(q))
  BY <1>1, <1>2, <1>3, <1>5
<1> QED
  BY <1>4, <1>5

LEMMA AppendSound ==
  ASSUME TypeInv, NEW s \in Session, NEW t \in Table, InsertRow(s, t),
         WellFormed(tx[s]), Prefix(s)
  PROVE  WellFormed(tx'[s]) /\ Prefix(s)'
<1> DEFINE r == NextRow(s, t)
<1>0. TypeOK
  BY DEF TypeInv
<1>1. /\ tx'[s][t] = Append(tx[s][t], r)
      /\ \A v \in Table : v # t => tx'[s][v] = tx[s][v]
      /\ call'[s] = call[s]
  BY <1>0 DEF InsertRow, TypeOK, ParsedLog
<1>2. r \in Row
  BY NextRowIsRow DEF InsertRow
<1>3. \A v \in Table : tx[s][v] \in Seq(Row)
  BY <1>0 DEF TypeOK, ParsedLog
<1>4. GUIDsOf(tx'[s][t]) = GUIDsOf(tx[s][t]) \cup {r.guid}
  BY <1>1, <1>2, <1>3, AppendGUIDs
<1>5. \A v \in Table : Distinct(v, tx'[s][v])
  BY <1>1, <1>2, <1>3, AppendDistinct DEF InsertRow, Duplicate, WellFormed
<1>6. /\ r.guid # NoGUID
      /\ t # "nodes" => r.guid \in GUIDsOf(tx[s]["nodes"])
  BY DEF InsertRow, BadRow
<1>7. WellFormed(tx'[s])
  <2>1. CASE t = "nodes"
    BY <1>1, <1>4, <1>5, <1>6, <2>1 DEF WellFormed, Table
  <2>2. CASE t = "infos"
    BY <1>1, <1>4, <1>5, <1>6, <2>2 DEF WellFormed, Table
  <2>3. CASE t = "ports"
    BY <1>1, <1>4, <1>5, <1>6, <2>3 DEF WellFormed, Table
  <2> QED
    BY <2>1, <2>2, <2>3 DEF Table
<1>8. Prefix(s)'
  <2>1. SUFFICES ASSUME NEW v \in Table, NEW i \in 1 .. Len(tx'[s][v])
                 PROVE  tx'[s][v][i] = call[s].parsed[v][i]
    BY <1>1 DEF Prefix
  <2>2. CASE v # t
    BY <1>1, <2>1, <2>2 DEF Prefix
  <2>3. CASE v = t
    <3>1. Len(tx[s][t]) \in Nat
      BY <1>3
    <3>2. CASE i \in 1 .. Len(tx[s][t])
      BY <1>1, <1>2, <1>3, <2>3, <3>2, AppendRange DEF Prefix
    <3>3. CASE i = Len(tx[s][t]) + 1
      BY <1>1, <1>2, <1>3, <2>3, <3>3, AppendRange DEF NextRow
    <3>4. i \in 1 .. Len(tx[s][t]) + 1
      BY <1>1, <1>2, <1>3, <2>1, <2>3, AppendRange
    <3> QED
      BY <3>1, <3>2, <3>3, <3>4
  <2> QED
    BY <2>2, <2>3
<1> QED
  BY <1>7, <1>8

LEMMA TxSoundStep == TypeInv /\ TxSound /\ [Next]_vars => TxSound'
<1> SUFFICES ASSUME TypeInv, TxSound, [Next]_vars, NEW u \in Session, pc'[u] = "insert"
             PROVE  WellFormed(tx'[u]) /\ Prefix(u)'
  BY DEF TxSound, WellFormed
<1>0. TypeOK
  BY DEF TypeInv
<1>1. CASE Untouched(u) /\ pc[u] = "insert"
  BY <1>1 DEF TxSound, Untouched, Prefix
<1>2. CASE LockLog(u)
  <2>1. tx'[u] = EmptyRows
    BY <1>0, <1>2 DEF LockLog, TypeOK
  <2>2. Prefix(u)'
    BY <2>1 DEF Prefix, EmptyRows
  <2> QED
    BY <2>1, <2>2, EmptyWellFormed
<1>3. ASSUME NEW t \in Table, InsertRow(u, t) PROVE WellFormed(tx'[u]) /\ Prefix(u)'
  BY <1>3, AppendSound DEF TxSound, InsertRow, Inserting
<1> QED
  BY <1>0, <1>1, <1>2, <1>3, WhyInserting

\* The loops that came to their ends have inserted the ParsedLog of the call.
LEMMA WholeInserted ==
  ASSUME TypeOK, NEW s \in Session, Prefix(s), \A t \in Table : Inserted(s, t)
  PROVE  tx[s] = call[s].parsed
<1>1. tx[s] \in [Table -> Seq(Row)] /\ call[s].parsed \in [Table -> Seq(Row)]
  BY DEF TypeOK, Call, ParsedLog
<1>2. ASSUME NEW t \in Table PROVE tx[s][t] = call[s].parsed[t]
  <2>1. tx[s][t] \in Seq(Row) /\ call[s].parsed[t] \in Seq(Row)
    BY <1>1
  <2>2. Len(tx[s][t]) = Len(call[s].parsed[t])
    BY DEF Inserted
  <2>3. \A i \in 1 .. Len(tx[s][t]) : tx[s][t][i] = call[s].parsed[t][i]
    BY DEF Prefix
  <2> QED
    BY <2>1, <2>2, <2>3
<1> QED
  BY <1>1, <1>2

-----------------------------------------------------------------------------
(***************************************************************************)
(* What readers see of a log.                                              *)
(***************************************************************************)
SoundLog(l) ==
  IF logs[l].status = "parsed"
    THEN /\ WellFormed(rows[l])
         /\ logs[l].nodes = Len(rows[l]["nodes"])
         /\ logs[l].ports = Len(rows[l]["ports"])
    ELSE rows[l] = EmptyRows /\ logs[l].nodes = 0 /\ logs[l].ports = 0

LEMMA DataInit == Init => DataMatchesStatus
  BY DEF Init, DataMatchesStatus, NoLog

LEMMA DataStep ==
  ASSUME TypeOK, Discipline, CheckedStatusHolds, FreshIDs, TxSound,
         DataMatchesStatus, [Next]_vars
  PROVE  DataMatchesStatus'
<1> SUFFICES ASSUME NEW l \in LogId PROVE SoundLog(l)'
  BY DEF DataMatchesStatus, SoundLog
<1>0. SoundLog(l)
  BY DEF DataMatchesStatus, SoundLog
<1>1. CASE logs'[l] = logs[l] /\ rows'[l] = rows[l]
  BY <1>0, <1>1 DEF SoundLog
<1>2. ASSUME NEW s \in Session, CreateLog(s), l = nextID PROVE SoundLog(l)'
  <2>1. logs[l].status = "none"
    BY <1>2 DEF FreshIDs, LogId
  <2>2. logs'[l] = [status |-> "processing", nodes |-> 0, ports |-> 0] /\ rows' = rows
    BY <1>2 DEF CreateLog, NoLog, TypeOK
  <2> QED
    BY <1>0, <2>1, <2>2 DEF SoundLog
<1>3. ASSUME NEW s \in Session, CommitParsed(s), l = call[s].log PROVE SoundLog(l)'
  <2>1. WellFormed(tx[s]) /\ Prefix(s) /\ \A t \in Table : Inserted(s, t)
    BY <1>3 DEF CommitParsed, TxSound
  <2>2. tx[s] = call[s].parsed
    BY <2>1, WholeInserted
  <2>3. /\ logs'[l] = [status |-> "parsed", nodes |-> Len(call[s].parsed["nodes"]),
                       ports |-> Len(call[s].parsed["ports"])]
        /\ rows'[l] = tx[s]
    BY <1>3 DEF CommitParsed, TypeOK
  <2> QED
    BY <2>1, <2>2, <2>3 DEF SoundLog
<1>4. ASSUME NEW s \in Session, FailLog(s), l = call[s].log PROVE SoundLog(l)'
  <2>1. logs[l].status = "processing" /\ rows' = rows
    BY <1>4 DEF FailLog, LockedStatus
  <2>2. logs'[l] = [logs[l] EXCEPT !.status = "failed"]
    BY <1>4 DEF FailLog, TypeOK
  <2>3. logs'[l].status = "failed" /\ logs'[l].nodes = logs[l].nodes
        /\ logs'[l].ports = logs[l].ports
    BY <2>2 DEF TypeOK, LogRow
  <2> QED
    BY <1>0, <2>1, <2>3 DEF SoundLog
<1>5. CASE Crash \/ UNCHANGED vars
  BY <1>1, <1>5 DEF Crash, vars
<1>6. ASSUME NEW s \in Session, Step(s) PROVE SoundLog(l)'
  BY <1>1, <1>2, <1>3, <1>4, <1>6, WhoChanges DEF Finalizes
<1> QED
  BY <1>5, <1>6 DEF Next

-----------------------------------------------------------------------------
(***************************************************************************)
(* Who is told of success.                                                 *)
(***************************************************************************)
LEMMA OwnSuccess ==
  ASSUME TypeOK, NEW s \in Session, Disciplined(s), Step(s), Finalized(s)'
  PROVE  Finalizes(s) /\ call'[s] = call[s] /\ ~ Finalized(s)
<1>1. CASE Receive(s)
  <2>1. pc[s] = "idle" /\ (reply'[s] = reply[s] \/ reply'[s] = "ErrBadArguments")
    BY <1>1, BeginFrame DEF Receive, CallCreateLog, CallSaveParsedLog, CallFailLog
  <2> QED
    BY <2>1 DEF Disciplined, Finalized
<1>2. CASE Return(s)
  BY <1>2 DEF Return, TypeOK, Finalized
<1>3. CASE CreateLog(s)
  <2>1. call'[s].op = "create"
    BY <1>3 DEF CreateLog, TypeOK, Call, Disciplined
  <2> QED
    BY <2>1 DEF Finalized
<1>4. CASE LockLog(s) \/ FailLogMisses(s)
  BY <1>4 DEF LockLog, FailLogMisses, Disciplined, Finalized
<1>5. CASE LockRefused(s) \/ FailLogExplains(s) \/ StatementFails(s)
  BY <1>5, RollbackFrame DEF LockRefused, FailLogExplains, StatementFails, Finalized
<1>6. ASSUME NEW t \in Table, InsertRow(s, t) \/ RejectRow(s, t) PROVE FALSE
  BY <1>6, RollbackFrame
  DEF InsertRow, RejectRow, Inserting, Disciplined, Finalized
<1>7. CASE CommitParsed(s) \/ FailLog(s)
  BY <1>7 DEF CommitParsed, FailLog, Finalizes, Disciplined, Finalized
<1>8. CASE CreateLogFails(s)
  BY <1>8 DEF CreateLogFails, Answer, TypeOK, Finalized
<1> QED
  BY <1>1, <1>2, <1>3, <1>4, <1>5, <1>6, <1>7, <1>8 DEF Step, Work

LEMMA WhySuccess ==
  ASSUME TypeOK, Discipline, [Next]_vars, NEW u \in Session, Finalized(u)'
  PROVE  /\ call'[u] = call[u]
         /\ Finalized(u) \/ (Step(u) /\ Finalizes(u))
<1>1. CASE Crash
  BY <1>1 DEF Crash, Finalized
<1>2. CASE UNCHANGED vars
  BY <1>2 DEF vars, Finalized
<1>3. ASSUME NEW s \in Session, Step(s), s # u PROVE Finalized(u) /\ call'[u] = call[u]
  BY <1>3, OthersUntouched DEF Untouched, Finalized
<1> QED
  BY <1>1, <1>2, <1>3, OwnSuccess DEF Next, Discipline

\* What the state is to be for a handler that was told of success.
AsItFinalized(s) ==
  /\ call[s].op = "save" => /\ logs[call[s].log].status = "parsed"
                            /\ rows[call[s].log] = call[s].parsed
  /\ call[s].op = "fail" => logs[call[s].log].status = "failed"

LEMMA OneFinalizerStep ==
  ASSUME TypeOK, Discipline, CheckedStatusHolds, FreshIDs, TxSound,
         OneFinalizer, [Next]_vars
  PROVE  OneFinalizer'
<1> SUFFICES ASSUME NEW s \in Session, Finalized(s)'
             PROVE  /\ AsItFinalized(s)'
                    /\ \A u \in Session :
                         Finalized(u)' /\ call'[u].log = call'[s].log => u = s
  BY DEF OneFinalizer, AsItFinalized
<1>1. ASSUME NEW u \in Session, Finalized(u)
      PROVE  /\ call[u].log \in LogId /\ logs[call[u].log].status \in Terminal
             /\ AsItFinalized(u)
  BY <1>1 DEF OneFinalizer, AsItFinalized, Finalized, Discipline, Disciplined, Terminal
<1>2. CASE Finalized(s)
  <2>1. call'[s] = call[s]
    BY WhySuccess
  <2>2. AsItFinalized(s)'
    BY <1>1, <1>2, <2>1, TerminalStep DEF AsItFinalized
  <2>3. ASSUME NEW u \in Session, Finalized(u)', call'[u].log = call'[s].log
        PROVE  u = s
    <3>1. call[u].log = call[s].log
      BY <2>1, <2>3, WhySuccess
    <3>2. CASE Finalized(u)
      BY <1>2, <3>1, <3>2 DEF OneFinalizer
    <3>3. CASE Finalizes(u)
      BY <1>1, <1>2, <3>1, <3>3, HowFinalized DEF Terminal
    <3> QED
      BY <2>3, <3>2, <3>3, WhySuccess
  <2> QED
    BY <2>2, <2>3
<1>3. CASE Step(s) /\ Finalizes(s)
  <2>1. /\ call[s].log \in LogId /\ logs[call[s].log].status = "processing"
        /\ call'[s] = call[s]
    BY <1>3, HowFinalized, WhySuccess
  <2>2. ASSUME CommitParsed(s) PROVE AsItFinalized(s)'
    <3>1. Prefix(s) /\ (\A t \in Table : Inserted(s, t)) /\ call[s].op = "save"
      BY <2>2 DEF CommitParsed, TxSound, Discipline, Disciplined
    <3>2. tx[s] = call[s].parsed
      BY <3>1, WholeInserted
    <3>3. logs'[call[s].log].status = "parsed" /\ rows'[call[s].log] = tx[s]
      BY <2>1, <2>2 DEF CommitParsed, TypeOK
    <3> QED
      BY <2>1, <3>1, <3>2, <3>3 DEF AsItFinalized
  <2>3. ASSUME FailLog(s) PROVE AsItFinalized(s)'
    <3>1. call[s].op = "fail"
      BY <2>3 DEF FailLog, Discipline, Disciplined
    <3>2. logs'[call[s].log].status = "failed"
      BY <2>1, <2>3 DEF FailLog, TypeOK, LogRow
    <3> QED
      BY <2>1, <3>1, <3>2 DEF AsItFinalized
  <2>4. ASSUME NEW u \in Session, Finalized(u)', call'[u].log = call'[s].log, u # s
        PROVE  FALSE
    <3>1. Finalized(u) /\ call[u].log = call[s].log
      BY <1>3, <2>1, <2>4, OthersUntouched DEF Untouched, Finalized
    <3> QED
      BY <1>1, <2>1, <3>1 DEF Terminal
  <2> QED
    BY <1>3, <2>2, <2>3, <2>4 DEF Finalizes
<1> QED
  BY <1>2, <1>3, WhySuccess

-----------------------------------------------------------------------------
(***************************************************************************)
(* The theorems.                                                           *)
(***************************************************************************)
LEMMA SafetyInit == Init => SafetyInv
<1> SUFFICES ASSUME Init PROVE SafetyInv
  OBVIOUS
<1>1. FreshIDs /\ CheckedStatusHolds /\ TxSound /\ OneFinalizer
  BY DEF Init, FreshIDs, NoLog, CheckedStatusHolds, TxSound, OneFinalizer, Finalized
<1> QED
  BY <1>1, TypeInit, DisciplineInit, DataInit DEF SafetyInv

LEMMA SafetyStep == SafetyInv /\ [Next]_vars => SafetyInv'
<1> SUFFICES ASSUME SafetyInv, [Next]_vars PROVE SafetyInv'
  OBVIOUS
<1>1. TypeInv'
  BY TypeOKStep, WithinStep DEF SafetyInv, TypeInv
<1>2. Discipline' /\ CheckedStatusHolds' /\ FreshIDs'
  BY DisciplineStep, CheckedStep, FreshStep DEF SafetyInv, TypeInv
<1>3. TxSound'
  BY TxSoundStep DEF SafetyInv
<1>4. DataMatchesStatus' /\ OneFinalizer'
  BY DataStep, OneFinalizerStep DEF SafetyInv, TypeInv
<1> QED
  BY <1>1, <1>2, <1>3, <1>4 DEF SafetyInv

LEMMA Safety == Spec => []SafetyInv
  BY SafetyInit, SafetyStep, PTL DEF Spec

\* The status that SELECT ... FOR UPDATE has read is still the status of the log
\* at every later statement of SaveParsedLog.
THEOREM CheckedStatusCorrect == Spec => []CheckedStatusHolds
<1>1. SafetyInv => CheckedStatusHolds
  BY DEF SafetyInv
<1> QED
  BY <1>1, Safety, PTL

\* Readers of the database see of a log either all of one consistent ParsedLog,
\* with the counters that belong to it, or nothing, according to its status.
THEOREM DataCorrect == Spec => []DataMatchesStatus
<1>1. SafetyInv => DataMatchesStatus
  BY DEF SafetyInv
<1> QED
  BY <1>1, Safety, PTL

\* Of the SaveParsedLog and FailLog calls on a log, at most one is told that it
\* succeeded, and the log is what that one made of it.
THEOREM FinalizerCorrect == Spec => []OneFinalizer
<1>1. SafetyInv => OneFinalizer
  BY DEF SafetyInv
<1> QED
  BY <1>1, Safety, PTL

\* A parsed or failed log, and its rows, never change.
THEOREM TerminalCorrect == Spec => TerminalIsFinal
<1> DEFINE Kept == \A l \in LogId : logs[l].status \in Terminal =>
                     logs'[l] = logs[l] /\ rows'[l] = rows[l]
<1>1. SafetyInv /\ [Next]_vars => [Kept]_vars
  BY TerminalStep DEF SafetyInv, TypeInv
<1> QED
  BY <1>1, Safety, PTL DEF Spec, TerminalIsFinal

-----------------------------------------------------------------------------
(***************************************************************************)
(* LogStore implements LogLifecycle.  The mapping forgets the sessions:    *)
(* what is left is each log's committed status and committed rows, so a    *)
(* step of a transaction that has not committed is a stutter.              *)
(***************************************************************************)
LEMMA LifecycleInit == Init => Lifecycle!Init
  BY DEF Init, NoLog, Lifecycle!Init

\* A step that leaves every log alone, as far as readers can tell.
LEMMA Stutter ==
  ASSUME TypeOK, \A l \in LogId : logs'[l] = logs[l] /\ rows'[l] = rows[l],
         TypeOK'
  PROVE  UNCHANGED Lifecycle!vars
<1>1. rows' = rows
  BY DEF TypeOK
<1> QED
  BY <1>1 DEF Lifecycle!vars

LEMMA RegisterStep ==
  ASSUME SafetyInv, NEW s \in Session, CreateLog(s)
  PROVE  Lifecycle!Next
<1>1. /\ nextID \in LogId /\ rows' = rows
      /\ logs' = [logs EXCEPT ![nextID] = [NoLog EXCEPT !.status = "processing"]]
  BY DEF CreateLog
<1>2. logs[nextID].status = "none"
  BY <1>1 DEF SafetyInv, FreshIDs, LogId
<1>3. Lifecycle!Register(nextID)
  BY <1>1, <1>2 DEF NoLog, SafetyInv, TypeInv, TypeOK, Lifecycle!Register
<1> QED
  BY <1>1, <1>3 DEF Lifecycle!Next, Lifecycle!Register

LEMMA PublishStep ==
  ASSUME SafetyInv, NEW s \in Session, CommitParsed(s)
  PROVE  Lifecycle!Next
<1> DEFINE l == call[s].log
<1>0. TypeOK
  BY DEF SafetyInv, TypeInv
<1>1. /\ l \in LogId /\ logs[l].status = "processing"
      /\ call[s].parsed \in Payload
  BY HowFinalized DEF SafetyInv, TypeInv, Finalizes, CommitParsed, Discipline, Disciplined
<1>2. WellFormed(tx[s]) /\ tx[s] = call[s].parsed
  <2>1. WellFormed(tx[s]) /\ Prefix(s) /\ \A t \in Table : Inserted(s, t)
    BY DEF CommitParsed, SafetyInv, TxSound
  <2> QED
    BY <1>0, <2>1, WholeInserted
<1>3. /\ rows' = [rows EXCEPT ![l] = tx[s]]
      /\ logs' = [logs EXCEPT ![l] = [status |-> "parsed",
                                      nodes |-> Len(call[s].parsed["nodes"]),
                                      ports |-> Len(call[s].parsed["ports"])]]
  BY DEF CommitParsed
<1>4. Lifecycle!Publish(l, tx[s])
  BY <1>0, <1>1, <1>3 DEF TypeOK, Lifecycle!Publish
<1>5. tx[s] \in {p \in Payload : WellFormed(p)}
  BY <1>1, <1>2
<1> QED
  BY <1>1, <1>4, <1>5 DEF Lifecycle!Next, Lifecycle!Publish

LEMMA FailStep ==
  ASSUME SafetyInv, NEW s \in Session, FailLog(s)
  PROVE  Lifecycle!Next
<1> DEFINE l == call[s].log
<1>0. TypeOK
  BY DEF SafetyInv, TypeInv
<1>1. l \in LogId /\ logs[l].status = "processing"
  BY HowFinalized DEF SafetyInv, TypeInv, Finalizes
<1>2. logs' = [logs EXCEPT ![l].status = "failed"] /\ rows' = rows
  BY DEF FailLog
<1>3. Lifecycle!Fail(l)
  BY <1>0, <1>1, <1>2 DEF TypeOK, LogRow, Lifecycle!Fail
<1> QED
  BY <1>1, <1>3 DEF Lifecycle!Next, Lifecycle!Fail

LEMMA LifecycleStep ==
  SafetyInv /\ SafetyInv' /\ [Next]_vars => [Lifecycle!Next]_(Lifecycle!vars)
<1> SUFFICES ASSUME SafetyInv, SafetyInv', [Next]_vars
             PROVE  Lifecycle!Next \/ UNCHANGED Lifecycle!vars
  OBVIOUS
<1>0. TypeOK /\ TypeOK'
  BY DEF SafetyInv, TypeInv
<1>1. CASE Crash \/ UNCHANGED vars
  BY <1>0, <1>1, Stutter DEF Crash, vars
<1>2. ASSUME NEW s \in Session, Step(s)
      PROVE  Lifecycle!Next \/ UNCHANGED Lifecycle!vars
  <2>1. CASE CreateLog(s) \/ Finalizes(s)
    BY <2>1, RegisterStep, PublishStep, FailStep DEF Finalizes
  <2>2. CASE ~ (CreateLog(s) \/ Finalizes(s))
    BY <1>0, <1>2, <2>2, WhoChanges, Stutter
  <2> QED
    BY <2>1, <2>2
<1> QED
  BY <1>1, <1>2 DEF Next

\* The writers of the repository service, with their statements, locks, roll-
\* backs and crashes, do to every log what the life cycle allows, and no more.
THEOREM LifecycleCorrect == Spec => ImplementsLifecycle
<1>1. SafetyInv /\ [Next]_vars => SafetyInv'
  BY SafetyStep
<1> QED
  BY <1>1, Safety, LifecycleInit, LifecycleStep, PTL
  DEF Spec, ImplementsLifecycle, Lifecycle!Spec
=============================================================================
