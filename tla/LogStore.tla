------------------------------ MODULE LogStore ------------------------------
(***************************************************************************)
(* The repository service and its PostgreSQL database: the three handlers  *)
(* that write (CreateLog, SaveParsedLog, FailLog), statement by statement. *)
(*                                                                         *)
(* A session is one gRPC handler with its database connection.  A row of   *)
(* nodes, nodes_info or ports is abstracted to the columns a constraint or *)
(* a check of the code looks at: the node's GUID and the port number       *)
(* (which nothing looks at in nodes and nodes_info).  The other columns,   *)
(* error_text and the timestamps are left out.                             *)
(*                                                                         *)
(* What PostgreSQL provides is stated where it is used: a statement is     *)
(* atomic, SELECT ... FOR UPDATE and UPDATE wait for the row lock and then *)
(* look at the committed row, uncommitted rows are invisible to others,    *)
(* a lost connection rolls the transaction back.                           *)
(***************************************************************************)
EXTENDS Integers, Sequences

CONSTANTS
  Session,    \* gRPC handlers that may run at the same time
  MaxLogs,    \* bound on the identifiers drawn from logs.id (BIGSERIAL)
  GUID,       \* node GUIDs
  PortNum,    \* port numbers
  NoGUID,     \* the empty node_guid
  NoSession,  \* the owner of a row lock nobody holds
  Payload     \* the ParsedLog values that clients send

Table == {"nodes", "infos", "ports"}
Row == [guid : GUID \cup {NoGUID}, num : PortNum]
LogId == 1 .. MaxLogs

ASSUME MaxLogsAssumption == MaxLogs \in Nat
ASSUME NoSessionAssumption == NoSession \notin Session
ASSUME PayloadAssumption == Payload \subseteq [Table -> Seq(Row)]

VARIABLES
  logs,    \* table logs: status and the two counters; status "none": no row
  rows,    \* committed rows of the other three tables, by log and in id order
  nextID,  \* the sequence behind logs.id
  lock,    \* lock[l]: the session whose transaction holds the row lock of l
  pc,      \* where each handler is
  call,    \* the arguments of each handler; CreateLog's log is its result
  tx,      \* what each transaction sees of its own log's rows
  reply    \* the error (or "ok") with which a handler that is "done" returns

vars == <<logs, rows, nextID, lock, pc, call, tx, reply>>

Status == {"none", "processing", "parsed", "failed"}
Terminal == {"parsed", "failed"}
Op == {"none", "create", "save", "fail"}
Reply == {"none", "ok", "ErrBadArguments", "ErrNotFound", "ErrInvalidStatus",
          "dbError", "unavailable"}
Place == {"idle", "create", "lock", "insert", "fail", "explain", "done"}
ParsedLog == [Table -> Seq(Row)]
LogRow == [status : Status, nodes : Nat, ports : Nat]
Call == [op : Op, log : LogId \cup {0}, parsed : ParsedLog]

EmptyRows == [t \in Table |-> <<>>]
NoLog == [status |-> "none", nodes |-> 0, ports |-> 0]
NoCall == [op |-> "none", log |-> 0, parsed |-> EmptyRows]

RowsOf(seq) == {seq[i] : i \in DOMAIN seq}
GUIDsOf(seq) == {seq[i].guid : i \in DOMAIN seq}

Init ==
  /\ logs = [l \in LogId |-> NoLog]
  /\ rows = [l \in LogId |-> EmptyRows]
  /\ nextID = 1
  /\ lock = [l \in LogId |-> NoSession]
  /\ pc = [s \in Session |-> "idle"]
  /\ call = [s \in Session |-> NoCall]
  /\ tx = [s \in Session |-> EmptyRows]
  /\ reply = [s \in Session |-> "none"]

-----------------------------------------------------------------------------
(***************************************************************************)
(* The end of a handler.                                                   *)
(***************************************************************************)
Answer(s, r) ==
  /\ pc' = [pc EXCEPT ![s] = "done"]
  /\ reply' = [reply EXCEPT ![s] = r]

\* Mutant: the transaction is left open when the handler returns.
UnlockForgotten(s) ==
  /\ tx' = [tx EXCEPT ![s] = EmptyRows]
  /\ UNCHANGED lock

\* The deferred Rollback, or its Commit: the row lock is released either way.
Unlock(s) ==
  /\ lock' = [l \in LogId |-> IF lock[l] = s THEN NoSession ELSE lock[l]]
  /\ tx' = [tx EXCEPT ![s] = EmptyRows]

Rollback(s, r) ==
  /\ Answer(s, r)
  /\ Unlock(s)
  /\ UNCHANGED <<logs, rows, nextID, call>>

-----------------------------------------------------------------------------
(***************************************************************************)
(* Requests.  core.Service rejects a log_id that is not positive before    *)
(* anything reaches the database.                                          *)
(***************************************************************************)
Begin(s, first, c) ==
  /\ pc[s] = "idle"
  /\ call' = [call EXCEPT ![s] = c]
  /\ IF c.op # "create" /\ c.log = 0
       THEN Answer(s, "ErrBadArguments")
       ELSE pc' = [pc EXCEPT ![s] = first] /\ UNCHANGED reply
  /\ UNCHANGED <<logs, rows, nextID, lock, tx>>

CallCreateLog(s) ==
  Begin(s, "create", [op |-> "create", log |-> 0, parsed |-> EmptyRows])

CallSaveParsedLog(s, l, p) ==
  Begin(s, "lock", [op |-> "save", log |-> l, parsed |-> p])

CallFailLog(s, l) ==
  Begin(s, "fail", [op |-> "fail", log |-> l, parsed |-> EmptyRows])

\* The client has the reply; the handler is free again.
Return(s) ==
  /\ pc[s] = "done"
  /\ pc' = [pc EXCEPT ![s] = "idle"]
  /\ call' = [call EXCEPT ![s] = NoCall]
  /\ reply' = [reply EXCEPT ![s] = "none"]
  /\ UNCHANGED <<logs, rows, nextID, lock, tx>>

-----------------------------------------------------------------------------
(***************************************************************************)
(* CreateLog: one INSERT, committed on its own.  The row may be there      *)
(* although the caller is told of an error (the connection broke after the *)
(* commit).                                                                *)
(***************************************************************************)
CreateLog(s) ==
  /\ pc[s] = "create"
  /\ nextID \in LogId
  /\ logs' = [logs EXCEPT ![nextID] = [NoLog EXCEPT !.status = "processing"]]
  /\ nextID' = nextID + 1
  /\ \/ /\ Answer(s, "ok")
        /\ call' = [call EXCEPT ![s].log = nextID]
     \/ /\ Answer(s, "dbError")
        /\ UNCHANGED call
  /\ UNCHANGED <<rows, lock, tx>>

\* A sequence is not rolled back: the identifier of a failed INSERT is lost.
CreateLogFails(s) ==
  /\ pc[s] = "create"
  /\ nextID' \in {nextID, nextID + 1}
  /\ nextID' <= MaxLogs + 1
  /\ Answer(s, "dbError")
  /\ UNCHANGED <<logs, rows, lock, call, tx>>

-----------------------------------------------------------------------------
(***************************************************************************)
(* SaveParsedLog: one READ COMMITTED transaction.                          *)
(***************************************************************************)
\* The status SELECT ... FOR UPDATE returns: the committed one.
LockedStatus(s) == logs[call[s].log].status

\* Mutant: the status is read without FOR UPDATE.
LockLogWithoutLock(s) ==
  /\ pc[s] = "lock"
  /\ LockedStatus(s) = "processing"
  /\ tx' = [tx EXCEPT ![s] = EmptyRows]
  /\ pc' = [pc EXCEPT ![s] = "insert"]
  /\ UNCHANGED <<logs, rows, nextID, lock, call, reply>>

\* Mutant: a failed log may be saved after all.
LockLogOfFailed(s) ==
  /\ pc[s] = "lock"
  /\ lock[call[s].log] = NoSession
  /\ LockedStatus(s) \in {"processing", "failed"}
  /\ lock' = [lock EXCEPT ![call[s].log] = s]
  /\ tx' = [tx EXCEPT ![s] = EmptyRows]
  /\ pc' = [pc EXCEPT ![s] = "insert"]
  /\ UNCHANGED <<logs, rows, nextID, call, reply>>

\* SELECT status ... FOR UPDATE, then DELETE FROM nodes (and, by the cascade,
\* of the rows that refer to them).
LockLog(s) ==
  /\ pc[s] = "lock"
  /\ lock[call[s].log] = NoSession
  /\ LockedStatus(s) = "processing"
  /\ lock' = [lock EXCEPT ![call[s].log] = s]
  /\ tx' = [tx EXCEPT ![s] = EmptyRows]
  /\ pc' = [pc EXCEPT ![s] = "insert"]
  /\ UNCHANGED <<logs, rows, nextID, call, reply>>

LockRefused(s) ==
  /\ pc[s] = "lock"
  /\ lock[call[s].log] = NoSession
  /\ \/ LockedStatus(s) = "none" /\ Rollback(s, "ErrNotFound")
     \/ LockedStatus(s) \in Terminal /\ Rollback(s, "ErrInvalidStatus")

\* The loops run one after the other: nodes, nodes_info, ports.
Earlier(t) ==
  CASE t = "nodes" -> {}
    [] t = "infos" -> {"nodes"}
    [] t = "ports" -> {"nodes", "infos"}

Inserted(s, t) == Len(tx[s][t]) = Len(call[s].parsed[t])

Inserting(s, t) ==
  /\ pc[s] = "insert"
  /\ \A u \in Earlier(t) : Inserted(s, u)
  /\ ~ Inserted(s, t)

NextRow(s, t) == call[s].parsed[t][Len(tx[s][t]) + 1]

\* The checks before an INSERT: an empty GUID, or one nodeIDs does not hold.
BadRow(s, t) ==
  \/ NextRow(s, t).guid = NoGUID
  \/ t # "nodes" /\ NextRow(s, t).guid \notin GUIDsOf(tx[s]["nodes"])

\* Mutant: the schema without its unique indexes.
NoUniqueIndex(s, t) == FALSE

\* nodes_log_guid_unique, nodes_info_node_unique, idx_ports_log_node_port_unique
SameKey(t, a, b) == a.guid = b.guid /\ (t = "ports" => a.num = b.num)
Duplicate(s, t) == \E row \in RowsOf(tx[s][t]) : SameKey(t, row, NextRow(s, t))

\* Mutant: the INSERTs run on the pool instead of the transaction.
InsertRowAutocommit(s, t) ==
  /\ Inserting(s, t)
  /\ ~ BadRow(s, t)
  /\ ~ Duplicate(s, t)
  /\ tx' = [tx EXCEPT ![s][t] = Append(@, NextRow(s, t))]
  /\ rows' = [rows EXCEPT ![call[s].log][t] = Append(@, NextRow(s, t))]
  /\ UNCHANGED <<logs, nextID, lock, pc, call, reply>>

InsertRow(s, t) ==
  /\ Inserting(s, t)
  /\ ~ BadRow(s, t)
  /\ ~ Duplicate(s, t)
  /\ tx' = [tx EXCEPT ![s][t] = Append(@, NextRow(s, t))]
  /\ UNCHANGED <<logs, rows, nextID, lock, pc, call, reply>>

RejectRow(s, t) ==
  /\ Inserting(s, t)
  /\ \/ BadRow(s, t) /\ Rollback(s, "ErrBadArguments")
     \/ ~ BadRow(s, t) /\ Duplicate(s, t) /\ Rollback(s, "dbError")

\* UPDATE logs, COMMIT: everything the transaction wrote becomes visible.  The
\* caller may be told of an error although the commit went through.
CommitParsed(s) ==
  /\ pc[s] = "insert"
  /\ \A t \in Table : Inserted(s, t)
  /\ LET l == call[s].log
         p == call[s].parsed
     IN /\ logs' = [logs EXCEPT ![l] = [status |-> "parsed",
                                        nodes |-> Len(p["nodes"]),
                                        ports |-> Len(p["ports"])]]
        /\ rows' = [rows EXCEPT ![l] = tx[s]]
  /\ Unlock(s)
  /\ Answer(s, "ok") \/ Answer(s, "dbError")
  /\ UNCHANGED <<nextID, call>>

-----------------------------------------------------------------------------
(***************************************************************************)
(* FailLog: an UPDATE guarded by the status, committed on its own, and, if *)
(* it changed no row, a SELECT that finds out why.                         *)
(***************************************************************************)
\* Mutant: a status that the CHECK constraint does not list.
FailLogAsError(s) ==
  /\ pc[s] = "fail"
  /\ lock[call[s].log] = NoSession
  /\ LockedStatus(s) = "processing"
  /\ logs' = [logs EXCEPT ![call[s].log].status = "error"]
  /\ Answer(s, "ok")
  /\ UNCHANGED <<rows, nextID, lock, call, tx>>

\* Mutant: the UPDATE without "AND status = 'processing'".
FailLogAnyStatus(s) ==
  /\ pc[s] = "fail"
  /\ lock[call[s].log] = NoSession
  /\ LockedStatus(s) # "none"
  /\ logs' = [logs EXCEPT ![call[s].log].status = "failed"]
  /\ Answer(s, "ok")
  /\ UNCHANGED <<rows, nextID, lock, call, tx>>

\* UPDATE waits for the row lock, then evaluates its WHERE on the committed row.
FailLog(s) ==
  /\ pc[s] = "fail"
  /\ lock[call[s].log] = NoSession
  /\ LockedStatus(s) = "processing"
  /\ logs' = [logs EXCEPT ![call[s].log].status = "failed"]
  /\ Answer(s, "ok") \/ Answer(s, "dbError")
  /\ UNCHANGED <<rows, nextID, lock, call, tx>>

\* Mutant: the UPDATE skips a row that is locked instead of waiting for it.
FailLogSkipsLocked(s) ==
  /\ pc[s] = "fail"
  /\ LockedStatus(s) # "processing" \/ lock[call[s].log] # NoSession
  /\ pc' = [pc EXCEPT ![s] = "explain"]
  /\ UNCHANGED <<logs, rows, nextID, lock, call, tx, reply>>

\* A row whose committed status already fails the WHERE clause is not waited for.
FailLogMisses(s) ==
  /\ pc[s] = "fail"
  /\ LockedStatus(s) # "processing"
  /\ pc' = [pc EXCEPT ![s] = "explain"]
  /\ UNCHANGED <<logs, rows, nextID, lock, call, tx, reply>>

FailLogExplains(s) ==
  /\ pc[s] = "explain"
  /\ IF LockedStatus(s) = "none"
       THEN Rollback(s, "ErrNotFound")
       ELSE Rollback(s, "ErrInvalidStatus")

-----------------------------------------------------------------------------
(***************************************************************************)
(* Failures.  A cancelled or expired context, a lost connection or a       *)
(* database error ends the handler at whatever statement it has reached.   *)
(***************************************************************************)
StatementFails(s) ==
  /\ pc[s] \in {"lock", "insert", "fail", "explain"}
  /\ Rollback(s, "dbError")

\* The repository process dies: no handler answers, PostgreSQL rolls back.
Crash ==
  /\ pc' = [s \in Session |-> IF pc[s] = "idle" THEN "idle" ELSE "done"]
  /\ reply' = [s \in Session |-> IF pc[s] = "idle" THEN "none" ELSE "unavailable"]
  /\ lock' = [l \in LogId |-> NoSession]
  /\ tx' = [s \in Session |-> EmptyRows]
  /\ UNCHANGED <<logs, rows, nextID, call>>

-----------------------------------------------------------------------------
\* The steps a handler takes by itself.
Work(s) ==
  \/ CreateLog(s)
  \/ LockLog(s)
  \/ LockRefused(s)
  \/ \E t \in Table : InsertRow(s, t) \/ RejectRow(s, t)
  \/ CommitParsed(s)
  \/ FailLog(s)
  \/ FailLogMisses(s)
  \/ FailLogExplains(s)

Receive(s) ==
  \/ CallCreateLog(s)
  \/ \E l \in LogId \cup {0} :
       \/ \E p \in Payload : CallSaveParsedLog(s, l, p)
       \/ CallFailLog(s, l)

Step(s) ==
  \/ Receive(s)
  \/ Return(s)
  \/ Work(s)
  \/ CreateLogFails(s)
  \/ StatementFails(s)

Next == Crash \/ \E s \in Session : Step(s)

Spec == Init /\ [][Next]_vars

\* database/sql and PostgreSQL keep executing the statements of a handler, and
\* the queue on a row lock lets every waiter through in its turn.
Fairness ==
  \A s \in Session :
    /\ WF_vars(Work(s))
    /\ SF_vars(LockLog(s) \/ LockRefused(s))
    /\ SF_vars(FailLog(s) \/ FailLogMisses(s))

FairSpec == Spec /\ Fairness

-----------------------------------------------------------------------------
(***************************************************************************)
(* Properties.                                                             *)
(***************************************************************************)
TypeOK ==
  /\ logs \in [LogId -> LogRow]
  /\ rows \in [LogId -> ParsedLog]
  /\ nextID \in 1 .. MaxLogs + 1
  /\ lock \in [LogId -> Session \cup {NoSession}]
  /\ pc \in [Session -> Place]
  /\ call \in [Session -> Call]
  /\ tx \in [Session -> ParsedLog]
  /\ reply \in [Session -> Reply]

Distinct(t, seq) == \A i, j \in DOMAIN seq : SameKey(t, seq[i], seq[j]) => i = j

\* What the constraints of the schema and the checks of the loops amount to,
\* said of a whole ParsedLog rather than of one row after the other.
WellFormed(p) ==
  /\ \A t \in Table : Distinct(t, p[t])
  /\ NoGUID \notin GUIDsOf(p["nodes"])
  /\ GUIDsOf(p["infos"]) \subseteq GUIDsOf(p["nodes"])
  /\ GUIDsOf(p["ports"]) \subseteq GUIDsOf(p["nodes"])

\* A log that readers see as parsed carries counters that agree with the rows
\* they see, and those rows respect every reference and every unique index; a
\* log in any other status shows no row at all, whatever was rolled back.
DataMatchesStatus ==
  \A l \in LogId :
    IF logs[l].status = "parsed"
      THEN /\ WellFormed(rows[l])
           /\ logs[l].nodes = Len(rows[l]["nodes"])
           /\ logs[l].ports = Len(rows[l]["ports"])
      ELSE rows[l] = EmptyRows /\ logs[l].nodes = 0 /\ logs[l].ports = 0

Finalized(s) == reply[s] = "ok" /\ call[s].op \in {"save", "fail"}

\* Whatever races on a log, at most one SaveParsedLog or FailLog is told that
\* it succeeded, and the log then is what that handler made of it: all the rows
\* of its own ParsedLog, or failed.
OneFinalizer ==
  \A s \in Session : Finalized(s) =>
    /\ \A u \in Session : Finalized(u) /\ call[u].log = call[s].log => u = s
    /\ call[s].op = "save" => /\ logs[call[s].log].status = "parsed"
                              /\ rows[call[s].log] = call[s].parsed
    /\ call[s].op = "fail" => logs[call[s].log].status = "failed"

\* A transaction past its status check owns the row lock, and the log cannot
\* have left "processing" since the check (the value read is still valid when
\* the transaction commits).
CheckedStatusHolds ==
  \A s \in Session : pc[s] = "insert" =>
    /\ lock[call[s].log] = s
    /\ logs[call[s].log].status = "processing"

\* A finalized log never changes again: neither its status and counters nor a
\* row of it, through late, repeated or concurrent calls and crashes.
TerminalIsFinal ==
  [][\A l \in LogId : logs[l].status \in Terminal =>
       logs'[l] = logs[l] /\ rows'[l] = rows[l]]_vars

\* SaveParsedLog and FailLog, once they reached the database, come to an end:
\* no handler waits for a row lock for ever.
HandlersFinish ==
  \A s \in Session :
    pc[s] \in {"lock", "insert", "fail", "explain"} ~> pc[s] \in {"idle", "done"}

Lifecycle == INSTANCE LogLifecycle WITH
  status <- [l \in LogId |-> logs[l].status],
  content <- rows,
  Content <- {p \in Payload : WellFormed(p)},
  Nothing <- EmptyRows

\* The store implements the life cycle of LogLifecycle: a log becomes parsed in
\* one step, together with the whole of one ParsedLog that some client sent.
ImplementsLifecycle == Lifecycle!Spec
=============================================================================
