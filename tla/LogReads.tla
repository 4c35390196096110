------------------------------ MODULE LogReads ------------------------------
(***************************************************************************)
(* The read side next to the writers of LogStore.  One reader is one GET   *)
(* request to the app and the chain of calls behind it: the app's service, *)
(* the topology service where the request is about a topology, and the     *)
(* repository's statements.  Every step is one SQL statement; other        *)
(* handlers may commit between two of them.                                *)
(*                                                                         *)
(*   "log"       GetLog: one statement                                     *)
(*   "node"      GetNode: the node, then its info                          *)
(*   "nodePorts" the app's GetPortsByNode: GetNode, then the ports         *)
(*   "nodes"     the app's GetNodesByLog: GetLog, then the nodes           *)
(*   "ports"     the app's GetPortsByLog: GetLog, then the ports           *)
(*   "topology"  GetTopologyData: log, nodes and ports in one REPEATABLE   *)
(*               READ transaction, then the topology service's own check   *)
(***************************************************************************)
EXTENDS LogStore, ErrorMapping

CONSTANTS Reader

ASSUME GUIDAssumption == GUID # {}

VARIABLE
  read  \* the state of each reader, see ReadState

readVars == <<logs, rows, nextID, lock, pc, call, tx, reply, read>>

Query == {"log", "node", "nodePorts", "nodes", "ports", "topology"}
OfANode == {"node", "nodePorts"}

\* WHERE node_guid = g, or node_id = that node's: the rows in their order.
OfNode(seq, g) ==
  LET kept[n \in 0 .. Len(seq)] ==
        IF n = 0 THEN <<>>
        ELSE IF seq[n].guid = g THEN Append(kept[n - 1], seq[n]) ELSE kept[n - 1]
  IN kept[Len(seq)]

ReadState ==
  [query : Query \cup {"none"},
   log : LogId \cup {0},              \* the argument: a log, ...
   guid : GUID,                       \* ... or the node of it with this GUID
   at : {"idle", "log", "node", "info", "nodes", "ports", "done"},
   snapshot : ParsedLog,              \* what a REPEATABLE READ transaction sees
   gotLog : LogRow,                   \* what the statements returned so far
   got : [Table -> Seq(Row)],
   answer : {"none", "ok", "ErrBadArguments", "ErrNotFound", "ErrLogNotParsed",
             "dbError", "ErrUnavailable"}]

NotReading(g) ==
  [query |-> "none", log |-> 0, guid |-> g, at |-> "idle",
   snapshot |-> EmptyRows, gotLog |-> NoLog, got |-> EmptyRows, answer |-> "none"]

AnyGUID == CHOOSE g \in GUID : TRUE

ReadInit == Init /\ read = [r \in Reader |-> NotReading(AnyGUID)]

-----------------------------------------------------------------------------
Becomes(r, x) == read' = [read EXCEPT ![r] = x]
AnswerRead(r, x, a) == Becomes(r, [x EXCEPT !.at = "done", !.answer = a])

\* Every layer refuses an identifier that is not positive.
Ask(r, q, l, g) ==
  /\ read[r].at = "idle"
  /\ LET x == [read[r] EXCEPT !.query = q, !.log = l, !.guid = g]
     IN IF l = 0
          THEN AnswerRead(r, x, "ErrBadArguments")
          ELSE Becomes(r, [x EXCEPT !.at = IF q \in OfANode THEN "node" ELSE "log"])

\* GetLog, and the first statement of GetTopologyData, which takes the snapshot.
SelectLog(r) ==
  LET l == read[r].log
      x == [read[r] EXCEPT !.gotLog = logs[l], !.snapshot = rows[l]]
  IN /\ read[r].at = "log"
     /\ IF logs[l].status = "none"
          THEN AnswerRead(r, read[r], "ErrNotFound")
          ELSE CASE x.query = "log" -> AnswerRead(r, x, "ok")
                 [] x.query \in {"nodes", "topology"} -> Becomes(r, [x EXCEPT !.at = "nodes"])
                 [] x.query = "ports" -> Becomes(r, [x EXCEPT !.at = "ports"])

\* Mutant: GetTopologyData at the default isolation level.
VisibleCommitted(r) == rows[read[r].log]

\* The rows a statement of the reader sees: its snapshot, if it has one, or
\* what is committed when the statement starts.
Visible(r) ==
  IF read[r].query = "topology" THEN read[r].snapshot ELSE rows[read[r].log]

\* nodes LEFT JOIN nodes_info: one statement.
SelectNodes(r) ==
  LET x == [read[r] EXCEPT !.got["nodes"] = Visible(r)["nodes"],
                           !.got["infos"] = Visible(r)["infos"]]
  IN /\ read[r].at = "nodes"
     /\ IF x.query = "topology"
          THEN Becomes(r, [x EXCEPT !.at = "ports"])
          ELSE AnswerRead(r, x, "ok")

\* Mutant: the topology service without its check of the status.
SelectPortsOfAnyLog(r) ==
  LET all == Visible(r)["ports"]
      x == [read[r] EXCEPT !.got["ports"] =
              IF read[r].query = "nodePorts" THEN OfNode(all, read[r].guid) ELSE all]
  IN read[r].at = "ports" /\ AnswerRead(r, x, "ok")

\* The last statement of three queries; the topology service then looks at the
\* status in the data it was given.
SelectPorts(r) ==
  LET all == Visible(r)["ports"]
      x == [read[r] EXCEPT !.got["ports"] =
              IF read[r].query = "nodePorts" THEN OfNode(all, read[r].guid) ELSE all]
  IN /\ read[r].at = "ports"
     /\ AnswerRead(r, x, IF x.query = "topology" /\ x.gotLog.status # "parsed"
                           THEN "ErrLogNotParsed" ELSE "ok")

SelectNode(r) ==
  LET found == OfNode(rows[read[r].log]["nodes"], read[r].guid)
  IN /\ read[r].at = "node"
     /\ IF found = <<>>
          THEN AnswerRead(r, read[r], "ErrNotFound")
          ELSE Becomes(r, [read[r] EXCEPT !.got["nodes"] = found, !.at = "info"])

\* A node without a nodes_info row is no error.
SelectNodeInfo(r) ==
  LET found == OfNode(rows[read[r].log]["infos"], read[r].guid)
      x == [read[r] EXCEPT !.got["infos"] = found]
  IN /\ read[r].at = "info"
     /\ IF x.query = "node"
          THEN AnswerRead(r, x, "ok")
          ELSE Becomes(r, [x EXCEPT !.at = "ports"])

\* A failed statement, or a service that cannot be reached.
ReadFails(r) ==
  /\ read[r].at \in {"log", "node", "info", "nodes", "ports"}
  /\ \E err \in {"dbError", "ErrUnavailable"} : AnswerRead(r, read[r], err)

ReadReturn(r) ==
  /\ read[r].at = "done"
  /\ Becomes(r, NotReading(AnyGUID))

ReadWork(r) ==
  \/ SelectLog(r)
  \/ SelectNodes(r)
  \/ SelectPorts(r)
  \/ SelectNode(r)
  \/ SelectNodeInfo(r)
  \/ ReadFails(r)

ReadStep(r) ==
  \/ \E q \in Query, l \in LogId \cup {0}, g \in GUID : Ask(r, q, l, g)
  \/ ReadWork(r)
  \/ ReadReturn(r)

ReadNext ==
  \/ Next /\ UNCHANGED read
  \/ \E r \in Reader : ReadStep(r) /\ UNCHANGED vars

ReadSpec == ReadInit /\ [][ReadNext]_readVars

-----------------------------------------------------------------------------
\* The store's variables and the readers' locals keep their types.
ReadTypeOK == TypeOK /\ read \in [Reader -> ReadState]

\* What the client is told: the repository's error as the app's client sees it,
\* by way of the topology service if that one has asked.
ReadError(r) ==
  CASE read[r].query # "topology" -> FromRepository(RepositoryCode(read[r].answer))
    [] read[r].answer = "ErrLogNotParsed" -> FromTopology(TopologyCode("ErrLogNotParsed"))
    [] OTHER -> FromTopology(TopologyCode(
                  TopologyFromRepository(RepositoryCode(read[r].answer))))

HttpAnswer(r) == IF read[r].answer = "ok" THEN 200 ELSE HttpStatus(ReadError(r))

Answered(r, q) == read[r].query = q /\ read[r].at = "done" /\ read[r].answer = "ok"

\* Whole data with a parsed log, none with any other.
DataOfOneState ==
  \A r \in Reader :
    read[r].query = "topology" /\ read[r].answer \in {"ok", "ErrLogNotParsed"} =>
      IF read[r].gotLog.status = "parsed"
        THEN /\ Len(read[r].got["nodes"]) = read[r].gotLog.nodes
             /\ Len(read[r].got["ports"]) = read[r].gotLog.ports
             /\ WellFormed(read[r].got)
        ELSE read[r].got = EmptyRows

\* Exactly the data that every later request will see for the log.
TopologyOfParsedOnly ==
  \A r \in Reader : Answered(r, "topology") =>
    /\ logs[read[r].log].status = "parsed"
    /\ read[r].got = rows[read[r].log]

\* What GetTopologyData hands to the topology service is one state of the
\* database, even if the log was finalized between two of its statements, and
\* a topology is built of a parsed log only.
TopologyDataIsSnapshot == DataOfOneState /\ TopologyOfParsedOnly

\* The status of a GET tells what the database said, over two or three services
\* and as many translations of the error: 404 that nothing was there, 409 that
\* the log was there but not parsed, 500 and 503 that nothing was decided; a
\* positive identifier is never answered with 400.
HttpStatusIsTrue ==
  \A r \in Reader : read[r].at = "done" /\ read[r].log # 0 =>
    LET seen == read[r].gotLog.status
    IN CASE HttpAnswer(r) = 200 -> CASE read[r].query = "topology" -> seen = "parsed"
                                     [] read[r].query \in OfANode -> read[r].got["nodes"] # <<>>
                                     [] OTHER -> seen # "none"
         [] HttpAnswer(r) = 404 -> seen = "none" /\ read[r].got = EmptyRows
         [] HttpAnswer(r) = 409 -> read[r].query = "topology"
                                   /\ seen \in {"processing", "failed"}
         [] HttpAnswer(r) = 500 -> read[r].answer = "dbError"
         [] HttpAnswer(r) = 503 -> read[r].answer = "ErrUnavailable"
         [] OTHER -> FALSE

\* The app lists nodes and ports with two calls and no transaction around them,
\* yet a list is all or nothing, and it is all if the first call already found
\* the log parsed.
ListsAreAllOrNothing ==
  \A r \in Reader, t \in {"nodes", "ports"} : Answered(r, t) =>
    \/ read[r].got[t] = rows[read[r].log][t]
    \/ read[r].got[t] = <<>> /\ read[r].gotLog.status # "parsed"

\* GetNode and GetPortsByNode read the node, its info and its ports one after
\* the other; what they return belongs together, because a node is never seen
\* before its info and ports are, and nothing of a parsed log changes later.
NodeBelongsTogether ==
  \A r \in Reader : Answered(r, "node") \/ Answered(r, "nodePorts") =>
    LET x == read[r]
        now == rows[x.log]
    IN /\ x.got["nodes"] = OfNode(now["nodes"], x.guid)
       /\ x.got["infos"] = OfNode(now["infos"], x.guid)
       /\ x.query = "nodePorts" => x.got["ports"] = OfNode(now["ports"], x.guid)
       /\ Len(x.got["nodes"]) = 1
       /\ Len(x.got["infos"]) <= 1
=============================================================================
