-------------------------------- MODULE Wire --------------------------------
(***************************************************************************)
(* The way of the data: from the parser to the app, to the repository and  *)
(* its tables, and from there back, by way of the topology service or not, *)
(* to the client.  On its way a row is copied, field by field, from one    *)
(* type to the next nine times or more; every hop is an operator that      *)
(* takes over the fields its code names.                                   *)
(*                                                                         *)
(* A hop between two services is a gRPC message.  It fails if a string of  *)
(* it is not UTF-8, or if it is larger than MessageLimit; a table does not *)
(* take a string with a NUL.  What happens between the statements of the   *)
(* repository is the subject of LogStore and LogReads.                     *)
(***************************************************************************)
EXTENDS Naturals, Sequences, FiniteSets

CONSTANTS
  Parsed,       \* results of the parser: [nodes, infos, ports]
  Cause,        \* what the texts of the parser's errors may be, of Text
  MessageLimit, \* what grpc receives at most: 4 MiB by default
  IdSize        \* what the ids of a row, or of a log, take in a message

VARIABLES
  log,   \* the row of logs: [status, error, nodes_count, ports_count, parsed_at]
  rows,  \* the rows of the other tables that belong to it
  post,  \* the handler of POST /parse: [at, parsed, carried, cause, answer, counts]
  view   \* the handler of a GET: [query, node, raw, at, answer, body]

wireVars == <<log, rows, post, view>>

Rows == INSTANCE SequencesExt

\* A value of a field: what it is, what its text is like and how long it is.
Text == {"clean", "garbled", "nul"}
Empty == [is |-> <<>>, text |-> "clean", size |-> 0]

ParsedNode == {"node_guid", "node_desc", "node_type", "node_kind", "num_ports",
               "class_version", "base_version", "system_image_guid", "port_guid", "raw_json"}
ParsedInfo == {"node_guid", "serial_number", "part_number", "revision", "product_name",
               "raw_json"}
ParsedPort == {"node_guid", "port_guid", "port_num", "lid", "local_port_num", "port_state",
               "port_phy_state", "link_width_active", "link_speed_active", "raw_json"}

StoredNode == ParsedNode \cup {"id", "log_id"}
StoredInfo == ParsedInfo \cup {"id", "node_id"}
StoredPort == ParsedPort \cup {"id", "log_id", "node_id"}

TopologyNode == {"id", "log_id", "node_guid", "node_desc", "node_type", "node_kind",
                 "declared_ports_count", "parsed_ports_count", "serial_number", "product_name"}

\* The parser's rows are merged: a node has one row and at most one info, and
\* nobody mentions a node without a row (Finalize's MergedAndClosed).
FieldValue == [is : Seq(STRING), text : Text, size : Nat]

ASSUME ParsedAssumption ==
  /\ MessageLimit \in Nat
  /\ IdSize \in Nat
  /\ Cause \subseteq Text
  /\ \A p \in Parsed :
       /\ p \in [nodes : Seq([ParsedNode -> FieldValue]), infos : Seq([ParsedInfo -> FieldValue]),
                 ports : Seq([ParsedPort -> FieldValue])]
       /\ \A table \in {"nodes", "infos"} : \A i, j \in DOMAIN p[table] :
            p[table][i]["node_guid"] = p[table][j]["node_guid"] => i = j
       /\ \A table \in {"infos", "ports"} : \A i \in DOMAIN p[table] :
            \E k \in DOMAIN p.nodes : p.nodes[k]["node_guid"] = p[table][i]["node_guid"]

NoRows == [nodes |-> <<>>, infos |-> <<>>, ports |-> <<>>]

NoView == [query |-> "log", node |-> 0, raw |-> FALSE, at |-> "idle", answer |-> "none", body |-> <<>>]

WireInit ==
  /\ log = [status |-> "processing", error |-> "", nodes_count |-> 0, ports_count |-> 0,
            parsed_at |-> "null"]
  /\ rows = NoRows
  /\ post = [at |-> "parser", parsed |-> NoRows, carried |-> NoRows, cause |-> "clean",
             answer |-> "none", counts |-> <<0, 0, 0>>]
  /\ view = NoView

-----------------------------------------------------------------------------
(* The fields that a hop takes over. *)

Take(fields, row) == [f \in fields |-> row[f]]
TakeAll(fields, seq) == [i \in DOMAIN seq |-> Take(fields, seq[i])]
With(row, field, value) == [f \in DOMAIN row \cup {field} |-> IF f = field THEN value ELSE row[f]]

TakeLog(p) == [nodes |-> TakeAll(ParsedNode, p.nodes),
               infos |-> TakeAll(ParsedInfo, p.infos),
               ports |-> TakeAll(ParsedPort, p.ports)]

\* parser: core to message.
parserToProto(p) == TakeLog(p)

\* Mutant: two fields of a port change places.
parserFromProtoSwapped(p) ==
  [TakeLog(p) EXCEPT !.ports = [i \in DOMAIN @ |->
     [@[i] EXCEPT !["lid"] = p.ports[i]["local_port_num"],
                  !["local_port_num"] = p.ports[i]["lid"]]]]

\* app: message to core.
parserFromProto(p) == TakeLog(p)

\* app: core to message.
parsedLogToProto(p) == TakeLog(p)

\* repository: message to core.
parsedLogFromProto(p) == TakeLog(p)

Strings(p) == {p.nodes[i][f] : i \in DOMAIN p.nodes, f \in ParsedNode}
              \cup {p.infos[i][f] : i \in DOMAIN p.infos, f \in ParsedInfo}
              \cup {p.ports[i][f] : i \in DOMAIN p.ports, f \in ParsedPort}

Is(p, text) == \E v \in Strings(p) : v.text = text

RowSizes(seq, ids) ==
  Rows!FoldSeq(LAMBDA row, sum : sum + 1 + row["raw_json"].size + ids, 0, seq)

SizeOf(p, ids) == RowSizes(p.nodes, ids) + RowSizes(p.infos, ids) + RowSizes(p.ports, ids)

-----------------------------------------------------------------------------
(* POST /parse, after CreateLog. *)

Fails(cause) == post' = [post EXCEPT !.at = "fail", !.cause = cause]

ParserReturns ==
  /\ post.at = "parser"
  /\ \/ \E p \in Parsed :
          post' = [post EXCEPT !.at = "reply", !.parsed = p, !.carried = p]
     \/ \E cause \in Cause : Fails(cause)
  /\ UNCHANGED <<log, rows, view>>

ParseReplied ==
  /\ post.at = "reply"
  /\ LET msg == parserToProto(post.carried)
     IN IF Is(msg, "garbled") \/ SizeOf(msg, 0) > MessageLimit
          THEN Fails("clean")
          ELSE post' = [post EXCEPT !.at = "request", !.carried = parserFromProto(msg)]
  /\ UNCHANGED <<log, rows, view>>

SaveRequested ==
  /\ post.at = "request"
  /\ LET msg == parsedLogToProto(post.carried)
     IN IF SizeOf(msg, 0) + IdSize > MessageLimit
          THEN Fails("clean")
          ELSE post' = [post EXCEPT !.at = "insert", !.carried = parsedLogFromProto(msg)]
  /\ UNCHANGED <<log, rows, view>>

\* node_id of the node with that GUID, among those that were inserted.
NodeIDOf(p, guid) == CHOOSE i \in DOMAIN p.nodes : p.nodes[i]["node_guid"] = guid

\* The rows in the order of the statements, with their ids.
Inserted(p) ==
  LET NodeID(row) == NodeIDOf(p, row["node_guid"])
  IN [nodes |-> [i \in DOMAIN p.nodes |-> With(With(p.nodes[i], "id", i), "log_id", 1)],
      infos |-> [i \in DOMAIN p.infos |->
                   With(With(p.infos[i], "id", i), "node_id", NodeID(p.infos[i]))],
      ports |-> [i \in DOMAIN p.ports |->
                   With(With(With(p.ports[i], "id", i), "log_id", 1),
                        "node_id", NodeID(p.ports[i]))]]

\* The unique index on ports, by the node and port_num; those on nodes and infos
\* have nothing to refuse, nor has the repository's check for an empty GUID,
\* because the parser merges by GUIDs that are not empty.
Storable(p) ==
  /\ ~ Is(p, "nul")
  /\ \A i, j \in DOMAIN p.ports :
       (\A f \in {"node_guid", "port_num"} : p.ports[i][f] = p.ports[j][f]) => i = j

SaveParsedLog ==
  /\ post.at = "insert"
  /\ LET p == post.carried
     IN IF Storable(p)
          THEN /\ rows' = Inserted(p)
               /\ log' = [log EXCEPT !.status = "parsed", !.error = "",
                            !.nodes_count = Len(p.nodes), !.ports_count = Len(p.ports),
                            !.parsed_at = "now"]
               /\ post' = [post EXCEPT !.at = "done", !.answer = "ok",
                             !.counts = <<Len(p.nodes), Len(p.ports), Len(p.infos)>>]
          ELSE Fails("clean") /\ UNCHANGED <<log, rows>>
  /\ UNCHANGED view

\* The text of the error is stored with the status, and is refused like any other.
FailLog ==
  /\ post.at = "fail"
  /\ log' = IF post.cause = "nul" THEN log
            ELSE [log EXCEPT !.status = "failed", !.error = "text", !.parsed_at = "now"]
  /\ post' = [post EXCEPT !.at = "done", !.answer = "error"]
  /\ UNCHANGED <<rows, view>>

-----------------------------------------------------------------------------
(* The reads.  A pointer to a node's info is a sequence of at most one row. *)

\* The rows as core types: a time that is NULL is empty.
LogOfRow(l) == [l EXCEPT !.parsed_at = IF @ = "null" THEN "" ELSE @]

\* A unique index allows for one.
InfoOf(n) ==
  LET found == {i \in DOMAIN rows.infos : rows.infos[i]["node_id"] = n["id"]}
  IN IF found = {} THEN <<>>
     ELSE <<Take(StoredInfo, rows.infos[CHOOSE i \in found : TRUE])>>

\* The rows of the ports with that node_id.
PortsOfNode(node) ==
  LET of[k \in 0 .. Len(rows.ports)] ==
        IF k = 0 THEN <<>>
        ELSE IF rows.ports[k]["node_id"] = node THEN Append(of[k - 1], rows.ports[k])
        ELSE of[k - 1]
  IN of[Len(rows.ports)]

\* nodes LEFT JOIN nodes_info.
NodeWithInfo(n) == With(Take(StoredNode, n), "info", InfoOf(n))

\* A node and its info, with two statements.
GetNode(n) == With(Take(StoredNode, n), "info", InfoOf(n))

PortOfRow(p) == Take(StoredPort, p)

nodeToProto(n) == With(Take(StoredNode, n), "info", TakeAll(StoredInfo, n["info"]))

nodeFromProto(n) == With(Take(StoredNode, n), "info", TakeAll(StoredInfo, n["info"]))

portToProto(p) == Take(StoredPort, p)

portFromProto(p) == Take(StoredPort, p)

\* Only what the topology service needs.
topologyNodeFromProto(n) ==
  With(Take({"id", "log_id", "node_guid", "node_desc", "node_type", "node_kind", "num_ports"}, n),
       "info", TakeAll({"serial_number", "product_name"}, n["info"]))

topologyPortFromProto(p) ==
  Take({"id", "log_id", "node_id", "node_guid", "port_guid", "port_num", "port_state",
        "link_width_active", "link_speed_active"}, p)

Mapped(Op(_), seq) == [i \in DOMAIN seq |-> Op(seq[i])]

\* A status is a number in a message, and an empty time is left out.
LogStatus == {<<"processing", 1>>, <<"parsed", 2>>, <<"failed", 3>>}
logStatusToProto(status) == (CHOOSE x \in LogStatus : x[1] = status)[2]
logStatusFromProto(n) == (CHOOSE x \in LogStatus : x[2] = n)[1]

logToProto(l) == [l EXCEPT !.status = logStatusToProto(@),
                           !.parsed_at = IF @ = "" THEN "nil" ELSE @]

logFromProto(l) == [l EXCEPT !.status = logStatusFromProto(@),
                             !.parsed_at = IF @ = "nil" THEN "" ELSE @]

\* What the repository answers with, before it is on its way.  Of the lists, the
\* app also asks for the log.
RepositoryHas(q, n) ==
  LET nodes == IF q = "node" THEN <<GetNode(rows.nodes[n])>>
               ELSE IF q \in {"nodes", "topology"} THEN Mapped(NodeWithInfo, rows.nodes)
               ELSE <<>>
      ports == IF q = "nodePorts" THEN PortsOfNode(n)
               ELSE IF q \in {"ports", "topology"} THEN rows.ports
               ELSE <<>>
  IN [log |-> logToProto(LogOfRow(log)),
      nodes |-> Mapped(nodeToProto, nodes),
      ports |-> Mapped(portToProto, Mapped(PortOfRow, ports))]

InfosOf(nodes) == Rows!FoldSeq(LAMBDA n, infos : infos \o n["info"], <<>>, nodes)

\* The size of that answer: a row carries more ids than when it was saved.
AnswerSize(body) ==
  RowSizes(body.nodes, IdSize) + RowSizes(InfosOf(body.nodes), IdSize)
  + RowSizes(body.ports, IdSize)

\* A node that is not there is not found: its end is the subject of LogReads.
Ask(q, n, raw) ==
  /\ view.at = "idle"
  /\ view' = [view EXCEPT !.query = q, !.node = n, !.raw = raw, !.at = "repository",
                          !.body = RepositoryHas(q, n)]
  /\ UNCHANGED <<log, rows, post>>

RepositoryReplied ==
  /\ view.at = "repository"
  /\ view' =
       IF AnswerSize(view.body) > MessageLimit
         THEN [view EXCEPT !.at = "done", !.answer = "error"]
       ELSE IF view.query = "topology"
         THEN [view EXCEPT !.at = "topology", !.body.log = logFromProto(@),
                 !.body.nodes = Mapped(topologyNodeFromProto, @),
                 !.body.ports = Mapped(topologyPortFromProto, @)]
       ELSE [view EXCEPT !.at = "app", !.body.log = logFromProto(@),
                                       !.body.nodes = Mapped(nodeFromProto, @),
                                       !.body.ports = Mapped(portFromProto, @)]
  /\ UNCHANGED <<log, rows, post>>

\* The node of a topology: the ports are counted by node_id.  normalizeKind
\* changes no node_kind, which deriveNodeKind has trimmed, put in lower case and
\* never left empty.
TopologyNodeOf(n, ports) ==
  [f \in TopologyNode |->
     CASE f = "declared_ports_count" -> n["num_ports"]
       [] f = "parsed_ports_count" ->
            Cardinality({i \in DOMAIN ports : ports[i]["node_id"] = n["id"]})
       [] f \in {"serial_number", "product_name"} ->
            IF n["info"] = <<>> THEN Empty ELSE n["info"][1][f]
       [] OTHER -> n[f]]

EdgeOf(p, q) ==
  [source_node_id |-> p["node_id"], source_node_guid |-> p["node_guid"],
   source_port_num |-> p["port_num"], source_port_guid |-> p["port_guid"],
   target_node_id |-> q["node_id"], target_node_guid |-> q["node_guid"],
   target_port_num |-> q["port_num"], target_port_guid |-> q["port_guid"],
   link_width_active |-> p["link_width_active"],
   link_speed_active |-> p["link_speed_active"], port_state |-> p["port_state"]]

\* Which ports make an edge is the subject of TopologyEdges: here it is any two
\* of different nodes, or none.
Edges(ports) ==
  LET apart == {e \in (DOMAIN ports) \X (DOMAIN ports) :
                  ports[e[1]]["node_id"] # ports[e[2]]["node_id"]}
  IN {{}} \cup {{EdgeOf(ports[e[1]], ports[e[2]])} : e \in apart}

topologyToProto(t) == [t EXCEPT !.nodes = TakeAll(TopologyNode, @)]

topologyFromProto(t) == [t EXCEPT !.nodes = TakeAll(TopologyNode, @)]

TopologyReplied ==
  /\ view.at = "topology"
  /\ IF view.body.log.status # "parsed"
       THEN view' = [view EXCEPT !.at = "done", !.answer = "conflict"]
       ELSE \E edges \in Edges(view.body.ports) :
              LET t == [nodes |-> Mapped(LAMBDA n : TopologyNodeOf(n, view.body.ports),
                                         view.body.nodes),
                        edges |-> edges]
              IN view' = [view EXCEPT !.at = "app",
                            !.body = topologyFromProto(topologyToProto(t))]
  /\ UNCHANGED <<log, rows, post>>

\* raw_json is shown on request only.
WithoutRaw(row) == IF view.raw THEN row ELSE With(row, "raw_json", Empty)

\* Mutant: the raw data of a node's info is always shown.
storedNodeShowsInfo(n) == WithoutRaw(n)

storedNodeToResponse(n) == With(WithoutRaw(n), "info", Mapped(WithoutRaw, n["info"]))

storedPortToResponse(p) == WithoutRaw(p)

topologyResponseFromCore(t) == [t EXCEPT !.nodes = TakeAll(TopologyNode, @)]

Responded ==
  /\ view.at = "app"
  /\ LET body == view.body
     IN view' = [view EXCEPT !.at = "done", !.answer = "ok",
                   !.body = IF view.query = "topology" THEN topologyResponseFromCore(body)
                            ELSE [body EXCEPT !.nodes = Mapped(storedNodeToResponse, body.nodes),
                                              !.ports = Mapped(storedPortToResponse, body.ports)]]
  /\ UNCHANGED <<log, rows, post>>

ViewEnds ==
  /\ view.at = "done"
  /\ view' = NoView
  /\ UNCHANGED <<log, rows, post>>

WireNext ==
  \/ ParserReturns \/ ParseReplied \/ SaveRequested \/ SaveParsedLog \/ FailLog
  \/ \E q \in {"log", "nodes", "ports", "topology"}, raw \in BOOLEAN : Ask(q, 0, raw)
  \/ \E q \in {"node", "nodePorts"}, n \in DOMAIN rows.nodes, raw \in BOOLEAN : Ask(q, n, raw)
  \/ RepositoryReplied \/ TopologyReplied \/ Responded \/ ViewEnds

WireSpec == WireInit /\ [][WireNext]_wireVars

-----------------------------------------------------------------------------
Shown(q) == view.query = q /\ view.at = "done" /\ view.answer = "ok"

RowsOf(seq) == {seq[i] : i \in DOMAIN seq}

Masked(row) == WithoutRaw(row)

\* The info that the parser found for a node, if any.
InfoFound(guid) ==
  LET found == {x \in RowsOf(post.parsed.infos) : x["node_guid"] = guid}
  IN IF found = {} THEN <<>> ELSE <<CHOOSE x \in found : TRUE>>

\* Whoever parses a log gets told the truth: 200 with the right counts if and
\* only if all that the parser found is in the tables and none of it is
\* unreadable; otherwise nothing is, and the log has failed, unless the database
\* refuses the text of the error too.
PostIsTrue ==
  post.at = "done" =>
    /\ (post.answer = "ok") = (log.status = "parsed")
    /\ post.answer = "ok" =>
         /\ post.counts = <<Len(post.parsed.nodes), Len(post.parsed.ports),
                            Len(post.parsed.infos)>>
         /\ RowsOf(TakeAll(ParsedNode, rows.nodes)) = RowsOf(post.parsed.nodes)
         /\ RowsOf(TakeAll(ParsedInfo, rows.infos)) = RowsOf(post.parsed.infos)
         /\ RowsOf(TakeAll(ParsedPort, rows.ports)) = RowsOf(post.parsed.ports)
         /\ \A v \in Strings(post.parsed) : v.text = "clean"
    /\ post.answer = "error" =>
         rows = NoRows /\ (log.status = "failed" \/ post.cause = "nul")

\* A log that can be seen is parsed with its counts, or failed with an error, or
\* neither has an error nor the time of an end.
LogShowsItsEnd ==
  Shown("log") =>
    LET l == view.body.log
    IN CASE l.status = "processing" -> l.error = "" /\ l.parsed_at = ""
         [] l.status = "parsed" -> /\ l.error = "" /\ l.parsed_at # ""
                                   /\ l.nodes_count = Len(post.parsed.nodes)
         [] l.status = "failed" -> l.error # "" /\ l.parsed_at # ""
                                   /\ l.nodes_count = 0
         [] OTHER -> FALSE

\* What a client is shown of a parsed log, many copies later, is what the
\* parser found, field by field; raw data only if it asks for it, of the nodes,
\* of their infos and of the ports alike.
ListsShowWhatWasParsed ==
  LET p == post.parsed
      WithInfo(n) == With(Masked(n), "info", Mapped(Masked, InfoFound(n["node_guid"])))
      Back(n) == With(Take(ParsedNode, n), "info", TakeAll(ParsedInfo, n["info"]))
  IN /\ Shown("nodes") /\ view.body.log.status = "parsed" =>
          {Back(n) : n \in RowsOf(view.body.nodes)} = {WithInfo(n) : n \in RowsOf(p.nodes)}
     /\ Shown("ports") /\ view.body.log.status = "parsed" =>
          RowsOf(TakeAll(ParsedPort, view.body.ports)) = {Masked(q) : q \in RowsOf(p.ports)}
     /\ Shown("node") => Back(view.body.nodes[1]) = WithInfo(p.nodes[view.node])
     /\ Shown("nodePorts") =>
          RowsOf(TakeAll(ParsedPort, view.body.ports)) =
            {Masked(q) : q \in {x \in RowsOf(p.ports) :
                                  x["node_guid"] = p.nodes[view.node]["node_guid"]}}

\* The topology, which takes another way, shows the same nodes under the same
\* ids, with the counts that follow from the ports, and its edges end at ports
\* that a client finds in the lists.
TopologyShowsTheSame ==
  Shown("topology") =>
    /\ Len(view.body.nodes) = log.nodes_count
    /\ \A t \in RowsOf(view.body.nodes) : \E n \in RowsOf(rows.nodes) :
         LET info == InfoFound(n["node_guid"])
         IN /\ \A f \in TopologyNode \cap StoredNode : t[f] = n[f]
            /\ t["declared_ports_count"] = n["num_ports"]
            /\ t["parsed_ports_count"] =
                 Cardinality({q \in RowsOf(post.parsed.ports) :
                                q["node_guid"] = n["node_guid"]})
            /\ \A f \in {"serial_number", "product_name"} :
                 t[f] = IF info = <<>> THEN Empty ELSE info[1][f]
    /\ \A e \in view.body.edges : \E p, q \in RowsOf(rows.ports) :
         /\ p["node_id"] = e.source_node_id /\ p["node_guid"] = e.source_node_guid
         /\ p["port_num"] = e.source_port_num /\ p["port_guid"] = e.source_port_guid
         /\ q["node_id"] = e.target_node_id /\ q["node_guid"] = e.target_node_guid
         /\ q["port_num"] = e.target_port_num /\ q["port_guid"] = e.target_port_guid

\* At the end of every way, whichever request leads there, a client sees what
\* became of the log, and of a parsed one what the parser found in its source.
ViewsShowWhatWasParsed ==
  LogShowsItsEnd /\ ListsShowWhatWasParsed /\ TopologyShowsTheSame
=============================================================================
