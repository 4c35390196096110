----------------------------- MODULE WireProofs -----------------------------
(***************************************************************************)
(* Proofs about Wire, for every result of the parser and every limit: what *)
(* is stored is what was parsed, and what is shown is what is stored.      *)
(***************************************************************************)
EXTENDS Wire, SequenceTheorems, FiniteSetTheorems, TLAPS

ParsedRows == [nodes : Seq([ParsedNode -> FieldValue]), infos : Seq([ParsedInfo -> FieldValue]),
               ports : Seq([ParsedPort -> FieldValue])]

\* What the parser promises of its result.
WellMerged(p) ==
  /\ p \in ParsedRows
  /\ \A i, j \in DOMAIN p.nodes : p.nodes[i]["node_guid"] = p.nodes[j]["node_guid"] => i = j
  /\ \A i, j \in DOMAIN p.infos : p.infos[i]["node_guid"] = p.infos[j]["node_guid"] => i = j
  /\ \A i \in DOMAIN p.infos :
       \E k \in DOMAIN p.nodes : p.nodes[k]["node_guid"] = p.infos[i]["node_guid"]
  /\ \A i \in DOMAIN p.ports :
       \E k \in DOMAIN p.nodes : p.nodes[k]["node_guid"] = p.ports[i]["node_guid"]

LEMMA ParsedIsMerged ==
  ASSUME NEW p \in Parsed
  PROVE  WellMerged(p)
BY ParsedAssumption DEF WellMerged, ParsedRows

(***************************************************************************)
(* A hop that takes over all of the fields changes nothing.                *)
(***************************************************************************)
LEMMA TakeAllOfRow ==
  ASSUME NEW fields, NEW V, NEW row \in [fields -> V]
  PROVE  Take(fields, row) = row
BY DEF Take

LEMMA TakeAllOfRows ==
  ASSUME NEW fields, NEW V, NEW seq \in Seq([fields -> V])
  PROVE  TakeAll(fields, seq) = seq
<1>1. \A i \in DOMAIN seq : seq[i] \in [fields -> V]
  OBVIOUS
<1>2. \A i \in DOMAIN seq : Take(fields, seq[i]) = seq[i]
  BY <1>1, TakeAllOfRow
<1>3. seq = [i \in DOMAIN seq |-> seq[i]]
  OBVIOUS
<1> QED
  BY <1>2, <1>3 DEF TakeAll

LEMMA TakeLogOfLog ==
  ASSUME NEW p \in ParsedRows
  PROVE  TakeLog(p) = p
<1>1. /\ TakeAll(ParsedNode, p.nodes) = p.nodes
      /\ TakeAll(ParsedInfo, p.infos) = p.infos
      /\ TakeAll(ParsedPort, p.ports) = p.ports
  BY TakeAllOfRows DEF ParsedRows
<1>2. p = [nodes |-> p.nodes, infos |-> p.infos, ports |-> p.ports]
  BY DEF ParsedRows
<1> QED
  BY <1>1, <1>2 DEF TakeLog

(***************************************************************************)
(* The way in.                                                             *)
(***************************************************************************)
LogBefore == [status |-> "processing", error |-> "", nodes_count |-> 0, ports_count |-> 0,
              parsed_at |-> "null"]

LogAfter(p) == [status |-> "parsed", error |-> "", nodes_count |-> Len(p.nodes),
                ports_count |-> Len(p.ports), parsed_at |-> "now"]

LogFailed == [status |-> "failed", error |-> "text", nodes_count |-> 0, ports_count |-> 0,
              parsed_at |-> "now"]

PostState == [at : {"parser", "reply", "request", "insert", "fail", "done"},
              parsed : ParsedRows, carried : ParsedRows, cause : Text,
              answer : {"none", "ok", "error"}, counts : Nat \X Nat \X Nat]

Untouched == log = LogBefore /\ rows = NoRows

\* All that the parser found has been saved.
Saved ==
  /\ post.parsed \in Parsed
  /\ \A i, j \in DOMAIN post.parsed.ports : post.parsed.ports[i] = post.parsed.ports[j] => i = j
  /\ \A v \in Strings(post.parsed) : v.text = "clean"
  /\ rows = Inserted(post.parsed)
  /\ log = LogAfter(post.parsed)
  /\ post.counts = <<Len(post.parsed.nodes), Len(post.parsed.ports), Len(post.parsed.infos)>>

PostInv ==
  /\ post \in PostState
  /\ post.at # "done" => Untouched
  /\ post.at \in {"reply", "request", "insert"} =>
       post.parsed \in Parsed /\ post.carried = post.parsed
  /\ post.at \in {"request", "insert"} => ~ Is(post.parsed, "garbled")
  /\ post.at = "done" =>
       \/ post.answer = "ok" /\ Saved
       \/ /\ post.answer = "error" /\ rows = NoRows
          /\ log = LogFailed \/ (log = LogBefore /\ post.cause = "nul")

LEMMA NoRowsIsParsed == NoRows \in ParsedRows
BY DEF NoRows, ParsedRows

LEMMA PostInitSound == WireInit => PostInv
<1> SUFFICES ASSUME WireInit PROVE PostInv
  OBVIOUS
<1>1. NoRows \in ParsedRows /\ "clean" \in Text /\ <<0, 0, 0>> \in Nat \X Nat \X Nat
  BY NoRowsIsParsed DEF Text
<1> HIDE DEF NoRows, ParsedRows, Text
<1>2. post \in PostState /\ post.at = "parser"
  BY <1>1 DEF WireInit, PostState
<1>3. Untouched
  BY DEF WireInit, Untouched, LogBefore
<1> QED
  BY <1>2, <1>3 DEF PostInv

\* A step of a reader leaves the way in alone.
PostStep == ParserReturns \/ ParseReplied \/ SaveRequested \/ SaveParsedLog \/ FailLog

LEMMA FailsSound ==
  ASSUME PostInv, post.at # "done", NEW cause \in Text, Fails(cause), UNCHANGED <<log, rows>>
  PROVE  PostInv'
<1>1. post' \in PostState
  BY DEF PostInv, PostState, Fails
<1>2. post'.at = "fail"
  BY DEF PostInv, PostState, Fails
<1> QED
  BY <1>1, <1>2 DEF PostInv, Untouched

LEMMA CleanIsText == "clean" \in Text
BY DEF Text

LEMMA StringsAreTexts ==
  ASSUME NEW p \in ParsedRows, NEW v \in Strings(p)
  PROVE  v.text \in Text
<1>1. /\ \A i \in DOMAIN p.nodes : p.nodes[i] \in [ParsedNode -> FieldValue]
      /\ \A i \in DOMAIN p.infos : p.infos[i] \in [ParsedInfo -> FieldValue]
      /\ \A i \in DOMAIN p.ports : p.ports[i] \in [ParsedPort -> FieldValue]
  BY DEF ParsedRows
<1>2. v \in FieldValue
  BY <1>1 DEF Strings
<1> QED
  BY <1>2 DEF FieldValue

LEMMA PostStepSound ==
  ASSUME PostInv, PostStep
  PROVE  PostInv'
<1>1. CASE ParserReturns
  <2>1. ASSUME NEW p \in Parsed,
               post' = [post EXCEPT !.at = "reply", !.parsed = p, !.carried = p]
        PROVE  PostInv'
    <3>1. p \in ParsedRows
      BY ParsedIsMerged DEF WellMerged
    <3>2. post' \in PostState /\ post'.at = "reply" /\ post'.parsed = p /\ post'.carried = p
      BY <2>1, <3>1 DEF PostInv, PostState
    <3> QED
      BY <1>1, <2>1, <3>2 DEF PostInv, Untouched, ParserReturns
  <2> QED
    BY <1>1, <2>1, FailsSound, ParsedAssumption DEF ParserReturns
<1>2. CASE ParseReplied
  <2>1. post.carried = post.parsed /\ parserFromProto(post.parsed) = post.parsed
        /\ parserToProto(post.parsed) = post.parsed
    BY <1>2, TakeLogOfLog DEF PostInv, PostState, ParseReplied, parserFromProto, parserToProto
  <2>2. CASE Fails("clean")
    BY <1>2, <2>2, FailsSound, CleanIsText DEF ParseReplied
  <2>3. CASE /\ ~ Is(post.parsed, "garbled")
             /\ post' = [post EXCEPT !.at = "request", !.carried = post.parsed]
    <3>1. post' \in PostState /\ post'.at = "request" /\ post'.carried = post'.parsed
          /\ post'.parsed = post.parsed
      BY <2>3 DEF PostInv, PostState
    <3> QED
      BY <1>2, <2>3, <3>1 DEF PostInv, Untouched, ParseReplied
  <2> QED
    BY <1>2, <2>1, <2>2, <2>3 DEF ParseReplied
<1>3. CASE SaveRequested
  <2>1. post.carried = post.parsed /\ parsedLogFromProto(post.parsed) = post.parsed
        /\ parsedLogToProto(post.parsed) = post.parsed
    BY <1>3, TakeLogOfLog DEF PostInv, PostState, SaveRequested, parsedLogFromProto,
                              parsedLogToProto
  <2>2. CASE Fails("clean")
    BY <1>3, <2>2, FailsSound, CleanIsText DEF SaveRequested
  <2>3. CASE post' = [post EXCEPT !.at = "insert", !.carried = post.parsed]
    <3>1. post' \in PostState /\ post'.at = "insert" /\ post'.carried = post'.parsed
          /\ post'.parsed = post.parsed
      BY <2>3 DEF PostInv, PostState
    <3> QED
      BY <1>3, <2>3, <3>1 DEF PostInv, Untouched, SaveRequested
  <2> QED
    BY <1>3, <2>1, <2>2, <2>3 DEF SaveRequested
<1>4. CASE SaveParsedLog
  <2>1. post.carried = post.parsed /\ post.parsed \in Parsed /\ Untouched
        /\ ~ Is(post.parsed, "garbled") /\ post.at = "insert"
    BY <1>4 DEF PostInv, SaveParsedLog
  <2>2. CASE Fails("clean") /\ UNCHANGED <<log, rows>>
    BY <2>1, <2>2, FailsSound, CleanIsText
  <2>3. CASE /\ Storable(post.parsed)
             /\ rows' = Inserted(post.parsed)
             /\ log' = [log EXCEPT !.status = "parsed", !.error = "",
                          !.nodes_count = Len(post.parsed.nodes),
                          !.ports_count = Len(post.parsed.ports), !.parsed_at = "now"]
             /\ post' = [post EXCEPT !.at = "done", !.answer = "ok",
                           !.counts = <<Len(post.parsed.nodes), Len(post.parsed.ports),
                                        Len(post.parsed.infos)>>]
    <3>1. Len(post.parsed.nodes) \in Nat /\ Len(post.parsed.ports) \in Nat
          /\ Len(post.parsed.infos) \in Nat
      BY DEF PostInv, PostState, ParsedRows
    <3>2. /\ post' \in PostState /\ post'.at = "done" /\ post'.answer = "ok"
          /\ post'.parsed = post.parsed
          /\ post'.counts = <<Len(post.parsed.nodes), Len(post.parsed.ports),
                              Len(post.parsed.infos)>>
      BY <2>3, <3>1 DEF PostInv, PostState
    <3>3. log' = LogAfter(post.parsed)
      BY <2>1, <2>3 DEF Untouched, LogBefore, LogAfter
    <3>4. \A v \in Strings(post.parsed) : v.text = "clean"
      BY <2>1, <2>3, StringsAreTexts DEF Storable, Is, Text, PostInv, PostState
    <3>5. PICK p : p = post.parsed
      OBVIOUS
    <3>6. \A i, j \in DOMAIN p.ports : p.ports[i] = p.ports[j] => i = j
      BY <2>3, <3>5 DEF Storable
    <3>7. Saved'
      BY <2>1, <2>3, <3>2, <3>3, <3>4, <3>5, <3>6 DEF Saved
    <3> QED
      BY <3>2, <3>7 DEF PostInv
  <2> QED
    BY <1>4, <2>1, <2>2, <2>3 DEF SaveParsedLog
<1>5. CASE FailLog
  <2>1. Untouched /\ post' = [post EXCEPT !.at = "done", !.answer = "error"]
    BY <1>5 DEF PostInv, FailLog
  <2>2. post' \in PostState /\ post'.at = "done" /\ post'.answer = "error"
        /\ post'.cause = post.cause
    BY <2>1 DEF PostInv, PostState
  <2>3. log' = LogFailed \/ (log' = LogBefore /\ post.cause = "nul")
    BY <1>5, <2>1 DEF FailLog, Untouched, LogBefore, LogFailed
  <2> QED
    BY <1>5, <2>1, <2>2, <2>3 DEF PostInv, FailLog, Untouched
<1> QED
  BY <1>1, <1>2, <1>3, <1>4, <1>5 DEF PostStep

LEMMA ViewLeavesPost ==
  ASSUME PostInv, UNCHANGED <<log, rows, post>>
  PROVE  PostInv'
BY DEF PostInv, PostState, Untouched, Saved

(***************************************************************************)
(* The rows in the tables.                                                 *)
(***************************************************************************)
\* The columns that the database adds are none of the parser's.
LEMMA KeysAreNew ==
  /\ "id" \notin ParsedNode /\ "log_id" \notin ParsedNode \cup {"id"}
  /\ "id" \notin ParsedInfo /\ "node_id" \notin ParsedInfo \cup {"id"}
  /\ "id" \notin ParsedPort /\ "log_id" \notin ParsedPort \cup {"id"}
  /\ "node_id" \notin (ParsedPort \cup {"id"}) \cup {"log_id"}
BY DEF ParsedNode, ParsedInfo, ParsedPort

StoredAs(fields, keys, row, stored) ==
  /\ DOMAIN stored = fields \cup keys
  /\ \A f \in fields : stored[f] = row[f]

LEMMA NodeIsStored ==
  ASSUME NEW p \in ParsedRows, NEW i \in DOMAIN p.nodes
  PROVE  /\ StoredAs(ParsedNode, {"id", "log_id"}, p.nodes[i], Inserted(p).nodes[i])
         /\ Inserted(p).nodes[i]["id"] = i
<1> DEFINE row == p.nodes[i]
           a == With(row, "id", i)
           b == With(a, "log_id", 1)
<1>1. Inserted(p).nodes[i] = b
  BY DEF Inserted
<1>2. DOMAIN row = ParsedNode
  BY DEF ParsedRows
<1> HIDE DEF row
<1>3. DOMAIN a = ParsedNode \cup {"id"} /\ a["id"] = i /\ \A f \in ParsedNode : a[f] = row[f]
  BY <1>2, KeysAreNew DEF With
<1> HIDE DEF a
<1>4. DOMAIN b = (ParsedNode \cup {"id"}) \cup {"log_id"} /\ b["id"] = i
      /\ \A f \in ParsedNode : b[f] = row[f]
  BY <1>3, KeysAreNew DEF With
<1> HIDE DEF b
<1> QED
  BY <1>1, <1>4 DEF StoredAs, row

LEMMA InfoIsStored ==
  ASSUME NEW p \in ParsedRows, NEW i \in DOMAIN p.infos
  PROVE  /\ StoredAs(ParsedInfo, {"id", "node_id"}, p.infos[i], Inserted(p).infos[i])
         /\ Inserted(p).infos[i]["node_id"] = NodeIDOf(p, p.infos[i]["node_guid"])
<1> DEFINE row == p.infos[i]
           node == NodeIDOf(p, row["node_guid"])
           a == With(row, "id", i)
           b == With(a, "node_id", node)
<1>1. Inserted(p).infos[i] = b
  BY DEF Inserted
<1>2. DOMAIN row = ParsedInfo
  BY DEF ParsedRows
<1> HIDE DEF row, node
<1>3. DOMAIN a = ParsedInfo \cup {"id"} /\ \A f \in ParsedInfo : a[f] = row[f]
  BY <1>2, KeysAreNew DEF With
<1> HIDE DEF a
<1>4. DOMAIN b = (ParsedInfo \cup {"id"}) \cup {"node_id"} /\ b["node_id"] = node
      /\ \A f \in ParsedInfo : b[f] = row[f]
  BY <1>3, KeysAreNew DEF With
<1> HIDE DEF b
<1> QED
  BY <1>1, <1>4 DEF StoredAs, row, node

LEMMA PortIsStored ==
  ASSUME NEW p \in ParsedRows, NEW i \in DOMAIN p.ports
  PROVE  /\ StoredAs(ParsedPort, {"id", "log_id", "node_id"}, p.ports[i], Inserted(p).ports[i])
         /\ Inserted(p).ports[i]["node_id"] = NodeIDOf(p, p.ports[i]["node_guid"])
<1> DEFINE row == p.ports[i]
           node == NodeIDOf(p, row["node_guid"])
           a == With(row, "id", i)
           b == With(a, "log_id", 1)
           c == With(b, "node_id", node)
<1>1. Inserted(p).ports[i] = c
  BY DEF Inserted
<1>2. DOMAIN row = ParsedPort
  BY DEF ParsedRows
<1> HIDE DEF row, node
<1>3. DOMAIN a = ParsedPort \cup {"id"} /\ \A f \in ParsedPort : a[f] = row[f]
  BY <1>2, KeysAreNew DEF With
<1> HIDE DEF a
<1>4. DOMAIN b = (ParsedPort \cup {"id"}) \cup {"log_id"} /\ \A f \in ParsedPort : b[f] = row[f]
  BY <1>3, KeysAreNew DEF With
<1> HIDE DEF b
<1>5. DOMAIN c = ((ParsedPort \cup {"id"}) \cup {"log_id"}) \cup {"node_id"}
      /\ c["node_id"] = node
      /\ \A f \in ParsedPort : c[f] = row[f]
  BY <1>4, KeysAreNew DEF With
<1> HIDE DEF c
<1> QED
  BY <1>1, <1>5 DEF StoredAs, row, node

LEMMA InsertedTables ==
  ASSUME NEW p \in ParsedRows
  PROVE  /\ DOMAIN Inserted(p).nodes = DOMAIN p.nodes
         /\ DOMAIN Inserted(p).infos = DOMAIN p.infos
         /\ DOMAIN Inserted(p).ports = DOMAIN p.ports
         /\ Len(Inserted(p).nodes) = Len(p.nodes)
         /\ Len(Inserted(p).ports) = Len(p.ports)
<1>1. /\ DOMAIN p.nodes = 1 .. Len(p.nodes) /\ Len(p.nodes) \in Nat
      /\ DOMAIN p.ports = 1 .. Len(p.ports) /\ Len(p.ports) \in Nat
  BY DEF ParsedRows
<1>2. /\ DOMAIN Inserted(p).nodes = DOMAIN p.nodes
      /\ DOMAIN Inserted(p).infos = DOMAIN p.infos
      /\ DOMAIN Inserted(p).ports = DOMAIN p.ports
  BY DEF Inserted
<1> QED
  BY <1>1, <1>2

\* The node that a row belongs to is the one it names.
LEMMA NodeIDIsName ==
  ASSUME NEW p, WellMerged(p), NEW k \in DOMAIN p.nodes, NEW guid,
         \E j \in DOMAIN p.nodes : p.nodes[j]["node_guid"] = guid
  PROVE  NodeIDOf(p, guid) = k <=> p.nodes[k]["node_guid"] = guid
<1>1. NodeIDOf(p, guid) \in DOMAIN p.nodes /\ p.nodes[NodeIDOf(p, guid)]["node_guid"] = guid
  BY DEF NodeIDOf
<1> QED
  BY <1>1 DEF WellMerged

LEMMA TakeOfStored ==
  ASSUME NEW fields, NEW keys, NEW V, NEW row \in [fields -> V], NEW stored,
         StoredAs(fields, keys, row, stored)
  PROVE  Take(fields, stored) = row
BY DEF Take, StoredAs

LEMMA StoredIsParsed ==
  ASSUME NEW p \in ParsedRows
  PROVE  /\ TakeAll(ParsedNode, Inserted(p).nodes) = p.nodes
         /\ TakeAll(ParsedInfo, Inserted(p).infos) = p.infos
         /\ TakeAll(ParsedPort, Inserted(p).ports) = p.ports
<1>1. /\ \A i \in DOMAIN p.nodes : p.nodes[i] \in [ParsedNode -> FieldValue]
      /\ \A i \in DOMAIN p.infos : p.infos[i] \in [ParsedInfo -> FieldValue]
      /\ \A i \in DOMAIN p.ports : p.ports[i] \in [ParsedPort -> FieldValue]
      /\ p.nodes = [i \in DOMAIN p.nodes |-> p.nodes[i]]
      /\ p.infos = [i \in DOMAIN p.infos |-> p.infos[i]]
      /\ p.ports = [i \in DOMAIN p.ports |-> p.ports[i]]
  BY DEF ParsedRows
<1>2. \A i \in DOMAIN p.nodes : Take(ParsedNode, Inserted(p).nodes[i]) = p.nodes[i]
  <2> SUFFICES ASSUME NEW i \in DOMAIN p.nodes
               PROVE  Take(ParsedNode, Inserted(p).nodes[i]) = p.nodes[i]
    OBVIOUS
  <2>1. PICK row, stored : row = p.nodes[i] /\ stored = Inserted(p).nodes[i]
    OBVIOUS
  <2>2. row \in [ParsedNode -> FieldValue]
    BY <1>1, <2>1
  <2>3. \E keys : StoredAs(ParsedNode, keys, row, stored)
    BY <2>1, NodeIsStored
  <2> QED
    BY <2>1, <2>2, <2>3, TakeOfStored
<1>3. \A i \in DOMAIN p.infos : Take(ParsedInfo, Inserted(p).infos[i]) = p.infos[i]
  <2> SUFFICES ASSUME NEW i \in DOMAIN p.infos
               PROVE  Take(ParsedInfo, Inserted(p).infos[i]) = p.infos[i]
    OBVIOUS
  <2>1. PICK row, stored : row = p.infos[i] /\ stored = Inserted(p).infos[i]
    OBVIOUS
  <2>2. row \in [ParsedInfo -> FieldValue]
    BY <1>1, <2>1
  <2>3. \E keys : StoredAs(ParsedInfo, keys, row, stored)
    BY <2>1, InfoIsStored
  <2> QED
    BY <2>1, <2>2, <2>3, TakeOfStored
<1>4. \A i \in DOMAIN p.ports : Take(ParsedPort, Inserted(p).ports[i]) = p.ports[i]
  <2> SUFFICES ASSUME NEW i \in DOMAIN p.ports
               PROVE  Take(ParsedPort, Inserted(p).ports[i]) = p.ports[i]
    OBVIOUS
  <2>1. PICK row, stored : row = p.ports[i] /\ stored = Inserted(p).ports[i]
    OBVIOUS
  <2>2. row \in [ParsedPort -> FieldValue]
    BY <1>1, <2>1
  <2>3. \E keys : StoredAs(ParsedPort, keys, row, stored)
    BY <2>1, PortIsStored
  <2> QED
    BY <2>1, <2>2, <2>3, TakeOfStored
<1> QED
  BY <1>1, <1>2, <1>3, <1>4, InsertedTables DEF TakeAll

LEMMA PostInvImplies == PostInv => PostIsTrue
<1> SUFFICES ASSUME PostInv, post.at = "done" PROVE PostIsTrue
  BY DEF PostIsTrue
<1>1. CASE post.answer = "ok" /\ Saved
  <2>1. post.parsed \in ParsedRows /\ log.status = "parsed"
    BY <1>1, ParsedIsMerged DEF Saved, WellMerged, LogAfter
  <2> QED
    BY <1>1, <2>1, StoredIsParsed DEF PostIsTrue, Saved
<1>2. CASE /\ post.answer = "error" /\ rows = NoRows
           /\ log = LogFailed \/ (log = LogBefore /\ post.cause = "nul")
  <2>1. log.status \in {"failed", "processing"} /\ (log.status = "failed" \/ post.cause = "nul")
    <3>1. CASE log = LogFailed
      BY <3>1 DEF LogFailed
    <3>2. CASE log = LogBefore /\ post.cause = "nul"
      BY <3>2 DEF LogBefore
    <3> QED
      BY <1>2, <3>1, <3>2
  <2>2. (post.answer = "ok") = FALSE /\ (log.status = "parsed") = FALSE
    BY <1>2, <2>1
  <2> QED
    BY <1>2, <2>1, <2>2 DEF PostIsTrue
<1> QED
  BY <1>1, <1>2 DEF PostInv

(***************************************************************************)
(* The way out.  A message that is unpacked is what was packed.            *)
(***************************************************************************)
LEMMA TakenOnce ==
  ASSUME NEW fields, NEW row
  PROVE  Take(fields, Take(fields, row)) = Take(fields, row)
BY DEF Take

LEMMA AllTakenOnce ==
  ASSUME NEW fields, NEW seq
  PROVE  TakeAll(fields, TakeAll(fields, seq)) = TakeAll(fields, seq)
BY TakenOnce DEF TakeAll

NodeMessage(row, infos) == With(Take(StoredNode, row), "info", TakeAll(StoredInfo, infos))

LEMMA NodeMessageFields ==
  ASSUME NEW row, NEW infos
  PROVE  /\ DOMAIN NodeMessage(row, infos) = StoredNode \cup {"info"}
         /\ NodeMessage(row, infos)["info"] = TakeAll(StoredInfo, infos)
         /\ \A f \in StoredNode : NodeMessage(row, infos)[f] = row[f]
         /\ Take(StoredNode, NodeMessage(row, infos)) = Take(StoredNode, row)
<1>1. "info" \notin StoredNode
  BY DEF StoredNode, ParsedNode
<1>2. DOMAIN Take(StoredNode, row) = StoredNode
      /\ \A f \in StoredNode : Take(StoredNode, row)[f] = row[f]
  BY DEF Take
<1>3. /\ DOMAIN NodeMessage(row, infos) = StoredNode \cup {"info"}
      /\ NodeMessage(row, infos)["info"] = TakeAll(StoredInfo, infos)
      /\ \A f \in StoredNode : NodeMessage(row, infos)[f] = row[f]
  BY <1>1, <1>2 DEF NodeMessage, With
<1>4. Take(StoredNode, NodeMessage(row, infos)) = Take(StoredNode, row)
  BY <1>3 DEF Take
<1> QED
  BY <1>3, <1>4

LEMMA NodeUnpacked ==
  ASSUME NEW x
  PROVE  nodeFromProto(nodeToProto(x)) = nodeToProto(x)
<1>1. nodeToProto(x) = NodeMessage(x, x["info"])
      /\ nodeFromProto(nodeToProto(x)) = NodeMessage(nodeToProto(x), nodeToProto(x)["info"])
  BY DEF nodeToProto, nodeFromProto, NodeMessage
<1> QED
  BY <1>1, NodeMessageFields, AllTakenOnce DEF NodeMessage

LEMMA PortUnpacked ==
  ASSUME NEW x
  PROVE  portFromProto(portToProto(x)) = portToProto(x)
BY TakenOnce DEF portToProto, portFromProto

LEMMA StatusUnpacked ==
  ASSUME NEW status \in {"processing", "parsed", "failed"}
  PROVE  logStatusFromProto(logStatusToProto(status)) = status
<1> DEFINE x == CHOOSE t \in LogStatus : t[1] = status
           y == CHOOSE t \in LogStatus : t[2] = x[2]
<1>1. \E t \in LogStatus : t[1] = status
  BY DEF LogStatus
<1>2. x \in LogStatus /\ x[1] = status
  BY <1>1
<1> HIDE DEF x
<1>3. y \in LogStatus /\ y[2] = x[2]
  BY <1>2
<1> HIDE DEF y
<1>4. y = x
  BY <1>2, <1>3 DEF LogStatus
<1>5. logStatusFromProto(logStatusToProto(status)) = y[1]
  BY DEF logStatusFromProto, logStatusToProto, x, y
<1> QED
  BY <1>2, <1>4, <1>5

LogFields == {"status", "error", "nodes_count", "ports_count", "parsed_at"}

LEMMA LogCopied ==
  ASSUME NEW l, l = [f \in LogFields |-> l[f]], l.parsed_at # "nil",
         l.status \in {"processing", "parsed", "failed"}
  PROVE  logFromProto(logToProto(l)) = l
<1> DEFINE m == logToProto(l)
           k == logFromProto(m)
<1>1. /\ DOMAIN l = LogFields
      /\ "status" \in LogFields /\ "parsed_at" \in LogFields
  BY DEF LogFields
<1>2. /\ m = [f \in LogFields |-> m[f]]
      /\ m.status = logStatusToProto(l.status)
      /\ m.parsed_at = IF l.parsed_at = "" THEN "nil" ELSE l.parsed_at
      /\ \A f \in LogFields \ {"status", "parsed_at"} : m[f] = l[f]
  BY <1>1 DEF logToProto
<1> HIDE DEF m
<1>3. /\ k = [f \in LogFields |-> k[f]]
      /\ k.status = logStatusFromProto(m.status)
      /\ k.parsed_at = IF m.parsed_at = "nil" THEN "" ELSE m.parsed_at
      /\ \A f \in LogFields \ {"status", "parsed_at"} : k[f] = m[f]
  BY <1>1, <1>2 DEF logFromProto
<1> HIDE DEF k
<1>4. k.status = l.status
  BY <1>2, <1>3, StatusUnpacked
<1>5. k.parsed_at = l.parsed_at
  BY <1>2, <1>3
<1>6. \A f \in LogFields : k[f] = l[f]
  BY <1>2, <1>3, <1>4, <1>5
<1>7. k = l
  BY <1>3, <1>6
<1> QED
  BY <1>7 DEF k, m

LEMMA LogUnpacked ==
  ASSUME NEW p, NEW l \in {LogBefore, LogAfter(p), LogFailed}
  PROVE  /\ logFromProto(logToProto(LogOfRow(l))) = LogOfRow(l)
         /\ LogOfRow(l).status = l.status /\ LogOfRow(l).error = l.error
         /\ LogOfRow(l).nodes_count = l.nodes_count
         /\ LogOfRow(l).parsed_at = IF l = LogBefore THEN "" ELSE "now"
<1> DEFINE x == LogOfRow(l)
<1>1. /\ l = [f \in LogFields |-> l[f]]
      /\ l.status \in {"processing", "parsed", "failed"}
      /\ l.parsed_at = IF l = LogBefore THEN "null" ELSE "now"
  <2>1. CASE l = LogBefore
    BY <2>1 DEF LogBefore, LogFields
  <2>2. CASE l = LogAfter(p)
    BY <2>2 DEF LogBefore, LogAfter, LogFields
  <2>3. CASE l = LogFailed
    BY <2>3 DEF LogBefore, LogFailed, LogFields
  <2> QED
    BY <2>1, <2>2, <2>3
<1>2. /\ DOMAIN l = LogFields
      /\ {"status", "error", "nodes_count", "parsed_at"} \subseteq LogFields
  BY <1>1 DEF LogFields
<1>3. /\ x = [f \in LogFields |-> x[f]]
      /\ x.parsed_at = IF l.parsed_at = "null" THEN "" ELSE l.parsed_at
      /\ \A f \in LogFields \ {"parsed_at"} : x[f] = l[f]
  BY <1>2 DEF LogOfRow
<1> HIDE DEF x
<1>4. /\ x.status = l.status /\ x.error = l.error /\ x.nodes_count = l.nodes_count
      /\ x.parsed_at = IF l = LogBefore THEN "" ELSE "now"
  BY <1>1, <1>2, <1>3
<1>5. logFromProto(logToProto(x)) = x
  BY <1>1, <1>3, <1>4, LogCopied
<1> QED
  BY <1>4, <1>5 DEF x

(***************************************************************************)
(* Where a reader is and what it holds: what the repository has of the     *)
(* log, or what it had before the log was parsed.                          *)
(***************************************************************************)
Lists == {"log", "nodes", "ports", "topology"}
OfNode == {"node", "nodePorts"}

Early == [log |-> logToProto(LogOfRow(LogBefore)), nodes |-> <<>>, ports |-> <<>>]

AnswerTo(q, n, b) == b = RepositoryHas(q, n) \/ (b = Early /\ q \in Lists)

Answer(b) == \E q, n : q = view.query /\ n = view.node /\ AnswerTo(q, n, b)

Received(b) == [log |-> logFromProto(b.log), nodes |-> b.nodes, ports |-> b.ports]

Response(c) == [log |-> c.log, nodes |-> Mapped(storedNodeToResponse, c.nodes),
                ports |-> Mapped(storedPortToResponse, c.ports)]

ForTopology(b) == [log |-> logFromProto(b.log), nodes |-> Mapped(topologyNodeFromProto, b.nodes),
                   ports |-> Mapped(topologyPortFromProto, b.ports)]

TopologyOf(c, edges) ==
  [nodes |-> Mapped(LAMBDA n : TopologyNodeOf(n, c.ports), c.nodes), edges |-> edges]

\* A topology is shown of a parsed log only.
TopologyStillTrue ==
  /\ post.at = "done" /\ post.answer = "ok"
  /\ \E n, b : /\ n = view.node /\ b = RepositoryHas("topology", n)
               /\ \E edges \in Edges(ForTopology(b).ports) :
                    view.body = TopologyOf(ForTopology(b), edges)

ViewTypeOK ==
  /\ DOMAIN view = {"query", "node", "raw", "at", "answer", "body"}
  /\ view = [f \in DOMAIN view |-> view[f]]
  /\ view.query \in Lists \cup OfNode
  /\ view.at \in {"idle", "repository", "topology", "app", "done"}

ViewInv ==
  /\ ViewTypeOK
  /\ view.at # "idle" /\ view.query \in OfNode =>
       post.at = "done" /\ post.answer = "ok" /\ view.node \in DOMAIN rows.nodes
  /\ view.at = "repository" => \E b : b = view.body /\ Answer(b)
  /\ view.at = "topology" =>
       view.query = "topology" /\ \E b : Answer(b) /\ view.body = ForTopology(b)
  /\ view.at = "app" =>
       IF view.query = "topology" THEN TopologyStillTrue
       ELSE \E b : Answer(b) /\ view.body = Received(b)
  /\ view.at = "done" /\ view.answer = "ok" =>
       IF view.query = "topology" THEN TopologyStillTrue
       ELSE \E b : Answer(b) /\ view.body = Response(Received(b))

WireInv == PostInv /\ ViewInv

LEMMA RepositoryStays ==
  ASSUME UNCHANGED <<log, rows>>, NEW q, NEW n
  PROVE  RepositoryHas(q, n)' = RepositoryHas(q, n)
<1>1. PortsOfNode(n)' = PortsOfNode(n)
  BY DEF PortsOfNode
<1>2. \A x : NodeWithInfo(x)' = NodeWithInfo(x) /\ GetNode(x)' = GetNode(x)
  BY DEF NodeWithInfo, GetNode, InfoOf
<1> QED
  BY <1>1, <1>2 DEF RepositoryHas, Mapped, LogOfRow

LEMMA NothingYet ==
  ASSUME Untouched, NEW q \in Lists, NEW n
  PROVE  RepositoryHas(q, n) = Early
<1>1. log = LogBefore /\ rows.nodes = <<>> /\ rows.ports = <<>>
  BY DEF Untouched, NoRows
<1> QED
  BY <1>1 DEF RepositoryHas, Early, Mapped, Lists

LEMMA ViewInitSound == WireInit => ViewInv
<1> SUFFICES ASSUME WireInit PROVE ViewInv
  OBVIOUS
<1>1. view.at = "idle" /\ ViewTypeOK
  BY DEF WireInit, NoView, ViewTypeOK, Lists
<1> QED
  BY <1>1 DEF ViewInv

\* Until the log is parsed, nothing else than the early answer is on its way.
LEMMA BeforeTheEnd ==
  ASSUME WireInv, post.at # "done", NEW b, Answer(b), view.at # "idle"
  PROVE  b = Early /\ view.query \in Lists
<1>1. Untouched
  BY DEF WireInv, PostInv
<1>2. view.query \in Lists
  BY DEF WireInv, ViewInv, ViewTypeOK
<1> QED
  BY <1>1, <1>2, NothingYet DEF Answer, AnswerTo

LEMMA ResponseStays ==
  ASSUME view' = view, NEW c
  PROVE  Response(c)' = Response(c)
BY DEF Response, Mapped, storedNodeToResponse, storedPortToResponse, WithoutRaw

LEMMA PostStepKeepsViews ==
  ASSUME WireInv, PostStep
  PROVE  ViewInv'
<1>1. post.at # "done" /\ view' = view
  BY DEF PostStep, ParserReturns, ParseReplied, SaveRequested, SaveParsedLog, FailLog
<1>2. ASSUME NEW b, Answer(b), view.at # "idle"
      PROVE  Answer(b)'
  BY <1>1, <1>2, BeforeTheEnd DEF Answer, AnswerTo
<1>3. ViewInv
  BY DEF WireInv
<1>4. ViewTypeOK'
  BY <1>1, <1>3 DEF ViewInv, ViewTypeOK
<1>5. view.at # "idle" => view.query \notin OfNode
  BY <1>1, <1>3 DEF ViewInv
<1>6. view.at = "repository" => \E b : b = view.body /\ Answer(b)'
  BY <1>2, <1>3 DEF ViewInv
<1>7. view.at = "topology" =>
        view.query = "topology" /\ \E b : Answer(b)' /\ view.body = ForTopology(b)
  BY <1>2, <1>3 DEF ViewInv
<1>8. view.at = "app" => /\ view.query # "topology"
                         /\ \E b : Answer(b)' /\ view.body = Received(b)
  BY <1>1, <1>2, <1>3 DEF ViewInv, TopologyStillTrue
<1>9. view.at = "done" /\ view.answer = "ok" =>
        /\ view.query # "topology"
        /\ \E b : Answer(b)' /\ view.body = Response(Received(b))
  BY <1>1, <1>2, <1>3 DEF ViewInv, TopologyStillTrue
<1>10. ASSUME NEW b PROVE Response(Received(b))' = Response(Received(b))
  <2>1. PICK c : c = Received(b)
    OBVIOUS
  <2> QED
    BY <1>1, <2>1, ResponseStays DEF Received
<1> QED
  BY <1>1, <1>4, <1>5, <1>6, <1>7, <1>8, <1>9, <1>10 DEF ViewInv, ForTopology, Received

LEMMA AnswerShape ==
  ASSUME NEW b, Answer(b)
  PROVE  /\ b = [log |-> b.log, nodes |-> b.nodes, ports |-> b.ports]
         /\ Mapped(nodeFromProto, b.nodes) = b.nodes
         /\ Mapped(portFromProto, b.ports) = b.ports
<1>1. PICK q, n : AnswerTo(q, n, b)
  BY DEF Answer
<1>2. CASE b = Early
  BY <1>2 DEF Early, Mapped
<1>3. CASE b = RepositoryHas(q, n)
  <2>1. PICK nodes, ports : b = [log |-> logToProto(LogOfRow(log)),
                                 nodes |-> Mapped(nodeToProto, nodes),
                                 ports |-> Mapped(portToProto, Mapped(PortOfRow, ports))]
    BY <1>3 DEF RepositoryHas
  <2>2. PICK some : b.ports = Mapped(portToProto, some)
    BY <2>1
  <2>3. Mapped(nodeFromProto, Mapped(nodeToProto, nodes)) = Mapped(nodeToProto, nodes)
    BY NodeUnpacked DEF Mapped
  <2>4. Mapped(portFromProto, Mapped(portToProto, some)) = Mapped(portToProto, some)
    BY PortUnpacked DEF Mapped
  <2> QED
    BY <2>1, <2>2, <2>3, <2>4
<1> QED
  BY <1>1, <1>2, <1>3 DEF AnswerTo

LEMMA LogIsKnown ==
  ASSUME PostInv
  PROVE  /\ log \in {LogBefore, LogAfter(post.parsed), LogFailed}
         /\ log.status = "parsed" => post.at = "done" /\ post.answer = "ok" /\ Saved
<1>1. LogBefore.status # "parsed" /\ LogFailed.status # "parsed"
  BY DEF LogBefore, LogFailed
<1> QED
  BY <1>1 DEF PostInv, Untouched, Saved

\* What the log of an answer says, after its conversions.
LEMMA AnswerLog ==
  ASSUME PostInv, NEW q, NEW n, NEW b, AnswerTo(q, n, b)
  PROVE  \E l : /\ l \in {LogBefore, LogAfter(post.parsed), LogFailed}
                /\ logFromProto(b.log) = LogOfRow(l)
                /\ l.status = "parsed" => log.status = "parsed" /\ b = RepositoryHas(q, n)
<1>1. CASE b = Early /\ q \in Lists
  <2>1. b.log = logToProto(LogOfRow(LogBefore)) /\ LogBefore.status # "parsed"
    BY <1>1 DEF Early, LogBefore
  <2>2. LogBefore \in {LogBefore, LogAfter(post.parsed), LogFailed}
    OBVIOUS
  <2>3. logFromProto(logToProto(LogOfRow(LogBefore))) = LogOfRow(LogBefore)
    BY <2>2, LogUnpacked
  <2> QED
    BY <2>1, <2>2, <2>3, Zenon
<1>2. CASE b = RepositoryHas(q, n)
  <2>1. b.log = logToProto(LogOfRow(log))
    BY <1>2 DEF RepositoryHas
  <2>2. PICK l : l = log
    OBVIOUS
  <2>3. l \in {LogBefore, LogAfter(post.parsed), LogFailed}
    BY <2>2, LogIsKnown
  <2>4. logFromProto(logToProto(LogOfRow(l))) = LogOfRow(l)
    BY <2>3, LogUnpacked
  <2> QED
    BY <1>2, <2>1, <2>2, <2>3, <2>4
<1> QED
  BY <1>1, <1>2 DEF AnswerTo

LEMMA TopologyCopied ==
  ASSUME NEW c, NEW edges
  PROVE  /\ topologyFromProto(topologyToProto(TopologyOf(c, edges))) = TopologyOf(c, edges)
         /\ topologyResponseFromCore(TopologyOf(c, edges)) = TopologyOf(c, edges)
<1> DEFINE t == TopologyOf(c, edges)
<1>1. t = [nodes |-> t.nodes, edges |-> t.edges]
      /\ t.nodes = [i \in DOMAIN c.nodes |-> TopologyNodeOf(c.nodes[i], c.ports)]
  BY DEF TopologyOf, Mapped
<1>2. ASSUME NEW n PROVE Take(TopologyNode, TopologyNodeOf(n, c.ports)) = TopologyNodeOf(n, c.ports)
  <2>1. PICK F : TopologyNodeOf(n, c.ports) = [f \in TopologyNode |-> F[f]]
    <3> DEFINE G == TopologyNodeOf(n, c.ports)
    <3>1. G = [f \in TopologyNode |-> G[f]]
      BY DEF TopologyNodeOf
    <3> QED
      BY <3>1
  <2> QED
    BY <2>1 DEF Take
<1>3. TakeAll(TopologyNode, t.nodes) = t.nodes
  BY <1>1, <1>2 DEF TakeAll
<1> HIDE DEF t
<1>4. [t EXCEPT !.nodes = TakeAll(TopologyNode, @)] = t
  BY <1>1, <1>3
<1> QED
  BY <1>4 DEF t, topologyFromProto, topologyToProto, topologyResponseFromCore

\* The answer stays the same while its request goes on.
LEMMA AnswerStays ==
  ASSUME UNCHANGED <<log, rows>>, view'.query = view.query, view'.node = view.node, NEW b
  PROVE  Answer(b)' <=> Answer(b)
<1>1. \A q, n : RepositoryHas(q, n)' = RepositoryHas(q, n)
  BY RepositoryStays
<1> QED
  BY <1>1 DEF Answer, AnswerTo

LEMMA TopologyIsTrueThen ==
  ASSUME NEW n, NEW b, NEW c, c = ForTopology(b), NEW edges \in Edges(c.ports), NEW t,
         t = TopologyOf(c, edges),
         n = view'.node, b = RepositoryHas("topology", n)',
         post'.at = "done", post'.answer = "ok", view'.body = t
  PROVE  TopologyStillTrue'
BY DEF TopologyStillTrue, ForTopology, TopologyOf, Mapped

LEMMA TopologyStays ==
  ASSUME UNCHANGED <<log, rows, post>>, view'.node = view.node, view'.body = view.body,
         TopologyStillTrue
  PROVE  TopologyStillTrue'
<1>1. \A n : RepositoryHas("topology", n)' = RepositoryHas("topology", n)
  BY RepositoryStays
<1>2. PICK n, b : /\ n = view.node /\ b = RepositoryHas("topology", n)
                  /\ \E edges \in Edges(ForTopology(b).ports) :
                       view.body = TopologyOf(ForTopology(b), edges)
  BY DEF TopologyStillTrue
<1>3. PICK c : c = ForTopology(b)
  OBVIOUS
<1>4. PICK edges \in Edges(c.ports) : view.body = TopologyOf(c, edges)
  BY <1>2, <1>3
<1>5. b = RepositoryHas("topology", n)' /\ post'.at = "done" /\ post'.answer = "ok"
  BY <1>1, <1>2 DEF TopologyStillTrue
<1>6. n = view'.node
  BY <1>2
<1>7. PICK t : t = TopologyOf(c, edges)
  OBVIOUS
<1>8. view'.body = t
  BY <1>4, <1>7
<1> QED
  BY <1>3, <1>4, <1>5, <1>6, <1>7, <1>8, TopologyIsTrueThen

LEMMA AskSound ==
  ASSUME WireInv, NEW q \in Lists \cup OfNode, NEW n, NEW raw \in BOOLEAN, Ask(q, n, raw),
         q \in OfNode => n \in DOMAIN rows.nodes
  PROVE  ViewInv'
<1>1. /\ view' = [view EXCEPT !.query = q, !.node = n, !.raw = raw, !.at = "repository",
                              !.body = RepositoryHas(q, n)]
      /\ UNCHANGED <<log, rows, post>> /\ ViewTypeOK
  BY DEF Ask, WireInv, ViewInv
<1> HIDE DEF Lists, OfNode
<1>2. ViewTypeOK' /\ view'.at = "repository" /\ view'.query = q /\ view'.node = n
      /\ view'.body = RepositoryHas(q, n)
  BY <1>1 DEF ViewTypeOK
<1>3. RepositoryHas(q, n)' = RepositoryHas(q, n)
  BY <1>1, RepositoryStays
<1>4. \E b : b = view'.body /\ Answer(b)'
  BY <1>2, <1>3 DEF Answer, AnswerTo
<1>5. q \in OfNode => post.at = "done" /\ post.answer = "ok"
  <2>1. CASE post.at # "done" \/ post.answer # "ok"
    <3>1. rows = NoRows
      BY <2>1 DEF WireInv, PostInv, Untouched
    <3> QED
      BY <3>1 DEF NoRows
  <2> QED
    BY <2>1
<1> QED
  BY <1>1, <1>2, <1>4, <1>5 DEF ViewInv

LEMMA RepositoryRepliedSound ==
  ASSUME WireInv, RepositoryReplied
  PROVE  ViewInv'
<1>1. UNCHANGED <<log, rows, post>> /\ view.at = "repository" /\ ViewTypeOK
  BY DEF RepositoryReplied, WireInv, ViewInv
<1>2. PICK b : b = view.body /\ Answer(b)
  BY <1>1 DEF WireInv, ViewInv
<1>3. b = [log |-> b.log, nodes |-> b.nodes, ports |-> b.ports]
  BY <1>2, AnswerShape
<1>4. view.query \in OfNode =>
        post.at = "done" /\ post.answer = "ok" /\ view.node \in DOMAIN rows.nodes
  BY <1>1 DEF WireInv, ViewInv
<1>5. CASE view' = [view EXCEPT !.at = "done", !.answer = "error"]
  <2>1. ViewTypeOK' /\ view'.at = "done" /\ view'.answer = "error" /\ view'.query = view.query
        /\ view'.node = view.node
    BY <1>1, <1>5 DEF ViewTypeOK
  <2> QED
    BY <1>1, <1>4, <2>1 DEF ViewInv
<1>6. CASE /\ view.query = "topology"
           /\ view' = [view EXCEPT !.at = "topology", !.body.log = logFromProto(@),
                         !.body.nodes = Mapped(topologyNodeFromProto, @),
                         !.body.ports = Mapped(topologyPortFromProto, @)]
  <2>1. /\ ViewTypeOK' /\ view'.at = "topology" /\ view'.query = view.query
        /\ view'.node = view.node
        /\ view'.body = [b EXCEPT !.log = logFromProto(@),
                                  !.nodes = Mapped(topologyNodeFromProto, @),
                                  !.ports = Mapped(topologyPortFromProto, @)]
    BY <1>1, <1>2, <1>6 DEF ViewTypeOK
  <2>2. view'.body = ForTopology(b)
    BY <1>3, <2>1 DEF ForTopology
  <2>3. Answer(b)'
    BY <1>1, <1>2, <2>1, AnswerStays
  <2>4. (\E c : Answer(c) /\ view.body = ForTopology(c))'
    BY <2>2, <2>3 DEF ForTopology
  <2> QED
    BY <1>1, <1>4, <1>6, <2>1, <2>4 DEF ViewInv
<1>7. CASE /\ view.query # "topology"
           /\ view' = [view EXCEPT !.at = "app", !.body.log = logFromProto(@),
                                   !.body.nodes = Mapped(nodeFromProto, @),
                                   !.body.ports = Mapped(portFromProto, @)]
  <2>1. /\ ViewTypeOK' /\ view'.at = "app" /\ view'.query = view.query
        /\ view'.node = view.node
        /\ view'.body = [b EXCEPT !.log = logFromProto(@),
                                  !.nodes = Mapped(nodeFromProto, @),
                                  !.ports = Mapped(portFromProto, @)]
    BY <1>1, <1>2, <1>7 DEF ViewTypeOK
  <2>2. Mapped(nodeFromProto, b.nodes) = b.nodes /\ Mapped(portFromProto, b.ports) = b.ports
    BY <1>2, AnswerShape
  <2>3. view'.body = [log |-> logFromProto(b.log), nodes |-> Mapped(nodeFromProto, b.nodes),
                      ports |-> Mapped(portFromProto, b.ports)]
    BY <1>3, <2>1
  <2>4. view'.body = Received(b)
    BY <2>2, <2>3 DEF Received
  <2>5. Answer(b)'
    BY <1>1, <1>2, <2>1, AnswerStays
  <2>6. (\E c : Answer(c) /\ view.body = Received(c))'
    BY <2>4, <2>5 DEF Received
  <2> QED
    BY <1>1, <1>4, <1>7, <2>1, <2>6 DEF ViewInv
<1> QED
  BY <1>5, <1>6, <1>7 DEF RepositoryReplied

LEMMA TopologyRepliedSound ==
  ASSUME WireInv, TopologyReplied
  PROVE  ViewInv'
<1>1. UNCHANGED <<log, rows, post>> /\ view.at = "topology" /\ ViewTypeOK
      /\ view.query = "topology"
  BY DEF TopologyReplied, WireInv, ViewInv
<1>2. PICK b : Answer(b) /\ view.body = ForTopology(b)
  BY <1>1 DEF WireInv, ViewInv
<1>3. CASE view' = [view EXCEPT !.at = "done", !.answer = "conflict"]
  <2>1. ViewTypeOK' /\ view'.at = "done" /\ view'.answer = "conflict" /\ view'.query = view.query
    BY <1>1, <1>3 DEF ViewTypeOK
  <2> QED
    BY <1>1, <2>1 DEF ViewInv, OfNode
<1>4. ASSUME view.body.log.status = "parsed", NEW edges \in Edges(view.body.ports), NEW t,
             t = [nodes |-> Mapped(LAMBDA n : TopologyNodeOf(n, view.body.ports),
                                   view.body.nodes),
                  edges |-> edges],
             view' = [view EXCEPT !.at = "app", !.body = topologyFromProto(topologyToProto(t))]
      PROVE  ViewInv'
  <2>1. PICK c : c = ForTopology(b)
    OBVIOUS
  <2>2. t = TopologyOf(c, edges) /\ edges \in Edges(c.ports)
    BY <1>2, <1>4, <2>1 DEF TopologyOf
  <2>3. topologyFromProto(topologyToProto(t)) = t
    BY <2>2, TopologyCopied
  <2>4. /\ ViewTypeOK' /\ view'.at = "app" /\ view'.query = "topology" /\ view'.node = view.node
        /\ view'.body = t
    BY <1>1, <1>4, <2>3 DEF ViewTypeOK
  <2>5. PICK n : n = view.node /\ AnswerTo("topology", n, b)
    BY <1>1, <1>2 DEF Answer
  <2>6. log.status = "parsed" /\ b = RepositoryHas("topology", n)
    <3>1. PICK l \in {LogBefore, LogAfter(post.parsed), LogFailed} :
            /\ logFromProto(b.log) = LogOfRow(l)
            /\ l.status = "parsed" => log.status = "parsed" /\ b = RepositoryHas("topology", n)
      BY <2>5, AnswerLog DEF WireInv
    <3>2. LogOfRow(l).status = l.status
      BY LogUnpacked
    <3>3. c.log = logFromProto(b.log)
      BY <2>1 DEF ForTopology
    <3> QED
      BY <1>2, <1>4, <2>1, <3>1, <3>2, <3>3
  <2>7. post.at = "done" /\ post.answer = "ok"
    BY <2>6, LogIsKnown DEF WireInv
  <2>8. b = RepositoryHas("topology", n)'
    BY <1>1, <2>6, RepositoryStays
  <2>9. TopologyStillTrue'
    <3>1. n = view'.node /\ post'.at = "done" /\ post'.answer = "ok"
      BY <1>1, <2>4, <2>5, <2>7
    <3> QED
      BY <2>1, <2>2, <2>4, <2>8, <3>1, TopologyIsTrueThen
  <2> QED
    BY <2>4, <2>9 DEF ViewInv, OfNode
<1> QED
  BY <1>3, <1>4 DEF TopologyReplied

LEMMA ListsReplaced ==
  ASSUME NEW b, NEW c, c = Received(b), NEW nodes, NEW ports
  PROVE  [c EXCEPT !.nodes = nodes, !.ports = ports]
         = [log |-> c.log, nodes |-> nodes, ports |-> ports]
<1> PICK l, ns, ps : l = c.log /\ c = [log |-> l, nodes |-> ns, ports |-> ps]
  BY DEF Received
<1> DEFINE r == [c EXCEPT !.nodes = nodes, !.ports = ports]
           s == [log |-> l, nodes |-> nodes, ports |-> ports]
           Fields == {"log", "nodes", "ports"}
<1>1. r = [f \in Fields |-> r[f]] /\ r.log = l /\ r.nodes = nodes /\ r.ports = ports
  OBVIOUS
<1>2. s = [f \in Fields |-> s[f]] /\ s.log = l /\ s.nodes = nodes /\ s.ports = ports
  OBVIOUS
<1> HIDE DEF r, s
<1>3. \A f \in Fields : r[f] = s[f]
  BY <1>1, <1>2
<1> HIDE DEF Fields
<1>4. r = s
  BY <1>1, <1>2, <1>3, Zenon
<1> QED
  BY <1>4 DEF r, s

LEMMA RespondedSound ==
  ASSUME WireInv, Responded
  PROVE  ViewInv'
<1>1. UNCHANGED <<log, rows, post>> /\ view.at = "app" /\ ViewTypeOK
  BY DEF Responded, WireInv, ViewInv
<1>2. CASE view.query = "topology"
  <2>1. view' = [view EXCEPT !.at = "done", !.answer = "ok",
                             !.body = topologyResponseFromCore(view.body)]
    BY <1>2 DEF Responded
  <2>2. topologyResponseFromCore(view.body) = view.body /\ TopologyStillTrue
    BY <1>1, <1>2, TopologyCopied DEF WireInv, ViewInv, TopologyStillTrue
  <2>3. ViewTypeOK' /\ view'.at = "done" /\ view'.query = "topology" /\ view'.node = view.node
        /\ view'.body = view.body
    BY <1>1, <1>2, <2>1, <2>2 DEF ViewTypeOK
  <2>4. TopologyStillTrue'
    BY <1>1, <2>2, <2>3, TopologyStays
  <2> QED
    BY <2>3, <2>4 DEF ViewInv, OfNode
<1>3. CASE view.query # "topology"
  <2>1. PICK b : Answer(b) /\ view.body = Received(b)
    BY <1>1, <1>3 DEF WireInv, ViewInv
  <2>2. PICK c : c = Received(b)
    OBVIOUS
  <2>3. view' = [view EXCEPT !.at = "done", !.answer = "ok",
                   !.body = [c EXCEPT !.nodes = Mapped(storedNodeToResponse, c.nodes),
                                      !.ports = Mapped(storedPortToResponse, c.ports)]]
    BY <1>3, <2>1, <2>2 DEF Responded
  <2>4. [c EXCEPT !.nodes = Mapped(storedNodeToResponse, c.nodes),
                  !.ports = Mapped(storedPortToResponse, c.ports)] = Response(c)
    <3>1. PICK nodes, ports : /\ nodes = Mapped(storedNodeToResponse, c.nodes)
                              /\ ports = Mapped(storedPortToResponse, c.ports)
      OBVIOUS
    <3>2. [c EXCEPT !.nodes = nodes, !.ports = ports]
          = [log |-> c.log, nodes |-> nodes, ports |-> ports]
      BY <2>2, ListsReplaced
    <3>3. Response(c) = [log |-> c.log, nodes |-> nodes, ports |-> ports]
      BY <3>1 DEF Response
    <3> QED
      BY <3>1, <3>2, <3>3, Zenon
  <2>5. /\ ViewTypeOK' /\ view'.at = "done" /\ view'.query = view.query
        /\ view'.node = view.node /\ view'.raw = view.raw
        /\ view'.body = Response(c)
    BY <1>1, <2>3, <2>4 DEF ViewTypeOK
  <2>6. Response(c)' = Response(c)
    BY <2>5 DEF Response, Mapped, storedNodeToResponse, storedPortToResponse, WithoutRaw
  <2>7. Answer(b)'
    BY <1>1, <2>1, <2>5, AnswerStays
  <2>8. (\E d, e : Answer(d) /\ e = Received(d) /\ view.body = Response(e))'
    BY <2>2, <2>5, <2>6, <2>7 DEF Received
  <2>9. view.query \in OfNode =>
          post.at = "done" /\ post.answer = "ok" /\ view.node \in DOMAIN rows.nodes
    BY <1>1 DEF WireInv, ViewInv
  <2> QED
    BY <1>1, <1>3, <2>5, <2>8, <2>9 DEF ViewInv
<1> QED
  BY <1>2, <1>3

LEMMA ViewStepSound ==
  ASSUME WireInv, WireNext, ~ PostStep
  PROVE  UNCHANGED <<log, rows, post>> /\ ViewInv'
<1>1. ASSUME NEW q \in Lists, NEW raw \in BOOLEAN, Ask(q, 0, raw)
      PROVE  UNCHANGED <<log, rows, post>> /\ ViewInv'
  BY <1>1, AskSound DEF Ask, Lists, OfNode
<1>2. ASSUME NEW q \in OfNode, NEW n \in DOMAIN rows.nodes, NEW raw \in BOOLEAN, Ask(q, n, raw)
      PROVE  UNCHANGED <<log, rows, post>> /\ ViewInv'
  BY <1>2, AskSound DEF Ask
<1>3. CASE RepositoryReplied
  BY <1>3, RepositoryRepliedSound DEF RepositoryReplied
<1>4. CASE TopologyReplied
  BY <1>4, TopologyRepliedSound DEF TopologyReplied
<1>5. CASE Responded
  BY <1>5, RespondedSound DEF Responded
<1>6. CASE ViewEnds
  <2>1. ViewTypeOK' /\ view'.at = "idle"
    BY <1>6 DEF ViewEnds, NoView, ViewTypeOK, Lists
  <2> QED
    BY <1>6, <2>1 DEF ViewEnds, ViewInv
<1> QED
  BY <1>1, <1>2, <1>3, <1>4, <1>5, <1>6 DEF WireNext, PostStep, Lists, OfNode

LEMMA WireInvariant == WireSpec => []WireInv
<1>1. WireInit => WireInv
  BY PostInitSound, ViewInitSound DEF WireInv
<1>2. WireInv /\ [WireNext]_wireVars => WireInv'
  <2> SUFFICES ASSUME WireInv, [WireNext]_wireVars PROVE WireInv'
    OBVIOUS
  <2>1. CASE PostStep
    BY <2>1, PostStepSound, PostStepKeepsViews DEF WireInv
  <2>2. CASE WireNext /\ ~ PostStep
    BY <2>2, ViewStepSound, ViewLeavesPost DEF WireInv
  <2>3. CASE UNCHANGED wireVars
    <3>1. UNCHANGED <<log, rows, post, view>>
      BY <2>3 DEF wireVars
    <3>2. \A b : Answer(b)' <=> Answer(b)
      BY <3>1, AnswerStays
    <3>3. \A b : Response(Received(b))' = Response(Received(b))
      <4> SUFFICES ASSUME NEW b PROVE Response(Received(b))' = Response(Received(b))
        OBVIOUS
      <4>1. PICK c : c = Received(b)
        OBVIOUS
      <4> QED
        BY <3>1, <4>1, ResponseStays DEF Received
    <3>4. TopologyStillTrue => TopologyStillTrue'
      BY <3>1, TopologyStays
    <3>5. PostInv' /\ ViewInv
      BY <3>1, ViewLeavesPost DEF WireInv
    <3>6. ViewTypeOK'
      BY <3>1, <3>5 DEF ViewInv, ViewTypeOK
    <3>7. ViewInv'
      BY <3>1, <3>2, <3>3, <3>4, <3>5, <3>6 DEF ViewInv, ForTopology, Received
    <3> QED
      BY <3>5, <3>7 DEF WireInv
  <2> QED
    BY <2>1, <2>2, <2>3
<1> QED
  BY <1>1, <1>2, PTL DEF WireSpec

\* Whatever the parser found and wherever its data fails to get through: the
\* client of POST /parse is told what is in the tables.
THEOREM PostCorrect == WireSpec => []PostIsTrue
BY WireInvariant, PostInvImplies, PTL DEF WireInv

(***************************************************************************)
(* What a client sees.                                                     *)
(***************************************************************************)
\* The fields of the response to a request that is not for the topology.
LEMMA BodyShown ==
  ASSUME WireInv, NEW q, Shown(q), q # "topology"
  PROVE  \E b : /\ AnswerTo(q, view.node, b)
                /\ view.body.log = logFromProto(b.log)
                /\ view.body.nodes = Mapped(storedNodeToResponse, b.nodes)
                /\ view.body.ports = Mapped(storedPortToResponse, b.ports)
<1>1. PICK b : Answer(b) /\ view.body = Response(Received(b))
  BY DEF WireInv, ViewInv, Shown
<1>2. AnswerTo(q, view.node, b)
  BY <1>1 DEF Answer, Shown
<1>3. PICK c : c = Received(b)
  OBVIOUS
<1>4. c.log = logFromProto(b.log) /\ c.nodes = b.nodes /\ c.ports = b.ports
  BY <1>3 DEF Received
<1>5. /\ view.body.log = c.log
      /\ view.body.nodes = Mapped(storedNodeToResponse, c.nodes)
      /\ view.body.ports = Mapped(storedPortToResponse, c.ports)
  BY <1>1, <1>3 DEF Response
<1> QED
  BY <1>2, <1>4, <1>5

\* If the log is shown as parsed, everything has been saved by then.
LEMMA ShownOfSaved ==
  ASSUME WireInv, NEW q, Shown(q), q # "topology", view.body.log.status = "parsed"
  PROVE  /\ post.at = "done" /\ post.answer = "ok" /\ Saved
         /\ view.body.nodes = Mapped(storedNodeToResponse, RepositoryHas(q, view.node).nodes)
         /\ view.body.ports = Mapped(storedPortToResponse, RepositoryHas(q, view.node).ports)
<1>1. PICK n, b : /\ n = view.node /\ AnswerTo(q, n, b)
                  /\ view.body.log = logFromProto(b.log)
                  /\ view.body.nodes = Mapped(storedNodeToResponse, b.nodes)
                  /\ view.body.ports = Mapped(storedPortToResponse, b.ports)
  BY BodyShown
<1>2. PICK l \in {LogBefore, LogAfter(post.parsed), LogFailed} :
        /\ logFromProto(b.log) = LogOfRow(l)
        /\ l.status = "parsed" => log.status = "parsed" /\ b = RepositoryHas(q, n)
  BY <1>1, AnswerLog DEF WireInv
<1>3. LogOfRow(l).status = l.status
  BY LogUnpacked
<1>4. log.status = "parsed" /\ b = RepositoryHas(q, n)
  BY <1>1, <1>2, <1>3
<1> QED
  BY <1>1, <1>4, LogIsKnown DEF WireInv

LEMMA LogShown == WireInv => LogShowsItsEnd
<1> SUFFICES ASSUME WireInv, Shown("log") PROVE LogShowsItsEnd
  BY DEF LogShowsItsEnd
<1>1. PICK n, b : AnswerTo("log", n, b) /\ view.body.log = logFromProto(b.log)
  BY BodyShown
<1>2. PICK l \in {LogBefore, LogAfter(post.parsed), LogFailed} :
        logFromProto(b.log) = LogOfRow(l)
  BY <1>1, AnswerLog DEF WireInv
<1>3. PICK m : m = LogOfRow(l) /\ m = view.body.log
  BY <1>1, <1>2
<1>4. /\ m.status = l.status /\ m.error = l.error /\ m.nodes_count = l.nodes_count
      /\ m.parsed_at = IF l = LogBefore THEN "" ELSE "now"
  <2>1. PICK p : p = post.parsed /\ l \in {LogBefore, LogAfter(p), LogFailed}
    BY <1>2
  <2>2. /\ LogOfRow(l).status = l.status /\ LogOfRow(l).error = l.error
        /\ LogOfRow(l).nodes_count = l.nodes_count
    BY <2>1, LogUnpacked
  <2>3. LogOfRow(l).parsed_at = IF l = LogBefore THEN "" ELSE "now"
    BY <2>1, LogUnpacked
  <2> QED
    BY <1>3, <2>2, <2>3
<1>5. CASE l = LogBefore
  <2>1. m.status = "processing" /\ m.error = "" /\ m.parsed_at = ""
    BY <1>4, <1>5 DEF LogBefore
  <2> QED
    BY <1>3, <2>1 DEF LogShowsItsEnd
<1>6. CASE l = LogAfter(post.parsed)
  <2>1. /\ m.status = "parsed" /\ m.error = "" /\ m.parsed_at = "now"
        /\ m.nodes_count = Len(post.parsed.nodes)
    BY <1>4, <1>6 DEF LogBefore, LogAfter
  <2> QED
    BY <1>3, <2>1 DEF LogShowsItsEnd
<1>7. CASE l = LogFailed
  <2>1. m.status = "failed" /\ m.error = "text" /\ m.parsed_at = "now" /\ m.nodes_count = 0
    BY <1>4, <1>7 DEF LogBefore, LogFailed
  <2> QED
    BY <1>3, <2>1 DEF LogShowsItsEnd
<1> QED
  BY <1>2, <1>5, <1>6, <1>7

(***************************************************************************)
(* The ports of a node.                                                    *)
(***************************************************************************)
LEMMA Least ==
  ASSUME NEW T \in SUBSET Nat, T # {}
  PROVE  \E x \in T : \A y \in T : x <= y
<1> DEFINE R == OpToRel(<, Nat)
<1>1. IsWellFoundedOn(R, Nat)
  BY NatLessThanWellFounded
<1>2. \A x, y \in Nat : y < x => <<y, x>> \in R
  BY DEF OpToRel
<1> HIDE DEF R
<1>3. PICK x \in T : \A y \in T : ~ (<<y, x>> \in R)
  BY <1>1, WFMin
<1>4. ASSUME NEW y \in T PROVE x <= y
  <2>1. y \in Nat /\ x \in Nat
    OBVIOUS
  <2>2. ~ (y < x)
    BY <1>2, <1>3, <2>1
  <2> QED
    BY <2>1, <2>2
<1> QED
  BY <1>4

LEMMA ByInduction ==
  ASSUME NEW S \in SUBSET Nat, 0 \in S, \A n \in S : n + 1 \in S
  PROVE  S = Nat
<1> SUFFICES ASSUME S # Nat PROVE FALSE
  OBVIOUS
<1>1. PICK x \in Nat \ S : \A y \in Nat \ S : x <= y
  <2>1. Nat \ S # {} /\ Nat \ S \in SUBSET Nat
    OBVIOUS
  <2> QED
    BY <2>1, Least
<1>2. x # 0 /\ x - 1 \in Nat
  BY <1>1
<1>3. x - 1 \in S
  BY <1>1, <1>2
<1> QED
  BY <1>1, <1>2, <1>3

\* The body of PortsOfNode's recursion.
KeptOf(ports, node, f, k) ==
  IF k = 0 THEN <<>>
  ELSE IF ports[k]["node_id"] = node THEN Append(f[k - 1], ports[k])
  ELSE f[k - 1]

IsKept(f, ports, node, N) == f = [k \in 0 .. N |-> KeptOf(ports, node, f, k)]

LEMMA KeptExists ==
  ASSUME NEW ports, NEW node, NEW N \in Nat
  PROVE  \E f : IsKept(f, ports, node, N)
<1> DEFINE S == {m \in Nat : \E f : f = [k \in 0 .. m |-> KeptOf(ports, node, f, k)]}
<1>1. 0 \in S
  <2> DEFINE f == [k \in 0 .. 0 |-> <<>>]
  <2>1. f = [k \in 0 .. 0 |-> KeptOf(ports, node, f, k)]
    BY DEF KeptOf
  <2> QED
    BY <2>1
<1>2. ASSUME NEW m \in S PROVE m + 1 \in S
  <2>1. PICK f : f = [k \in 0 .. m |-> KeptOf(ports, node, f, k)]
    OBVIOUS
  <2> DEFINE h == [k \in 0 .. m + 1 |-> IF k = m + 1 THEN KeptOf(ports, node, f, k) ELSE f[k]]
  <2>2. m \in Nat
    OBVIOUS
  <2>3. ASSUME NEW k \in 0 .. m + 1 PROVE h[k] = KeptOf(ports, node, h, k)
    <3>1. \A j \in 0 .. m : h[j] = f[j]
      BY <2>2
    <3>2. CASE k = m + 1
      <4>1. h[k] = KeptOf(ports, node, f, k)
        BY <3>2
      <4>2. k # 0 /\ k - 1 \in 0 .. m
        BY <2>2, <3>2
      <4> HIDE DEF h
      <4> QED
        BY <3>1, <4>1, <4>2 DEF KeptOf
    <3>3. CASE k # m + 1
      <4>1. k \in 0 .. m /\ (k # 0 => k - 1 \in 0 .. m)
        BY <2>2, <3>3
      <4>2. h[k] = f[k] /\ f[k] = KeptOf(ports, node, f, k)
        BY <2>1, <3>1, <4>1
      <4> HIDE DEF h
      <4> QED
        BY <3>1, <4>1, <4>2 DEF KeptOf
    <3> QED
      BY <3>2, <3>3
  <2>4. h = [k \in 0 .. m + 1 |-> KeptOf(ports, node, h, k)]
    <3>1. h = [k \in 0 .. m + 1 |-> h[k]]
      OBVIOUS
    <3> HIDE DEF h
    <3> QED
      BY <2>3, <3>1
  <2> HIDE DEF h
  <2>5. m + 1 \in Nat /\ \E g : g = [k \in 0 .. m + 1 |-> KeptOf(ports, node, g, k)]
    BY <2>2, <2>4
  <2> QED
    BY <2>5
<1>3. S \in SUBSET Nat
  OBVIOUS
<1> HIDE DEF S
<1>4. S = Nat
  BY <1>1, <1>2, <1>3, ByInduction
<1> QED
  BY <1>4 DEF S, IsKept

\* f[k] is what is kept of the first k ports.
KeepsUpTo(f, ports, node, N) ==
  /\ f[0] = <<>>
  /\ \A k \in 1 .. N : f[k] = IF ports[k]["node_id"] = node
                              THEN Append(f[k - 1], ports[k]) ELSE f[k - 1]

LEMMA KeptSource ==
  ASSUME NEW node, NEW ports, ports = rows.ports, NEW N \in Nat, N = Len(ports)
  PROVE  \E f : KeepsUpTo(f, ports, node, N) /\ PortsOfNode(node) = f[N]
<1> DEFINE kept == CHOOSE f : f = [k \in 0 .. N |-> KeptOf(ports, node, f, k)]
<1>1. kept = [k \in 0 .. N |-> KeptOf(ports, node, kept, k)]
  <2>1. \E f : IsKept(f, ports, node, N)
    BY KeptExists
  <2> QED
    BY <2>1, Zenon DEF IsKept
<1>2. PortsOfNode(node) = kept[N]
  BY DEF PortsOfNode, KeptOf
<1> HIDE DEF kept
<1>3. \A k \in 0 .. N : kept[k] = KeptOf(ports, node, kept, k)
  BY <1>1
<1>4. kept[0] = <<>> /\ \A k \in 1 .. N : kept[k] = KeptOf(ports, node, kept, k)
  BY <1>3 DEF KeptOf
<1> QED
  BY <1>2, <1>4 DEF KeptOf, KeepsUpTo

LEMMA AppendedRows ==
  ASSUME NEW V, NEW s \in Seq(V), NEW v \in V
  PROVE  Append(s, v) \in Seq(V) /\ RowsOf(Append(s, v)) = RowsOf(s) \cup {v}
<1>1. /\ Append(s, v) \in Seq(V)
      /\ DOMAIN Append(s, v) = 1 .. Len(s) + 1
      /\ DOMAIN s = 1 .. Len(s) /\ Len(s) \in Nat
      /\ \A i \in 1 .. Len(s) : Append(s, v)[i] = s[i]
      /\ Append(s, v)[Len(s) + 1] = v
  OBVIOUS
<1>2. 1 .. Len(s) + 1 = (1 .. Len(s)) \cup {Len(s) + 1}
  BY <1>1
<1> QED
  BY <1>1, <1>2 DEF RowsOf

\* The ports that name the node, and no others.
LEMMA PortsOfNodeRows ==
  ASSUME NEW node, NEW ports, ports = rows.ports, Len(ports) \in Nat,
         DOMAIN ports = 1 .. Len(ports)
  PROVE  RowsOf(PortsOfNode(node)) = {x \in RowsOf(ports) : x["node_id"] = node}
<1> PICK N \in Nat : N = Len(ports)
  OBVIOUS
<1> DEFINE V == RowsOf(ports)
           Kept(k) == {ports[j] : j \in {l \in 1 .. k : ports[l]["node_id"] = node}}
<1>1. PICK f : KeepsUpTo(f, ports, node, N) /\ PortsOfNode(node) = f[N]
  BY KeptSource
<1>2. \A k \in 1 .. N : ports[k] \in V
  BY DEF RowsOf
<1> DEFINE S == {m \in Nat : m <= N => f[m] \in Seq(V) /\ RowsOf(f[m]) = Kept(m)}
<1>3. 0 \in S
  <2>1. <<>> \in Seq(V) /\ RowsOf(<<>>) = {} /\ Kept(0) = {}
    BY DEF RowsOf
  <2> QED
    BY <1>1, <2>1 DEF KeepsUpTo
<1>4. ASSUME NEW m \in S PROVE m + 1 \in S
  <2> SUFFICES ASSUME m + 1 <= N
               PROVE  f[m + 1] \in Seq(V) /\ RowsOf(f[m + 1]) = Kept(m + 1)
    OBVIOUS
  <2>1. m \in Nat /\ m + 1 \in 1 .. N /\ (m + 1) - 1 = m /\ m <= N
    OBVIOUS
  <2>2. f[m] \in Seq(V) /\ RowsOf(f[m]) = Kept(m)
    BY <2>1
  <2>3. 1 .. m + 1 = (1 .. m) \cup {m + 1}
    BY <2>1
  <2>4. f[m + 1] = IF ports[m + 1]["node_id"] = node THEN Append(f[m], ports[m + 1]) ELSE f[m]
    BY <1>1, <2>1 DEF KeepsUpTo
  <2> HIDE DEF S, V
  <2>5. CASE ports[m + 1]["node_id"] = node
    <3>1. Kept(m + 1) = Kept(m) \cup {ports[m + 1]}
      BY <2>3, <2>5
    <3> HIDE DEF Kept
    <3>2. PICK s, v : s = f[m] /\ v = ports[m + 1]
      OBVIOUS
    <3>3. s \in Seq(V) /\ v \in V
      BY <1>2, <2>1, <2>2, <3>2
    <3>4. Append(s, v) \in Seq(V) /\ RowsOf(Append(s, v)) = RowsOf(s) \cup {v}
      BY <3>3, AppendedRows
    <3>5. f[m + 1] = Append(s, v)
      BY <2>4, <2>5, <3>2
    <3> QED
      BY <2>2, <3>1, <3>2, <3>4, <3>5
  <2>6. CASE ports[m + 1]["node_id"] # node
    <3>1. Kept(m + 1) = Kept(m)
      BY <2>3, <2>6
    <3> QED
      BY <2>2, <2>4, <2>6, <3>1
  <2> QED
    BY <2>5, <2>6
<1>5. S \in SUBSET Nat
  OBVIOUS
<1> HIDE DEF S
<1>6. S = Nat
  BY <1>3, <1>4, <1>5, ByInduction
<1>7. RowsOf(f[N]) = Kept(N)
  <2>1. N \in S /\ N <= N
    BY <1>6
  <2> HIDE DEF Kept, V
  <2> QED
    BY <2>1 DEF S
<1>8. Kept(N) = {x \in RowsOf(ports) : x["node_id"] = node}
  BY DEF RowsOf
<1> QED
  BY <1>1, <1>7, <1>8

(***************************************************************************)
(* A row as it is shown.                                                   *)
(***************************************************************************)
\* Without the columns that the database added, a row that is shown is the
\* parser's, with or without its raw data.
LEMMA MaskedOfStored ==
  ASSUME NEW fields, "raw_json" \in fields, NEW keys, NEW row, row = [f \in fields |-> row[f]],
         NEW stored, StoredAs(fields, keys, row, stored)
  PROVE  Take(fields, WithoutRaw(stored)) = WithoutRaw(row)
<1>1. CASE view.raw
  <2>1. WithoutRaw(stored) = stored /\ WithoutRaw(row) = row
    BY <1>1 DEF WithoutRaw
  <2> QED
    BY <2>1 DEF Take, StoredAs
<1>2. CASE ~ view.raw
  <2>1. /\ WithoutRaw(stored) = With(stored, "raw_json", Empty)
        /\ WithoutRaw(row) = With(row, "raw_json", Empty)
    BY <1>2 DEF WithoutRaw
  <2>2. /\ \A f \in fields : stored[f] = row[f]
        /\ DOMAIN stored = fields \cup keys /\ DOMAIN row = fields
    BY DEF StoredAs
  <2>3. PICK a, b : a = With(stored, "raw_json", Empty) /\ b = With(row, "raw_json", Empty)
    OBVIOUS
  <2>4. /\ b = [f \in fields |-> b[f]]
        /\ \A f \in fields : b[f] = IF f = "raw_json" THEN Empty ELSE row[f]
        /\ \A f \in fields : a[f] = IF f = "raw_json" THEN Empty ELSE stored[f]
    <3>1. fields \cup {"raw_json"} = fields
      OBVIOUS
    <3> HIDE DEF Empty
    <3> QED
      BY <2>2, <2>3, <3>1 DEF With
  <2>5. \A f \in fields : a[f] = b[f]
    BY <2>2, <2>4
  <2>6. Take(fields, a) = b
    BY <2>4, <2>5 DEF Take
  <2> QED
    BY <2>1, <2>3, <2>6
<1> QED
  BY <1>1, <1>2

LEMMA StoredTaken ==
  ASSUME NEW fields, NEW keys, NEW all, all = fields \cup keys, NEW row, NEW stored,
         StoredAs(fields, keys, row, stored)
  PROVE  StoredAs(fields, keys, row, Take(all, stored))
<1>1. /\ DOMAIN Take(all, stored) = all
      /\ \A f \in all : Take(all, stored)[f] = stored[f]
  BY DEF Take
<1> QED
  BY <1>1 DEF StoredAs

PortSeen(x) == storedPortToResponse(portToProto(PortOfRow(x)))

LEMMA PortShown ==
  ASSUME NEW p \in ParsedRows, NEW i \in DOMAIN p.ports
  PROVE  Take(ParsedPort, PortSeen(Inserted(p).ports[i])) = WithoutRaw(p.ports[i])
<1>1. PICK row, stored : row = p.ports[i] /\ stored = Inserted(p).ports[i]
  OBVIOUS
<1>2. row \in [ParsedPort -> FieldValue] /\ "raw_json" \in ParsedPort
  BY <1>1 DEF ParsedRows, ParsedPort
<1>3. PICK keys : keys = {"id", "log_id", "node_id"} /\ StoredAs(ParsedPort, keys, row, stored)
  BY <1>1, PortIsStored
<1>4. StoredPort = ParsedPort \cup keys
  BY <1>3 DEF StoredPort
<1>5. PICK taken : /\ taken = Take(StoredPort, stored)
                   /\ StoredAs(ParsedPort, keys, row, taken)
  BY <1>3, <1>4, StoredTaken
<1>6. PortSeen(stored) = WithoutRaw(taken)
  BY <1>5, TakenOnce DEF PortSeen, storedPortToResponse, portToProto, PortOfRow
<1>7. Take(ParsedPort, WithoutRaw(taken)) = WithoutRaw(row)
  <2>1. row = [f \in ParsedPort |-> row[f]]
    BY <1>2
  <2> QED
    BY <1>2, <1>5, <2>1, MaskedOfStored
<1> QED
  BY <1>1, <1>6, <1>7

LEMMA PortsSeen ==
  ASSUME NEW seq,
         NEW shown, shown = Mapped(storedPortToResponse, Mapped(portToProto, Mapped(PortOfRow, seq)))
  PROVE  RowsOf(TakeAll(ParsedPort, shown)) = {Take(ParsedPort, PortSeen(x)) : x \in RowsOf(seq)}
<1>1. DOMAIN shown = DOMAIN seq /\ \A i \in DOMAIN seq : shown[i] = PortSeen(seq[i])
  BY DEF Mapped, PortSeen
<1>2. RowsOf(TakeAll(ParsedPort, shown)) = {Take(ParsedPort, shown[i]) : i \in DOMAIN seq}
  BY <1>1 DEF RowsOf, TakeAll
<1>3. {Take(ParsedPort, shown[i]) : i \in DOMAIN seq}
      = {Take(ParsedPort, PortSeen(seq[i])) : i \in DOMAIN seq}
  BY <1>1
<1>4. {Take(ParsedPort, PortSeen(seq[i])) : i \in DOMAIN seq}
      = {Take(ParsedPort, PortSeen(x)) : x \in RowsOf(seq)}
  BY DEF RowsOf
<1> QED
  BY <1>2, <1>3, <1>4

LEMMA SavedPorts ==
  ASSUME NEW p \in ParsedRows, NEW ports, ports = Inserted(p).ports
  PROVE  /\ RowsOf(ports) = {ports[i] : i \in DOMAIN p.ports}
         /\ {Take(ParsedPort, PortSeen(x)) : x \in RowsOf(ports)}
            = {WithoutRaw(y) : y \in RowsOf(p.ports)}
<1>1. RowsOf(ports) = {ports[i] : i \in DOMAIN p.ports}
  BY InsertedTables DEF RowsOf
<1>2. \A i \in DOMAIN p.ports : Take(ParsedPort, PortSeen(ports[i])) = WithoutRaw(p.ports[i])
  BY PortShown
<1> HIDE DEF PortSeen
<1>3. {Take(ParsedPort, PortSeen(x)) : x \in RowsOf(ports)}
      = {Take(ParsedPort, PortSeen(ports[i])) : i \in DOMAIN p.ports}
  BY <1>1
<1>4. {WithoutRaw(y) : y \in RowsOf(p.ports)} = {WithoutRaw(p.ports[i]) : i \in DOMAIN p.ports}
  BY DEF RowsOf
<1>5. {Take(ParsedPort, PortSeen(ports[i])) : i \in DOMAIN p.ports}
      = {WithoutRaw(p.ports[i]) : i \in DOMAIN p.ports}
  BY <1>2
<1>6. {Take(ParsedPort, PortSeen(x)) : x \in RowsOf(ports)}
      = {WithoutRaw(y) : y \in RowsOf(p.ports)}
  BY <1>3, <1>4, <1>5, Zenon
<1> QED
  BY <1>1, <1>6, Zenon

\* Whoever asks for one node, or for its ports, asks for a node of a log that
\* has been saved.
LEMMA ShownOfNode ==
  ASSUME WireInv, NEW q \in OfNode, Shown(q)
  PROVE  /\ Saved /\ view.node \in DOMAIN rows.nodes
         /\ view.body.nodes = Mapped(storedNodeToResponse, RepositoryHas(q, view.node).nodes)
         /\ view.body.ports = Mapped(storedPortToResponse, RepositoryHas(q, view.node).ports)
<1>1. q # "topology" /\ q \notin Lists
  BY DEF OfNode, Lists
<1>2. PICK n, b : /\ n = view.node /\ AnswerTo(q, n, b)
                  /\ view.body.nodes = Mapped(storedNodeToResponse, b.nodes)
                  /\ view.body.ports = Mapped(storedPortToResponse, b.ports)
  BY <1>1, BodyShown
<1>3. b = RepositoryHas(q, n)
  BY <1>1, <1>2 DEF AnswerTo
<1>4. post.at = "done" /\ post.answer = "ok" /\ view.node \in DOMAIN rows.nodes
  BY DEF WireInv, ViewInv, Shown
<1>5. Saved
  BY <1>4 DEF WireInv, PostInv
<1> QED
  BY <1>2, <1>3, <1>4, <1>5

LEMMA PortsListed ==
  ASSUME WireInv, Shown("ports"), view.body.log.status = "parsed"
  PROVE  RowsOf(TakeAll(ParsedPort, view.body.ports))
         = {Masked(q) : q \in RowsOf(post.parsed.ports)}
<1>1. PICK p, n : p = post.parsed /\ n = view.node
  OBVIOUS
<1>2. /\ Saved
      /\ view.body.ports = Mapped(storedPortToResponse, RepositoryHas("ports", n).ports)
  BY <1>1, ShownOfSaved
<1>3. PICK ports : ports = Inserted(p).ports /\ rows.ports = ports
  BY <1>1, <1>2 DEF Saved
<1>4. p \in ParsedRows
  BY <1>1, <1>2, ParsedIsMerged DEF Saved, WellMerged
<1>5. RepositoryHas("ports", n).ports = Mapped(portToProto, Mapped(PortOfRow, ports))
  BY <1>3 DEF RepositoryHas
<1>6. PICK shown : shown = view.body.ports
  OBVIOUS
<1>7. shown = Mapped(storedPortToResponse, Mapped(portToProto, Mapped(PortOfRow, ports)))
  BY <1>2, <1>5, <1>6
<1>8. RowsOf(TakeAll(ParsedPort, shown)) = {Take(ParsedPort, PortSeen(x)) : x \in RowsOf(ports)}
  BY <1>7, PortsSeen
<1> QED
  BY <1>1, <1>3, <1>4, <1>6, <1>8, SavedPorts DEF Masked

LEMMA NodePortsListed ==
  ASSUME WireInv, Shown("nodePorts")
  PROVE  RowsOf(TakeAll(ParsedPort, view.body.ports)) =
           {Masked(q) : q \in {x \in RowsOf(post.parsed.ports) :
                   x["node_guid"] = post.parsed.nodes[view.node]["node_guid"]}}
<1>1. PICK p, n : p = post.parsed /\ n = view.node
  OBVIOUS
<1>2. /\ Saved /\ n \in DOMAIN rows.nodes
      /\ view.body.ports = Mapped(storedPortToResponse, RepositoryHas("nodePorts", n).ports)
  BY <1>1, ShownOfNode DEF OfNode
<1>3. PICK ports : ports = Inserted(p).ports /\ ports = rows.ports
  BY <1>1, <1>2 DEF Saved
<1>4. WellMerged(p) /\ p \in ParsedRows
  <2>1. p \in Parsed
    BY <1>1, <1>2 DEF Saved
  <2> QED
    BY <2>1, ParsedIsMerged DEF WellMerged
<1>5. n \in DOMAIN p.nodes
  BY <1>1, <1>2, <1>4, InsertedTables DEF Saved
<1>6. PICK kept : kept = PortsOfNode(n)
  OBVIOUS
<1>7. RepositoryHas("nodePorts", n).ports = Mapped(portToProto, Mapped(PortOfRow, kept))
  BY <1>6 DEF RepositoryHas
<1>8. PICK shown : shown = view.body.ports
  OBVIOUS
<1>9. shown = Mapped(storedPortToResponse, Mapped(portToProto, Mapped(PortOfRow, kept)))
  BY <1>2, <1>7, <1>8
<1>10. RowsOf(TakeAll(ParsedPort, shown)) = {Take(ParsedPort, PortSeen(x)) : x \in RowsOf(kept)}
  BY <1>9, PortsSeen
<1>11. DOMAIN ports = DOMAIN p.ports /\ Len(ports) = Len(p.ports) /\ Len(p.ports) \in Nat
       /\ DOMAIN p.ports = 1 .. Len(p.ports)
  <2>1. Len(p.ports) \in Nat /\ DOMAIN p.ports = 1 .. Len(p.ports)
    BY <1>4 DEF ParsedRows
  <2> QED
    BY <1>3, <1>4, <2>1, InsertedTables
<1>12. RowsOf(kept) = {x \in RowsOf(ports) : x["node_id"] = n}
  <2>1. Len(ports) \in Nat /\ DOMAIN ports = 1 .. Len(ports)
    BY <1>11
  <2> QED
    BY <1>3, <1>6, <2>1, PortsOfNodeRows
<1>13. \A i \in DOMAIN p.ports :
         ports[i]["node_id"] = n <=> p.ports[i]["node_guid"] = p.nodes[n]["node_guid"]
  <2> SUFFICES ASSUME NEW i \in DOMAIN p.ports
               PROVE  ports[i]["node_id"] = n
                      <=> p.ports[i]["node_guid"] = p.nodes[n]["node_guid"]
    OBVIOUS
  <2>1. PICK guid : guid = p.ports[i]["node_guid"]
    OBVIOUS
  <2>2. \E j \in DOMAIN p.nodes : p.nodes[j]["node_guid"] = guid
    BY <1>4, <2>1 DEF WellMerged
  <2>3. ports[i]["node_id"] = NodeIDOf(p, guid)
    BY <1>3, <1>4, <2>1, PortIsStored
  <2>4. NodeIDOf(p, guid) = n <=> p.nodes[n]["node_guid"] = guid
    BY <1>4, <1>5, <2>2, NodeIDIsName
  <2> QED
    BY <2>1, <2>3, <2>4
<1>14. \A i \in DOMAIN p.ports : Take(ParsedPort, PortSeen(ports[i])) = WithoutRaw(p.ports[i])
  BY <1>3, <1>4, PortShown
<1> HIDE DEF PortSeen
<1>15. {Take(ParsedPort, PortSeen(x)) : x \in RowsOf(kept)}
       = {WithoutRaw(y) : y \in {x \in RowsOf(p.ports) :
                                   x["node_guid"] = p.nodes[n]["node_guid"]}}
  <2>1. RowsOf(kept) = {ports[i] : i \in {j \in DOMAIN p.ports : ports[j]["node_id"] = n}}
    BY <1>11, <1>12 DEF RowsOf
  <2>2. {x \in RowsOf(p.ports) : x["node_guid"] = p.nodes[n]["node_guid"]}
        = {p.ports[i] : i \in {j \in DOMAIN p.ports : ports[j]["node_id"] = n}}
    BY <1>13 DEF RowsOf
  <2> QED
    BY <1>14, <2>1, <2>2
<1> QED
  BY <1>1, <1>8, <1>10, <1>15 DEF Masked

(***************************************************************************)
(* A node and its info.                                                    *)
(***************************************************************************)
\* The info in the tables is the one that the parser found for the node.
LEMMA InfoMatches ==
  ASSUME Saved, NEW n \in DOMAIN post.parsed.nodes, NEW row, row["id"] = n,
         NEW guid, guid = post.parsed.nodes[n]["node_guid"]
  PROVE  \/ InfoOf(row) = <<>> /\ InfoFound(guid) = <<>>
         \/ \E k \in DOMAIN post.parsed.infos :
              /\ InfoOf(row) = <<Take(StoredInfo, rows.infos[k])>>
              /\ InfoFound(guid) = <<post.parsed.infos[k]>>
<1>0. PICK p, infos : p = post.parsed /\ infos = Inserted(p).infos /\ infos = rows.infos
  BY DEF Saved
<1> DEFINE stored == {i \in DOMAIN infos : infos[i]["node_id"] = row["id"]}
           found == {x \in RowsOf(p.infos) : x["node_guid"] = guid}
<1>1. n \in DOMAIN p.nodes /\ guid = p.nodes[n]["node_guid"] /\ WellMerged(p) /\ p \in ParsedRows
  <2>1. p \in Parsed
    BY <1>0 DEF Saved
  <2> QED
    BY <1>0, <2>1, ParsedIsMerged DEF WellMerged
<1>2. DOMAIN infos = DOMAIN p.infos
  BY <1>0, <1>1, InsertedTables
<1>3. \A i \in DOMAIN p.infos : infos[i]["node_id"] = n <=> p.infos[i]["node_guid"] = guid
  <2> SUFFICES ASSUME NEW i \in DOMAIN p.infos
               PROVE  infos[i]["node_id"] = n <=> p.infos[i]["node_guid"] = guid
    OBVIOUS
  <2>1. PICK g : g = p.infos[i]["node_guid"]
    OBVIOUS
  <2>2. \E j \in DOMAIN p.nodes : p.nodes[j]["node_guid"] = g
    BY <1>1, <2>1 DEF WellMerged
  <2>3. infos[i]["node_id"] = NodeIDOf(p, g)
    BY <1>0, <1>1, <2>1, InfoIsStored
  <2>4. NodeIDOf(p, g) = n <=> p.nodes[n]["node_guid"] = g
    BY <1>1, <2>2, NodeIDIsName
  <2> QED
    BY <1>1, <2>1, <2>3, <2>4
<1>4. \A i, j \in DOMAIN p.infos : p.infos[i]["node_guid"] = p.infos[j]["node_guid"] => i = j
  BY <1>1 DEF WellMerged
<1>5. InfoOf(row) = IF stored = {} THEN <<>>
                    ELSE <<Take(StoredInfo, infos[CHOOSE i \in stored : TRUE])>>
  BY <1>0 DEF InfoOf
<1>6. InfoFound(guid) = IF found = {} THEN <<>> ELSE <<CHOOSE x \in found : TRUE>>
  BY <1>0 DEF InfoFound
<1>7. stored = {i \in DOMAIN p.infos : p.infos[i]["node_guid"] = guid}
  BY <1>2, <1>3
<1>8. found = {p.infos[i] : i \in stored}
  BY <1>7 DEF RowsOf
<1>9. CASE stored = {}
  BY <1>5, <1>6, <1>8, <1>9
<1>10. CASE stored # {}
  <2>1. PICK k : k \in stored
    BY <1>10
  <2>2. k \in DOMAIN p.infos /\ stored = {k}
    BY <1>4, <1>7, <2>1
  <2>3. found = {p.infos[k]}
    BY <1>8, <2>2
  <2> HIDE DEF stored, found
  <2>4. (CHOOSE i \in stored : TRUE) = k
    BY <2>2
  <2>5. (CHOOSE x \in found : TRUE) = p.infos[k]
    BY <2>3
  <2>6. /\ InfoOf(row) = <<Take(StoredInfo, infos[k])>>
        /\ InfoFound(guid) = <<p.infos[k]>>
    BY <1>5, <1>6, <2>2, <2>3, <2>4, <2>5
  <2> QED
    BY <1>0, <2>2, <2>6
<1> QED
  BY <1>0, <1>9, <1>10

LEMMA InfoShown ==
  ASSUME NEW p \in ParsedRows, NEW k \in DOMAIN p.infos, NEW stored,
         stored = Take(StoredInfo, Inserted(p).infos[k])
  PROVE  TakeAll(ParsedInfo, Mapped(WithoutRaw, TakeAll(StoredInfo, <<stored>>)))
         = Mapped(WithoutRaw, <<p.infos[k]>>)
<1>1. PICK row, s : row = p.infos[k] /\ s = Inserted(p).infos[k]
  OBVIOUS
<1>2. row \in [ParsedInfo -> FieldValue] /\ "raw_json" \in ParsedInfo
  BY <1>1 DEF ParsedRows, ParsedInfo
<1>3. PICK keys : keys = {"id", "node_id"} /\ StoredAs(ParsedInfo, keys, row, s)
  BY <1>1, InfoIsStored
<1>4. StoredInfo = ParsedInfo \cup keys
  BY <1>3 DEF StoredInfo
<1>5. StoredAs(ParsedInfo, keys, row, stored)
  BY <1>1, <1>3, <1>4, StoredTaken
<1>6. Take(ParsedInfo, WithoutRaw(stored)) = WithoutRaw(row)
  <2>1. row = [f \in ParsedInfo |-> row[f]]
    BY <1>2
  <2> QED
    BY <1>2, <1>5, <2>1, MaskedOfStored
<1>7. Take(StoredInfo, stored) = stored
  BY <1>1, TakenOnce
<1>8. TakeAll(StoredInfo, <<stored>>) = <<stored>>
  BY <1>7 DEF TakeAll
<1>9. Mapped(WithoutRaw, <<stored>>) = <<WithoutRaw(stored)>>
      /\ Mapped(WithoutRaw, <<row>>) = <<WithoutRaw(row)>>
  BY DEF Mapped
<1>10. PICK y : y = WithoutRaw(stored)
  OBVIOUS
<1>11. TakeAll(ParsedInfo, <<y>>) = <<Take(ParsedInfo, y)>>
  BY DEF TakeAll
<1> QED
  BY <1>1, <1>6, <1>8, <1>9, <1>10, <1>11

NodeSeen(x) == storedNodeToResponse(nodeToProto(NodeWithInfo(x)))

\* Of a node that is shown, what the parser knows.
BackOf(n) == With(Take(ParsedNode, n), "info", TakeAll(ParsedInfo, n["info"]))

FoundNode(n) == With(Masked(n), "info", Mapped(Masked, InfoFound(n["node_guid"])))

LEMMA InfoIsNew == "info" \notin StoredNode /\ "info" \notin ParsedNode /\ "raw_json" \in ParsedNode
BY DEF StoredNode, ParsedNode

\* The message of a node has the fields of its row, and its info.
LEMMA NodePacked ==
  ASSUME NEW x, NEW infos, infos = InfoOf(x), NEW m, m = nodeToProto(NodeWithInfo(x))
  PROVE  /\ DOMAIN m = StoredNode \cup {"info"}
         /\ m["info"] = TakeAll(StoredInfo, infos)
         /\ \A f \in StoredNode : m[f] = x[f]
<1>1. PICK t : t = Take(StoredNode, x)
  OBVIOUS
<1>2. DOMAIN t = StoredNode /\ \A f \in StoredNode : t[f] = x[f]
  BY <1>1 DEF Take
<1>3. PICK w : w = With(t, "info", infos)
  OBVIOUS
<1>4. w["info"] = infos /\ \A f \in StoredNode : w[f] = x[f]
  BY <1>2, <1>3, InfoIsNew DEF With
<1>5. m = NodeMessage(w, infos)
  BY <1>1, <1>3, <1>4 DEF nodeToProto, NodeWithInfo, NodeMessage
<1> QED
  BY <1>4, <1>5, NodeMessageFields

LEMMA NodeShown ==
  ASSUME Saved, NEW p, p = post.parsed, NEW n \in DOMAIN p.nodes
  PROVE  BackOf(NodeSeen(rows.nodes[n])) = FoundNode(p.nodes[n])
<1>1. WellMerged(p) /\ p \in ParsedRows
  <2>1. p \in Parsed
    BY DEF Saved
  <2> QED
    BY <2>1, ParsedIsMerged DEF WellMerged
<1>2. PICK x, row, guid : /\ x = Inserted(p).nodes[n] /\ x = rows.nodes[n]
                          /\ row = p.nodes[n] /\ guid = row["node_guid"]
  BY DEF Saved
<1>3. PICK infos, m : infos = InfoOf(x) /\ m = nodeToProto(NodeWithInfo(x))
  OBVIOUS
<1>4. /\ DOMAIN m = StoredNode \cup {"info"} /\ m["info"] = TakeAll(StoredInfo, infos)
      /\ \A f \in StoredNode : m[f] = x[f]
  BY <1>3, NodePacked
<1>5. /\ DOMAIN x = ParsedNode \cup {"id", "log_id"} /\ \A f \in ParsedNode : x[f] = row[f]
      /\ x["id"] = n
  <2>1. /\ StoredAs(ParsedNode, {"id", "log_id"}, p.nodes[n], Inserted(p).nodes[n])
        /\ Inserted(p).nodes[n]["id"] = n
    BY <1>1, NodeIsStored
  <2>2. StoredAs(ParsedNode, {"id", "log_id"}, row, x) /\ x["id"] = n
    BY <1>2, <2>1
  <2> QED
    BY <2>2 DEF StoredAs
<1>6. PICK keys : /\ keys = {"id", "log_id", "info"}
                  /\ StoredAs(ParsedNode, keys, row, m)
  <2>1. StoredNode \cup {"info"} = ParsedNode \cup {"id", "log_id", "info"}
    BY DEF StoredNode
  <2>2. \A f \in ParsedNode : f \in StoredNode
    BY DEF StoredNode
  <2> QED
    BY <1>4, <1>5, <2>1, <2>2 DEF StoredAs
<1>7. PICK masked : masked = WithoutRaw(m)
  OBVIOUS
<1>8. Take(ParsedNode, masked) = WithoutRaw(row)
  <2>1. row = [f \in ParsedNode |-> row[f]]
    BY <1>1, <1>2 DEF ParsedRows
  <2> QED
    BY <1>6, <1>7, <2>1, InfoIsNew, MaskedOfStored
<1>9. \A f \in ParsedNode : f \in DOMAIN masked
  <2>1. CASE view.raw
    BY <1>6, <1>7, <2>1 DEF WithoutRaw, StoredAs
  <2>2. CASE ~ view.raw
    BY <1>6, <1>7, <2>2 DEF WithoutRaw, StoredAs, With
  <2> QED
    BY <2>1, <2>2
<1>10. PICK shown, s : /\ shown = Mapped(WithoutRaw, TakeAll(StoredInfo, infos))
                       /\ s = With(masked, "info", shown)
  OBVIOUS
<1>11. NodeSeen(x) = s
  BY <1>3, <1>4, <1>7, <1>10 DEF NodeSeen, storedNodeToResponse
<1>12. s["info"] = shown /\ \A f \in ParsedNode : s[f] = masked[f]
  BY <1>9, <1>10, InfoIsNew DEF With
<1>13. Take(ParsedNode, s) = WithoutRaw(row)
  BY <1>8, <1>12 DEF Take
<1>14. PICK found : found = InfoFound(guid)
  OBVIOUS
<1>15. TakeAll(ParsedInfo, shown) = Mapped(WithoutRaw, found)
  <2>1. PICK all : all = Inserted(p).infos /\ all = rows.infos
    BY DEF Saved
  <2>2. \/ infos = <<>> /\ found = <<>>
        \/ \E k \in DOMAIN p.infos : /\ infos = <<Take(StoredInfo, all[k])>>
                                     /\ found = <<p.infos[k]>>
    BY <1>2, <1>3, <1>5, <1>14, <2>1, InfoMatches
  <2>3. CASE infos = <<>> /\ found = <<>>
    BY <1>10, <2>3 DEF TakeAll, Mapped
  <2>4. ASSUME NEW k \in DOMAIN p.infos, infos = <<Take(StoredInfo, all[k])>>,
               found = <<p.infos[k]>>
        PROVE  TakeAll(ParsedInfo, shown) = Mapped(WithoutRaw, found)
    <3>1. PICK stored : stored = Take(StoredInfo, all[k])
      OBVIOUS
    <3> QED
      BY <1>1, <1>10, <2>1, <2>4, <3>1, InfoShown
  <2> QED
    BY <2>2, <2>3, <2>4
<1>16. BackOf(s) = With(WithoutRaw(row), "info", Mapped(WithoutRaw, found))
  BY <1>12, <1>13, <1>15 DEF BackOf
<1>17. FoundNode(row) = With(WithoutRaw(row), "info", Mapped(WithoutRaw, found))
  BY <1>2, <1>14 DEF FoundNode, Masked, Mapped
<1> QED
  BY <1>2, <1>11, <1>16, <1>17

LEMMA NodesListed ==
  ASSUME WireInv, Shown("nodes"), view.body.log.status = "parsed"
  PROVE  {BackOf(n) : n \in RowsOf(view.body.nodes)}
         = {FoundNode(n) : n \in RowsOf(post.parsed.nodes)}
<1>1. PICK p, n, nodes : p = post.parsed /\ n = view.node /\ nodes = rows.nodes
  OBVIOUS
<1>2. /\ Saved
      /\ view.body.nodes = Mapped(storedNodeToResponse, RepositoryHas("nodes", n).nodes)
  BY <1>1, ShownOfSaved
<1>3. DOMAIN nodes = DOMAIN p.nodes
  <2>1. p \in ParsedRows
    BY <1>1, <1>2, ParsedIsMerged DEF Saved, WellMerged
  <2> QED
    BY <1>1, <1>2, <2>1, InsertedTables DEF Saved
<1>4. RepositoryHas("nodes", n).nodes = Mapped(nodeToProto, Mapped(NodeWithInfo, nodes))
  BY <1>1 DEF RepositoryHas
<1>5. PICK shown : shown = view.body.nodes
  OBVIOUS
<1>6. shown = Mapped(storedNodeToResponse, Mapped(nodeToProto, Mapped(NodeWithInfo, nodes)))
  BY <1>2, <1>4, <1>5
<1>7. DOMAIN shown = DOMAIN p.nodes /\ \A i \in DOMAIN p.nodes : shown[i] = NodeSeen(nodes[i])
  BY <1>3, <1>6 DEF Mapped, NodeSeen
<1>8. \A i \in DOMAIN p.nodes : BackOf(shown[i]) = FoundNode(p.nodes[i])
  BY <1>1, <1>2, <1>7, NodeShown
<1> HIDE DEF BackOf, FoundNode
<1>9. {BackOf(x) : x \in RowsOf(shown)} = {BackOf(shown[i]) : i \in DOMAIN p.nodes}
  BY <1>7 DEF RowsOf
<1>10. {FoundNode(x) : x \in RowsOf(p.nodes)} = {FoundNode(p.nodes[i]) : i \in DOMAIN p.nodes}
  BY DEF RowsOf
<1>11. {BackOf(shown[i]) : i \in DOMAIN p.nodes} = {FoundNode(p.nodes[i]) : i \in DOMAIN p.nodes}
  BY <1>8
<1>12. {BackOf(x) : x \in RowsOf(shown)} = {FoundNode(x) : x \in RowsOf(p.nodes)}
  BY <1>9, <1>10, <1>11, Zenon
<1> QED
  BY <1>1, <1>5, <1>12, Zenon

LEMMA NodeListed ==
  ASSUME WireInv, Shown("node")
  PROVE  BackOf(view.body.nodes[1]) = FoundNode(post.parsed.nodes[view.node])
<1>1. PICK p, n : p = post.parsed /\ n = view.node
  OBVIOUS
<1>2. /\ Saved /\ n \in DOMAIN rows.nodes
      /\ view.body.nodes = Mapped(storedNodeToResponse, RepositoryHas("node", n).nodes)
  BY <1>1, ShownOfNode DEF OfNode
<1>3. n \in DOMAIN p.nodes
  <2>1. p \in ParsedRows
    BY <1>1, <1>2, ParsedIsMerged DEF Saved, WellMerged
  <2> QED
    BY <1>1, <1>2, <2>1, InsertedTables DEF Saved
<1>4. PICK x, w : x = rows.nodes[n] /\ w = NodeWithInfo(x)
  OBVIOUS
<1>5. RepositoryHas("node", n).nodes = Mapped(nodeToProto, <<w>>)
  BY <1>4 DEF RepositoryHas, GetNode, NodeWithInfo
<1>6. PICK one : one = <<w>>
  OBVIOUS
<1>7. Mapped(storedNodeToResponse, Mapped(nodeToProto, one))[1] = NodeSeen(x)
  <2>1. 1 \in DOMAIN one /\ one[1] = w
    BY <1>6
  <2> QED
    BY <1>4, <2>1 DEF Mapped, NodeSeen
<1>8. view.body.nodes[1] = NodeSeen(x)
  BY <1>2, <1>5, <1>6, <1>7
<1> QED
  BY <1>1, <1>2, <1>3, <1>4, <1>8, NodeShown

LEMMA ListsShown == WireInv => ListsShowWhatWasParsed
<1> SUFFICES ASSUME WireInv PROVE ListsShowWhatWasParsed
  OBVIOUS
<1>1. Shown("nodes") /\ view.body.log.status = "parsed" =>
        {BackOf(n) : n \in RowsOf(view.body.nodes)}
        = {FoundNode(n) : n \in RowsOf(post.parsed.nodes)}
  BY NodesListed
<1>2. Shown("ports") /\ view.body.log.status = "parsed" =>
        RowsOf(TakeAll(ParsedPort, view.body.ports))
        = {Masked(q) : q \in RowsOf(post.parsed.ports)}
  BY PortsListed
<1>3. Shown("node") =>
        BackOf(view.body.nodes[1]) = FoundNode(post.parsed.nodes[view.node])
  BY NodeListed
<1>4. Shown("nodePorts") =>
        RowsOf(TakeAll(ParsedPort, view.body.ports)) =
           {Masked(q) : q \in {x \in RowsOf(post.parsed.ports) :
                   x["node_guid"] = post.parsed.nodes[view.node]["node_guid"]}}
  BY NodePortsListed
<1> QED
  BY <1>1, <1>2, <1>3, <1>4 DEF ListsShowWhatWasParsed, BackOf, FoundNode

(***************************************************************************)
(* The topology.                                                           *)
(***************************************************************************)
TopologySource == {"id", "log_id", "node_guid", "node_desc", "node_type", "node_kind", "num_ports"}
TopologyInfo == {"serial_number", "product_name"}
TopologyPort == {"id", "log_id", "node_id", "node_guid", "port_guid", "port_num", "port_state",
                 "link_width_active", "link_speed_active"}

LEMMA TopologyFields ==
  /\ TopologySource \subseteq StoredNode /\ "info" \notin TopologySource
  /\ TopologyInfo \subseteq StoredInfo /\ TopologyInfo \subseteq ParsedInfo
  /\ TopologyPort \subseteq StoredPort
  /\ TopologyNode \cap StoredNode = TopologySource \ {"num_ports"}
  /\ TopologyNode = (TopologySource \ {"num_ports"})
                      \cup {"declared_ports_count", "parsed_ports_count"} \cup TopologyInfo
BY DEF TopologySource, TopologyInfo, TopologyPort, TopologyNode, StoredNode, StoredInfo, StoredPort,
       ParsedNode, ParsedInfo, ParsedPort

\* The node of a topology says what the node's row, its info and the ports say.
LEMMA TopologyNodeShows ==
  ASSUME NEW x, NEW m, m = nodeToProto(NodeWithInfo(x)), NEW ports, NEW info,
         info = TakeAll(TopologyInfo, TakeAll(StoredInfo, InfoOf(x))), NEW t,
         t = TopologyNodeOf(topologyNodeFromProto(m), ports)
  PROVE  /\ \A f \in TopologyNode \cap StoredNode : t[f] = x[f]
         /\ t["declared_ports_count"] = x["num_ports"]
         /\ t["parsed_ports_count"] =
              Cardinality({j \in DOMAIN ports : ports[j]["node_id"] = x["id"]})
         /\ \A f \in TopologyInfo : t[f] = IF info = <<>> THEN Empty ELSE info[1][f]
<1>1. PICK infos : infos = InfoOf(x)
  OBVIOUS
<1>2. m["info"] = TakeAll(StoredInfo, infos) /\ \A f \in StoredNode : m[f] = x[f]
  BY <1>1, NodePacked
<1>3. PICK s, k : /\ s = Take(TopologySource, m) /\ k = With(s, "info", info)
                  /\ k = topologyNodeFromProto(m)
  BY <1>1, <1>2 DEF topologyNodeFromProto, TopologySource, TopologyInfo
<1>4. DOMAIN s = TopologySource /\ \A f \in TopologySource : s[f] = m[f]
  BY <1>3 DEF Take
<1>5. k["info"] = info /\ \A f \in TopologySource : k[f] = x[f]
  BY <1>2, <1>3, <1>4, TopologyFields DEF With
<1>6. t = [f \in TopologyNode |->
             CASE f = "declared_ports_count" -> k["num_ports"]
               [] f = "parsed_ports_count" ->
                    Cardinality({i \in DOMAIN ports : ports[i]["node_id"] = k["id"]})
               [] f \in {"serial_number", "product_name"} ->
                    IF k["info"] = <<>> THEN Empty ELSE k["info"][1][f]
               [] OTHER -> k[f]]
  BY <1>3 DEF TopologyNodeOf
<1>7. PICK count : count = Cardinality({i \in DOMAIN ports : ports[i]["node_id"] = k["id"]})
  OBVIOUS
<1>8. PICK infoOf : infoOf = [f \in TopologyInfo |-> IF info = <<>> THEN Empty ELSE info[1][f]]
  OBVIOUS
<1> HIDE DEF Empty
<1>9. \A f \in TopologyNode :
        t[f] = CASE f = "declared_ports_count" -> k["num_ports"]
                 [] f = "parsed_ports_count" -> count
                 [] f \in TopologyInfo -> infoOf[f]
                 [] OTHER -> k[f]
  BY <1>5, <1>6, <1>7, <1>8 DEF TopologyInfo
<1>10. /\ "num_ports" \in TopologySource /\ "id" \in TopologySource
       /\ "declared_ports_count" \in TopologyNode /\ "parsed_ports_count" \in TopologyNode
       /\ TopologyInfo \subseteq TopologyNode
       /\ "parsed_ports_count" # "declared_ports_count"
       /\ "declared_ports_count" \notin TopologyInfo \cup StoredNode
       /\ "parsed_ports_count" \notin TopologyInfo \cup StoredNode
       /\ TopologyInfo \cap StoredNode = {}
  BY DEF TopologySource, TopologyNode, TopologyInfo, StoredNode, ParsedNode
<1>11. t["declared_ports_count"] = x["num_ports"] /\ t["parsed_ports_count"] = count
  BY <1>5, <1>9, <1>10
<1>12. \A f \in TopologyInfo : t[f] = infoOf[f]
  BY <1>9, <1>10
<1>13. \A f \in TopologyNode \cap StoredNode : t[f] = x[f]
  <2> SUFFICES ASSUME NEW f \in TopologyNode \cap StoredNode PROVE t[f] = x[f]
    OBVIOUS
  <2>1. f \in TopologySource
    BY TopologyFields
  <2>2. t[f] = k[f]
    BY <1>9, <1>10
  <2> QED
    BY <1>5, <2>1, <2>2
<1>14. k["id"] = x["id"]
  BY <1>5, <1>10
<1> QED
  BY <1>7, <1>8, <1>11, <1>12, <1>13, <1>14

LEMMA SameNumber ==
  ASSUME NEW seq, NEW N \in Nat, DOMAIN seq = 1 .. N,
         \A i, j \in DOMAIN seq : seq[i] = seq[j] => i = j, NEW S, S \subseteq DOMAIN seq
  PROVE  Cardinality({seq[i] : i \in S}) = Cardinality(S)
<1> DEFINE T == {seq[i] : i \in S}
           h == [i \in S |-> seq[i]]
<1>1. IsFiniteSet(S)
  <2>1. IsFiniteSet(1 .. N)
    BY FS_Interval
  <2> QED
    BY <2>1, FS_Subset
<1>2. h \in Bijection(S, T)
  BY DEF Bijection, Injection, Surjection, IsInjective
<1>3. ExistsBijection(S, T)
  BY <1>2 DEF ExistsBijection
<1> HIDE DEF T, h
<1>4. Cardinality(T) = Cardinality(S)
  BY <1>1, <1>3, FS_Bijection
<1> QED
  BY <1>4 DEF T

\* The ports that a topology counts for a node are those the parser found.
LEMMA PortsCounted ==
  ASSUME NEW p, WellMerged(p), \A i, j \in DOMAIN p.ports : p.ports[i] = p.ports[j] => i = j,
         NEW n \in DOMAIN p.nodes, NEW ports, DOMAIN ports = DOMAIN p.ports,
         \A i \in DOMAIN p.ports : ports[i]["node_id"] = NodeIDOf(p, p.ports[i]["node_guid"])
  PROVE  Cardinality({i \in DOMAIN ports : ports[i]["node_id"] = n})
         = Cardinality({q \in RowsOf(p.ports) : q["node_guid"] = p.nodes[n]["node_guid"]})
<1> DEFINE S == {i \in DOMAIN ports : ports[i]["node_id"] = n}
<1>1. PICK N \in Nat : DOMAIN p.ports = 1 .. N
  BY DEF WellMerged, ParsedRows
<1>2. \A i \in DOMAIN p.ports :
        ports[i]["node_id"] = n <=> p.ports[i]["node_guid"] = p.nodes[n]["node_guid"]
  <2> SUFFICES ASSUME NEW i \in DOMAIN p.ports
               PROVE  ports[i]["node_id"] = n
                      <=> p.ports[i]["node_guid"] = p.nodes[n]["node_guid"]
    OBVIOUS
  <2>1. PICK guid : guid = p.ports[i]["node_guid"]
    OBVIOUS
  <2>2. \E j \in DOMAIN p.nodes : p.nodes[j]["node_guid"] = guid
    BY <2>1 DEF WellMerged
  <2>3. NodeIDOf(p, guid) = n <=> p.nodes[n]["node_guid"] = guid
    BY <2>2, NodeIDIsName
  <2> QED
    BY <2>1, <2>3
<1>3. {q \in RowsOf(p.ports) : q["node_guid"] = p.nodes[n]["node_guid"]} = {p.ports[i] : i \in S}
  BY <1>2 DEF RowsOf
<1>4. S \subseteq DOMAIN p.ports
  OBVIOUS
<1> HIDE DEF S
<1>5. Cardinality({p.ports[i] : i \in S}) = Cardinality(S)
  BY <1>1, <1>4, SameNumber
<1> QED
  BY <1>3, <1>5 DEF S

\* What the topology service gets of the rows.
LEMMA TopologyReceived ==
  ASSUME NEW n, NEW c, c = ForTopology(RepositoryHas("topology", n)), NEW nodes, nodes = rows.nodes,
         NEW ports, ports = rows.ports
  PROVE  /\ DOMAIN c.nodes = DOMAIN nodes /\ DOMAIN c.ports = DOMAIN ports
         /\ \A i \in DOMAIN nodes :
              c.nodes[i] = topologyNodeFromProto(nodeToProto(NodeWithInfo(nodes[i])))
         /\ \A i \in DOMAIN ports : \A f \in TopologyPort : c.ports[i][f] = ports[i][f]
<1>1. PICK b : b = RepositoryHas("topology", n)
  OBVIOUS
<1>2. /\ b.nodes = Mapped(nodeToProto, Mapped(NodeWithInfo, nodes))
      /\ b.ports = Mapped(portToProto, Mapped(PortOfRow, ports))
  BY <1>1 DEF RepositoryHas
<1>3. /\ c.nodes = Mapped(topologyNodeFromProto, b.nodes)
      /\ c.ports = Mapped(topologyPortFromProto, b.ports)
  BY <1>1 DEF ForTopology
<1>4. /\ DOMAIN b.nodes = DOMAIN nodes
      /\ \A i \in DOMAIN nodes : b.nodes[i] = nodeToProto(NodeWithInfo(nodes[i]))
      /\ DOMAIN b.ports = DOMAIN ports
      /\ \A i \in DOMAIN ports : b.ports[i] = portToProto(PortOfRow(ports[i]))
  BY <1>2 DEF Mapped
<1>5. /\ DOMAIN c.nodes = DOMAIN nodes
      /\ \A i \in DOMAIN nodes :
           c.nodes[i] = topologyNodeFromProto(nodeToProto(NodeWithInfo(nodes[i])))
      /\ DOMAIN c.ports = DOMAIN ports
      /\ \A i \in DOMAIN ports :
           c.ports[i] = topologyPortFromProto(portToProto(PortOfRow(ports[i])))
  BY <1>3, <1>4 DEF Mapped
<1>6. ASSUME NEW x, NEW f \in TopologyPort
      PROVE  topologyPortFromProto(portToProto(PortOfRow(x)))[f] = x[f]
  <2>1. PICK y : y = portToProto(PortOfRow(x))
    OBVIOUS
  <2>2. f \in StoredPort
    BY TopologyFields
  <2>3. y[f] = x[f]
    BY <2>1, <2>2 DEF portToProto, PortOfRow, Take
  <2>4. topologyPortFromProto(y) = Take(TopologyPort, y)
    BY DEF topologyPortFromProto, TopologyPort
  <2>5. Take(TopologyPort, y)[f] = y[f]
    BY DEF Take
  <2> QED
    BY <2>1, <2>3, <2>4, <2>5
<1>7. \A i \in DOMAIN ports : \A f \in TopologyPort : c.ports[i][f] = ports[i][f]
  BY <1>5, <1>6
<1> QED
  BY <1>5, <1>7

LEMMA TopologyInfoShown ==
  ASSUME Saved, NEW n \in DOMAIN post.parsed.nodes, NEW x, x["id"] = n,
         NEW guid, guid = post.parsed.nodes[n]["node_guid"],
         NEW info, info = TakeAll(TopologyInfo, TakeAll(StoredInfo, InfoOf(x))),
         NEW f \in TopologyInfo
  PROVE  (IF info = <<>> THEN Empty ELSE info[1][f])
         = (IF InfoFound(guid) = <<>> THEN Empty ELSE InfoFound(guid)[1][f])
<1>1. PICK p, all : p = post.parsed /\ all = rows.infos /\ all = Inserted(p).infos
  BY DEF Saved
<1>2. p \in ParsedRows
  <2>1. p \in Parsed
    BY <1>1 DEF Saved
  <2> QED
    BY <2>1, ParsedIsMerged DEF WellMerged
<1>3. PICK infos, found : infos = InfoOf(x) /\ found = InfoFound(guid)
  OBVIOUS
<1>4. \/ infos = <<>> /\ found = <<>>
      \/ \E k \in DOMAIN p.infos : /\ infos = <<Take(StoredInfo, all[k])>>
                                   /\ found = <<p.infos[k]>>
  BY <1>1, <1>3, InfoMatches
<1>5. CASE infos = <<>> /\ found = <<>>
  <2>1. info = <<>>
    BY <1>3, <1>5 DEF TakeAll
  <2> QED
    BY <1>3, <1>5, <2>1
<1>6. ASSUME NEW k \in DOMAIN p.infos, infos = <<Take(StoredInfo, all[k])>>,
             found = <<p.infos[k]>>
      PROVE  info # <<>> /\ found # <<>> /\ info[1][f] = found[1][f]
  <2>1. PICK y, z, w : /\ y = Take(StoredInfo, all[k]) /\ z = Take(StoredInfo, y)
                       /\ w = Take(TopologyInfo, z)
    OBVIOUS
  <2>2. f \in StoredInfo /\ f \in ParsedInfo
    BY TopologyFields
  <2>3. y[f] = all[k][f] /\ z[f] = y[f] /\ w[f] = z[f]
    BY <2>1, <2>2 DEF Take
  <2>4. all[k][f] = p.infos[k][f]
    <3>1. StoredAs(ParsedInfo, {"id", "node_id"}, p.infos[k], all[k])
      BY <1>1, <1>2, InfoIsStored
    <3> QED
      BY <2>2, <3>1 DEF StoredAs
  <2>5. TakeAll(StoredInfo, infos) = <<z>>
    BY <1>6, <2>1 DEF TakeAll
  <2>6. info = <<w>>
    BY <1>3, <2>1, <2>5 DEF TakeAll
  <2> QED
    BY <1>6, <2>3, <2>4, <2>6
<1> QED
  BY <1>3, <1>4, <1>5, <1>6

LEMMA EdgesOfPorts ==
  ASSUME NEW ports, NEW edges \in Edges(ports), NEW e \in edges
  PROVE  \E i, j \in DOMAIN ports : e = EdgeOf(ports[i], ports[j])
BY DEF Edges

LEMMA EdgeShown ==
  ASSUME NEW n, NEW c, c = ForTopology(RepositoryHas("topology", n)),
         NEW edges \in Edges(c.ports), NEW e \in edges
  PROVE  \E p, q \in RowsOf(rows.ports) :
         /\ p["node_id"] = e.source_node_id /\ p["node_guid"] = e.source_node_guid
         /\ p["port_num"] = e.source_port_num /\ p["port_guid"] = e.source_port_guid
         /\ q["node_id"] = e.target_node_id /\ q["node_guid"] = e.target_node_guid
         /\ q["port_num"] = e.target_port_num /\ q["port_guid"] = e.target_port_guid
<1>1. PICK ports : ports = rows.ports
  OBVIOUS
<1>2. /\ DOMAIN c.ports = DOMAIN ports
      /\ \A i \in DOMAIN ports : \A f \in TopologyPort : c.ports[i][f] = ports[i][f]
  BY <1>1, TopologyReceived
<1>3. PICK i, j \in DOMAIN ports : e = EdgeOf(c.ports[i], c.ports[j])
  BY <1>2, EdgesOfPorts
<1>4. {"node_id", "node_guid", "port_num", "port_guid"} \subseteq TopologyPort
  BY DEF TopologyPort
<1>5. PICK p, q \in RowsOf(ports) : p = ports[i] /\ q = ports[j]
  BY DEF RowsOf
<1>6. /\ e.source_node_id = p["node_id"] /\ e.source_node_guid = p["node_guid"]
      /\ e.source_port_num = p["port_num"] /\ e.source_port_guid = p["port_guid"]
      /\ e.target_node_id = q["node_id"] /\ e.target_node_guid = q["node_guid"]
      /\ e.target_port_num = q["port_num"] /\ e.target_port_guid = q["port_guid"]
  BY <1>2, <1>3, <1>4, <1>5 DEF EdgeOf
<1> QED
  BY <1>1, <1>5, <1>6

LEMMA TopologyShown == WireInv => TopologyShowsTheSame
<1> SUFFICES ASSUME WireInv, Shown("topology") PROVE TopologyShowsTheSame
  BY DEF TopologyShowsTheSame
<1>1. TopologyStillTrue
  BY DEF WireInv, ViewInv, Shown
<1>2. Saved
  BY <1>1 DEF TopologyStillTrue, WireInv, PostInv
<1>3. PICK p, nodes, ports : /\ p = post.parsed /\ nodes = rows.nodes /\ ports = rows.ports
                             /\ nodes = Inserted(p).nodes /\ ports = Inserted(p).ports
  BY <1>2 DEF Saved
<1>4. WellMerged(p) /\ p \in ParsedRows
  <2>1. p \in Parsed
    BY <1>2, <1>3 DEF Saved
  <2> QED
    BY <2>1, ParsedIsMerged DEF WellMerged
<1>5. PICK n, c : /\ c = ForTopology(RepositoryHas("topology", n))
                  /\ \E edges \in Edges(c.ports) : view.body = TopologyOf(c, edges)
  BY <1>1 DEF TopologyStillTrue
<1>6. PICK edges \in Edges(c.ports) : view.body = TopologyOf(c, edges)
  BY <1>5
<1>7. PICK seen : seen = view.body.nodes
  OBVIOUS
<1>8. view.body.edges = edges
  BY <1>6 DEF TopologyOf
<1>9. /\ DOMAIN c.nodes = DOMAIN p.nodes /\ DOMAIN c.ports = DOMAIN p.ports
      /\ DOMAIN nodes = DOMAIN p.nodes /\ DOMAIN ports = DOMAIN p.ports
      /\ \A i \in DOMAIN p.nodes :
           c.nodes[i] = topologyNodeFromProto(nodeToProto(NodeWithInfo(nodes[i])))
      /\ \A i \in DOMAIN p.ports : \A f \in TopologyPort : c.ports[i][f] = ports[i][f]
  <2>1. DOMAIN nodes = DOMAIN p.nodes /\ DOMAIN ports = DOMAIN p.ports
    BY <1>3, <1>4, InsertedTables
  <2> QED
    BY <1>3, <1>5, <2>1, TopologyReceived
<1>10. seen = [i \in DOMAIN p.nodes |-> TopologyNodeOf(c.nodes[i], c.ports)]
  BY <1>6, <1>7, <1>9 DEF TopologyOf, Mapped
<1>11. Len(seen) = log.nodes_count
  <2>1. PICK N \in Nat : N = Len(p.nodes) /\ DOMAIN p.nodes = 1 .. N
    BY <1>4 DEF ParsedRows
  <2>2. DOMAIN seen = 1 .. N
    BY <1>10, <2>1
  <2>3. Len(seen) = N
    BY <2>1, <2>2
  <2>4. log.nodes_count = Len(p.nodes)
    BY <1>2, <1>3 DEF Saved, LogAfter
  <2> QED
    BY <2>1, <2>3, <2>4
<1>12. \A i \in DOMAIN p.ports : c.ports[i]["node_id"] = NodeIDOf(p, p.ports[i]["node_guid"])
  <2> SUFFICES ASSUME NEW i \in DOMAIN p.ports
               PROVE  c.ports[i]["node_id"] = NodeIDOf(p, p.ports[i]["node_guid"])
    OBVIOUS
  <2>1. "node_id" \in TopologyPort
    BY DEF TopologyPort
  <2>2. c.ports[i]["node_id"] = ports[i]["node_id"]
    BY <1>9, <2>1
  <2>3. ports[i]["node_id"] = NodeIDOf(p, p.ports[i]["node_guid"])
    BY <1>3, <1>4, PortIsStored
  <2> QED
    BY <2>2, <2>3
<1> DEFINE Tells(t, x) ==
             /\ \A f \in TopologyNode \cap StoredNode : t[f] = x[f]
             /\ t["declared_ports_count"] = x["num_ports"]
             /\ t["parsed_ports_count"] =
                  Cardinality({q \in RowsOf(p.ports) : q["node_guid"] = x["node_guid"]})
             /\ \A f \in TopologyInfo :
                  t[f] = IF InfoFound(x["node_guid"]) = <<>> THEN Empty
                         ELSE InfoFound(x["node_guid"])[1][f]
<1>13. ASSUME NEW i \in DOMAIN p.nodes, NEW t, t = seen[i], NEW x, x = nodes[i]
       PROVE  Tells(t, x)
  <2>1. PICK m, info, received : /\ m = nodeToProto(NodeWithInfo(x)) /\ received = c.ports
                                 /\ info = TakeAll(TopologyInfo, TakeAll(StoredInfo, InfoOf(x)))
    OBVIOUS
  <2>2. t = TopologyNodeOf(topologyNodeFromProto(m), received)
    BY <1>9, <1>10, <1>13, <2>1
  <2>3. x["id"] = i /\ x["node_guid"] = p.nodes[i]["node_guid"]
    <3>1. StoredAs(ParsedNode, {"id", "log_id"}, p.nodes[i], x) /\ x["id"] = i
      BY <1>3, <1>4, <1>13, NodeIsStored
    <3>2. "node_guid" \in ParsedNode
      BY DEF ParsedNode
    <3> QED
      BY <3>1, <3>2 DEF StoredAs
  <2>4. /\ \A f \in TopologyNode \cap StoredNode : t[f] = x[f]
        /\ t["declared_ports_count"] = x["num_ports"]
        /\ t["parsed_ports_count"] =
             Cardinality({j \in DOMAIN received : received[j]["node_id"] = x["id"]})
        /\ \A f \in TopologyInfo : t[f] = IF info = <<>> THEN Empty ELSE info[1][f]
    BY <2>1, <2>2, TopologyNodeShows
  <2>5. PICK guid : guid = p.nodes[i]["node_guid"]
    OBVIOUS
  <2>6. Cardinality({j \in DOMAIN received : received[j]["node_id"] = i})
        = Cardinality({q \in RowsOf(p.ports) : q["node_guid"] = guid})
    <3>1. \A j, k \in DOMAIN p.ports : p.ports[j] = p.ports[k] => j = k
      BY <1>2, <1>3 DEF Saved
    <3> QED
      BY <1>4, <1>9, <1>12, <2>1, <2>5, <3>1, PortsCounted
  <2>7. \A f \in TopologyInfo :
          (IF info = <<>> THEN Empty ELSE info[1][f])
          = (IF InfoFound(guid) = <<>> THEN Empty ELSE InfoFound(guid)[1][f])
    BY <1>2, <1>3, <2>1, <2>3, <2>5, TopologyInfoShown
  <2>8. x["node_guid"] = guid
    BY <2>3, <2>5
  <2> QED
    BY <2>3, <2>4, <2>6, <2>7, <2>8
<1> HIDE DEF Tells
<1>14. ASSUME NEW t \in RowsOf(seen)
       PROVE  \E x \in RowsOf(nodes) : Tells(t, x)
  <2>1. PICK i \in DOMAIN p.nodes : t = seen[i]
    BY <1>10 DEF RowsOf
  <2>2. PICK x \in RowsOf(nodes) : x = nodes[i]
    BY <1>9 DEF RowsOf
  <2> QED
    BY <1>13, <2>1, <2>2
<1>15. \A e \in view.body.edges : \E q, r \in RowsOf(rows.ports) :
         /\ q["node_id"] = e.source_node_id /\ q["node_guid"] = e.source_node_guid
         /\ q["port_num"] = e.source_port_num /\ q["port_guid"] = e.source_port_guid
         /\ r["node_id"] = e.target_node_id /\ r["node_guid"] = e.target_node_guid
         /\ r["port_num"] = e.target_port_num /\ r["port_guid"] = e.target_port_guid
  BY <1>5, <1>6, <1>8, EdgeShown
<1> QED
  BY <1>3, <1>7, <1>11, <1>14, <1>15 DEF TopologyShowsTheSame, TopologyInfo, Tells

\* Whichever way a client takes to a log, and whenever it asks: it sees what
\* became of the log, and of a parsed one what the parser found in its source,
\* the raw data only if it asked for it.
THEOREM ViewsCorrect == WireSpec => []ViewsShowWhatWasParsed
<1>1. WireInv => ViewsShowWhatWasParsed
  BY LogShown, ListsShown, TopologyShown DEF ViewsShowWhatWasParsed
<1> QED
  BY <1>1, WireInvariant, PTL
=============================================================================
