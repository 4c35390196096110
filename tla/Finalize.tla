------------------------------ MODULE Finalize ------------------------------
(***************************************************************************)
(* finalizeParsedLog of the parser: the records of all files of a source   *)
(* are merged into the ParsedLog that is stored.  One step per iteration   *)
(* of its three loops.                                                     *)
(*                                                                         *)
(* A record keeps its keys and one or two of its other columns, because    *)
(* all of the others are merged by the same rule; node_kind has a rule of  *)
(* its own.  "" and 0 are the values of an absent column, but the kind of  *)
(* a node is "unknown" then (deriveNodeKind).  Every value is trimmed      *)
(* already when a record is built (normalizeRecord).                       *)
(***************************************************************************)
EXTENDS Integers, Sequences

CONSTANTS
  NodeRecord,  \* rows classified as nodes
  InfoRecord,  \* rows classified as node infos
  PortRecord,  \* rows classified as ports
  MaxRecords   \* bound on the records of each class

ASSUME MaxRecordsAssumption == MaxRecords \in Nat
ASSUME RecordAssumption ==
  /\ NodeRecord \subseteq [guid : STRING, kind : STRING \ {""}, desc : STRING]
  /\ InfoRecord \subseteq [guid : STRING, serial : STRING]
  /\ PortRecord \subseteq [guid : STRING, pguid : STRING, num : Int, state : Int]

VARIABLES
  input,   \* what parseFiles collected: [nodes, infos, ports]
  loop,    \* the loop that runs, "end" after the last one
  i,       \* the iteration it is at
  out      \* the result so far: [nodes, infos, ports]; a port has, besides its
           \* columns, the key under which portIndex knows it

vars == <<input, loop, i, out>>

Loops == {"nodes", "infos", "ports"}
UpTo(S) == UNION {[1 .. n -> S] : n \in 0 .. MaxRecords}
ItemsOf(seq) == {seq[k] : k \in DOMAIN seq}
GUIDs(seq) == {x.guid : x \in ItemsOf(seq)}

Init ==
  /\ input \in [nodes : UpTo(NodeRecord), infos : UpTo(InfoRecord), ports : UpTo(PortRecord)]
  /\ loop = "nodes"
  /\ i = 1
  /\ out = [nodes |-> <<>>, infos |-> <<>>, ports |-> <<>>]

-----------------------------------------------------------------------------
\* A column of the later record wins if it has a value.
Patch(base, new, absent) == IF new \notin absent THEN new ELSE base

\* Mutant: an "unknown" kind overwrites a known one.
mergeNodeUnknown(base, patch) ==
  [base EXCEPT !.kind = Patch(@, patch.kind, {""}),
               !.desc = Patch(@, patch.desc, {""})]

mergeNode(base, patch) ==
  [base EXCEPT !.kind = Patch(@, patch.kind, {"", "unknown"}),
               !.desc = Patch(@, patch.desc, {""})]

mergeNodeInfo(base, patch) == [base EXCEPT !.serial = Patch(@, patch.serial, {""})]

mergePort(base, patch) ==
  [base EXCEPT !.pguid = Patch(@, patch.pguid, {""}),
               !.num = Patch(@, patch.num, {0}),
               !.state = Patch(@, patch.state, {0})]

\* nodeIndex, infoIndex and portIndex: where a key is in the result.
NodeAt(seq, node) == {k \in DOMAIN seq : seq[k].guid = node.guid}
InfoAt(seq, info) == {k \in DOMAIN seq : seq[k].guid = info.guid}

\* The code makes one text, guid|pguid|num, of the three columns.  The decimal
\* number behind the last "|" can be told from it, but not where the first GUID
\* ends, because a "|" in a GUID is not escaped: "A|p", "q" and "A", "p|q" are
\* two ports with one key.
PortKey(port) == <<port.guid \o "|" \o port.pguid, port.num>>

\* A port stays in portIndex under the key it entered with.
Indexed(port) ==
  [key |-> PortKey(port), guid |-> port.guid, pguid |-> port.pguid,
   num |-> port.num, state |-> port.state]

PortAt(seq, port) == {k \in DOMAIN seq : seq[k].key = PortKey(port)}

\* Mutant: nodes are those of the node records only.
ensureNoNode(nodes, g) == nodes

\* Records that refer to an unknown node get one, of kind "unknown".
ensureNode(nodes, g) ==
  IF g \in GUIDs(nodes) THEN nodes
  ELSE Append(nodes, [guid |-> g, kind |-> "unknown", desc |-> ""])

-----------------------------------------------------------------------------
Record == input[loop][i]

Iterate(l) ==
  /\ loop = l
  /\ i <= Len(input[l])
  /\ i' = i + 1
  /\ UNCHANGED <<input, loop>>

\* A record without a node GUID is skipped.
SkipRecord ==
  /\ \E l \in Loops : Iterate(l)
  /\ Record.guid = ""
  /\ UNCHANGED out

FinalizeNode ==
  /\ Iterate("nodes")
  /\ Record.guid # ""
  /\ LET at == NodeAt(out.nodes, Record)
     IN out' = [out EXCEPT !.nodes =
          IF at = {} THEN Append(@, Record)
          ELSE [k \in DOMAIN @ |-> IF k \in at THEN mergeNode(@[k], Record) ELSE @[k]]]

\* Mutant: the info of a node without a record of its own is dropped.
FinalizeKnownInfo ==
  /\ Iterate("infos")
  /\ Record.guid # ""
  /\ out' = [out EXCEPT !.infos =
       IF Record.guid \in GUIDs(out.nodes) /\ InfoAt(out.infos, Record) = {}
         THEN Append(@, Record) ELSE @]

FinalizeInfo ==
  /\ Iterate("infos")
  /\ Record.guid # ""
  /\ LET at == InfoAt(out.infos, Record)
     IN out' = [out EXCEPT
          !.nodes = ensureNode(@, Record.guid),
          !.infos =
            IF at = {} THEN Append(@, Record)
            ELSE [k \in DOMAIN @ |-> IF k \in at THEN mergeNodeInfo(@[k], Record) ELSE @[k]]]

FinalizePort ==
  /\ Iterate("ports")
  /\ Record.guid # ""
  /\ LET at == PortAt(out.ports, Record)
     IN out' = [out EXCEPT
          !.nodes = ensureNode(@, Record.guid),
          !.ports =
            IF at = {} THEN Append(@, Indexed(Record))
            ELSE [k \in DOMAIN @ |-> IF k \in at THEN mergePort(@[k], Record) ELSE @[k]]]

NextLoop ==
  /\ loop \in Loops
  /\ i > Len(input[loop])
  /\ loop' = CASE loop = "nodes" -> "infos"
               [] loop = "infos" -> "ports"
               [] loop = "ports" -> "end"
  /\ i' = 1
  /\ UNCHANGED <<input, out>>

Returned == loop = "end" /\ UNCHANGED vars

Next == SkipRecord \/ FinalizeNode \/ FinalizeInfo \/ FinalizePort \/ NextLoop \/ Returned

Spec == Init /\ [][Next]_vars

-----------------------------------------------------------------------------
DistinctBy(seq, Key(_)) ==
  \A j, k \in DOMAIN seq : Key(seq[j]) = Key(seq[k]) => j = k

NodeKey(x) == x.guid
IndexKey(p) == p.key

\* At every moment the result holds each node, each node info and each key of
\* portIndex once, without an empty GUID, and no info or port of a node it lacks.
MergedAndClosed ==
  /\ DistinctBy(out.nodes, NodeKey)
  /\ DistinctBy(out.infos, NodeKey)
  /\ DistinctBy(out.ports, IndexKey)
  /\ "" \notin GUIDs(out.nodes)
  /\ GUIDs(out.infos) \cup GUIDs(out.ports) \subseteq GUIDs(out.nodes)

\* The value a column should have: the last one among the records of that key.
LastOf(seq, Same(_), Col(_), absent, default) ==
  LET given == {k \in DOMAIN seq : Same(seq[k]) /\ Col(seq[k]) \notin absent}
  IN IF given = {} THEN default
     ELSE Col(seq[CHOOSE k \in given : \A j \in given : j <= k])

\* Merging keeps, column by column, the last value that any record gave, in
\* whatever order complete and partial records of one node or one key of
\* portIndex came.  Ports that are different and have one key share the value,
\* which is then one that another port's record may have given.
LastValueWins ==
  loop = "end" =>
    /\ \A n \in ItemsOf(out.nodes) :
         LET Same(r) == r.guid = n.guid
             Kind(r) == r.kind
             Desc(r) == r.desc
         IN /\ n.kind = LastOf(input.nodes, Same, Kind, {"", "unknown"}, "unknown")
            /\ n.desc = LastOf(input.nodes, Same, Desc, {""}, "")
    /\ \A x \in ItemsOf(out.infos) :
         LET Same(r) == r.guid = x.guid
             Serial(r) == r.serial
         IN x.serial = LastOf(input.infos, Same, Serial, {""}, "")
    /\ \A p \in ItemsOf(out.ports) :
         LET Same(r) == r.guid # "" /\ PortKey(r) = p.key
             State(r) == r.state
         IN p.state = LastOf(input.ports, Same, State, {0}, 0)

PortId(port) == <<port.guid, port.pguid, port.num>>

\* Two of the records are different ports, and have this key.
Confused(records, key) ==
  \E q, r \in records :
    PortKey(q) = key /\ PortKey(r) = key /\ PortId(q) # PortId(r)

\* Nothing that has a GUID is lost and nothing is invented: the nodes are those
\* any record mentions, the infos those of the records, and of every port record
\* there is the port with its GUIDs and its number, with one exception: of
\* different ports whose GUIDs make one key only one is left (section.go:314).
NothingLost ==
  loop = "end" =>
    LET Named(seq) == {x \in ItemsOf(seq) : x.guid # ""}
    IN /\ GUIDs(out.nodes) = {x.guid : x \in UNION {Named(input[l]) : l \in Loops}}
       /\ GUIDs(out.infos) = {x.guid : x \in Named(input.infos)}
       /\ {p.key : p \in ItemsOf(out.ports)} = {PortKey(r) : r \in Named(input.ports)}
       /\ \A p \in ItemsOf(out.ports) : \A r \in Named(input.ports) :
            PortKey(r) = p.key /\ ~ Confused(Named(input.ports), p.key) => PortId(p) = PortId(r)

\* The README: duplicate ports are merged.  To the database two ports are
\* duplicates if they agree on the node and port_num; to portIndex only if
\* their port_guid agrees, too, and SaveParsedLog then fails as a whole.
PortsAreStorable ==
  loop = "end" =>
    LET StoredKey(p) == <<p.guid, p.num>>
    IN DistinctBy(out.ports, StoredKey)
=============================================================================
