------------------------------ MODULE Records ------------------------------
(***************************************************************************)
(* How the parser makes records of a file and entities of records: the     *)
(* rows of a table and the lines of a key-value file become records,       *)
(* recordsToParsedLog normalises, classifies and converts them.            *)
(*                                                                         *)
(* A raw record maps column names, as the file spells them, to values.  A  *)
(* file or section name is the set of the words classifyRecord looks for   *)
(* in it.  The columns that are copied as they are, without being looked   *)
(* at, are left out.                                                       *)
(***************************************************************************)
EXTENDS Integers, Sequences

CONSTANTS
  Spelling,  \* what normalizeKey makes of a column name that it changes
  Number,    \* the texts parseOptionalInt32 accepts, with their values
  Lower,     \* what ToLower makes of a text that it changes
  Mentions   \* the words deriveNodeKind finds in a description

\* strings.ToLower leaves something of what is not empty.
ASSUME TextAssumption ==
  /\ \A text \in DOMAIN Number : Number[text] \in Int
  /\ \A text \in DOMAIN Lower : Lower[text] \in STRING \ {""}

Lookup(table, text) == IF text \in DOMAIN table THEN table[text] ELSE text

-----------------------------------------------------------------------------
\* rowToRecord: a missing value is no column, of equal headers the last counts.
rowToRecord(header, row) ==
  LET given == {k \in DOMAIN header \cap DOMAIN row : header[k] # ""}
      Last(c) == CHOOSE k \in given : /\ header[k] = c
                                      /\ \A j \in given : header[j] = c => j <= k
  IN [c \in {header[k] : k \in given} |-> row[Last(c)]]

ExtraValue(header, row) == \E k \in DOMAIN row : k > Len(header) /\ row[k] # ""

\* Empty records are dropped.
NonEmpty(recs) ==
  LET kept[k \in 0 .. Len(recs)] ==
        IF k = 0 THEN <<>>
        ELSE IF DOMAIN recs[k] = {} THEN kept[k - 1]
        ELSE Append(kept[k - 1], recs[k])
  IN kept[Len(recs)]

\* parseCSV, and a section of parseDBCSV: [header, rows].
TableRecords(table) ==
  NonEmpty([k \in DOMAIN table.rows |-> rowToRecord(table.header, table.rows[k])])

\* parseKeyValueSections: a line is [type, key, value]; "flush" lines are blank
\* or begin with "---", and end a record.
MalformedLine(lines) == \E k \in DOMAIN lines : lines[k].type = "malformed"

KeyValueRecords(lines) ==
  LET n == Len(lines)
      ends == {0, n + 1} \cup {k \in 1 .. n : lines[k].type = "flush"}
      Pairs(e) == {k \in 1 .. n : lines[k].type = "pair" /\ k < e
                                    /\ ~ \E d \in ends : k < d /\ d < e}
      RecordOf(e) == [key \in {lines[k].key : k \in Pairs(e)} |->
                        lines[CHOOSE k \in Pairs(e) : /\ lines[k].key = key
                                /\ \A j \in Pairs(e) : lines[j].key = key => j <= k].value]
  IN NonEmpty([e \in 1 .. n + 1 |-> IF e \in ends THEN RecordOf(e) ELSE <<>>])

-----------------------------------------------------------------------------
normalizeKey(column) == Lookup(Spelling, column)

\* What normalizeRecord may return: if columns differ in their spelling only,
\* the order in which Go iterates over the map decides which one survives.
normalizeRecord(raw) ==
  LET keys == {normalizeKey(c) : c \in DOMAIN raw}
  IN {rec \in [keys -> {raw[c] : c \in DOMAIN raw}] :
        \A k \in keys : \E c \in DOMAIN raw : normalizeKey(c) = k /\ rec[k] = raw[c]}

\* The first of the alternatives that is there, even if it has no value.
get(rec, keys) ==
  LET present == {k \in DOMAIN keys : keys[k] \in DOMAIN rec}
  IN IF present = {} THEN ""
     ELSE rec[keys[CHOOSE k \in present : \A j \in present : k <= j]]

hasAny(rec, keys) == keys \cap DOMAIN rec # {}

parseOptionalInt32(rec, keys) ==
  LET raw == get(rec, keys) IN IF raw = "" THEN 0 ELSE Number[raw]

IsMalformed(rec, keys) == get(rec, keys) \notin DOMAIN Number \cup {""}

\* The numeric columns of ports and nodes, each with its alternatives.
PortNumKeys == <<"portnum", "portnumber", "port">>
PortStateKeys == <<"portstate", "state">>
PortColumns ==
  {PortNumKeys, <<"lid">>, <<"localportnum", "localportnumber">>, PortStateKeys,
   <<"portphystate", "phystate", "physicalstate">>,
   <<"linkwidthactive", "linkwidthactv", "linkwidth">>,
   <<"linkspeedactive", "linkspeedactv", "linkspeed">>}

NodeTypeKeys == <<"nodetype", "type">>
NodeColumns ==
  {NodeTypeKeys, <<"numports", "ports", "portcount">>, <<"classversion">>, <<"baseversion">>}

-----------------------------------------------------------------------------
\* A port before a description of a node before a node.
classifyRecord(name, rec) ==
  LET port == \/ hasAny(rec, {"portnum", "portnumber", "localportnum", "localportnumber",
                              "lid", "portstate", "portphystate", "phystate",
                              "linkwidthactive", "linkspeedactive"})
              \/ "port" \in name
      info == \/ hasAny(rec, {"serialnumber", "partnumber", "revision", "productname"})
              \/ name \cap {"nodeinfo", "nodesinfo", "sharpaninfo"} # {}
      node == hasAny(rec, {"nodeguid", "nodeid", "guid"}) \/ "node" \in name
  IN CASE port -> "port"
       [] ~ port /\ info -> "info"
       [] ~ port /\ ~ info /\ node -> "node"
       [] OTHER -> ""

deriveNodeKind(kind, desc, type) ==
  LET words == IF desc \in DOMAIN Mentions THEN Mentions[desc] ELSE {}
  IN CASE kind # "" -> Lookup(Lower, kind)
       [] kind = "" /\ words \cap {"switch", "sw"} # {} -> "switch"
       [] kind = "" /\ words \cap {"switch", "sw"} = {} /\ words # {} -> "host"
       [] kind = "" /\ words = {} /\ type = 2 -> "switch"
       [] kind = "" /\ words = {} /\ type = 1 -> "host"
       [] OTHER -> "unknown"

\* Mutant: a port does not look for its node under all of the names.
ToPortByGUID(rec) ==
  [guid |-> get(rec, <<"nodeguid">>),
   pguid |-> get(rec, <<"portguid", "portid">>),
   num |-> parseOptionalInt32(rec, PortNumKeys),
   state |-> parseOptionalInt32(rec, PortStateKeys)]

ToPort(rec) ==
  [guid |-> get(rec, <<"nodeguid", "nodeid", "node">>),
   pguid |-> get(rec, <<"portguid", "portid">>),
   num |-> parseOptionalInt32(rec, PortNumKeys),
   state |-> parseOptionalInt32(rec, PortStateKeys)]

ToInfo(rec) ==
  [guid |-> get(rec, <<"nodeguid", "nodeid", "node">>),
   serial |-> get(rec, <<"serialnumber", "serial", "sn">>)]

ToNode(rec) ==
  LET desc == get(rec, <<"nodedesc", "description", "desc", "name">>)
      type == parseOptionalInt32(rec, NodeTypeKeys)
  IN [guid |-> get(rec, <<"nodeguid", "nodeid", "node", "guid">>),
      kind |-> deriveNodeKind(get(rec, <<"nodekind", "kind">>), desc, type),
      desc |-> desc]

\* The numeric columns that recordsToParsedLog reads of a record of this class.
ColumnsOf(class) ==
  CASE class = "port" -> PortColumns
    [] class = "node" -> NodeColumns
    [] OTHER -> {}
=============================================================================
