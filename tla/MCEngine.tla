------------------------------ MODULE MCEngine -----------------------------
(***************************************************************************)
(* Three families of requests: paths, sources of all kinds at the limits   *)
(* on files and bytes, and archives of up to three files, each of which    *)
(* holds a record or a defect that the parser treats differently.          *)
(***************************************************************************)
EXTENDS Engine, TLC

MCDataDir == <<"srv", "data">>

MCSpelling == ("NodeGUID" :> "nodeguid") @@ ("node_guid" :> "nodeguid")
              @@ ("PortNum" :> "portnum") @@ ("Node Kind" :> "nodekind")
MCNumber == ("1" :> 1) @@ ("0x4" :> 4) @@ ("2" :> 2)
MCLower == ("Switch" :> "switch")
MCMentions == ("leaf sw" :> {"sw"}) @@ ("host a" :> {"host"})

NodeRecords ==
  [guid : {"A", "B", ""}, kind : {"switch", "host", "unknown"},
   desc : {"", "leaf sw", "host a", "A", "B"}]
InfoRecords == [guid : {"A", "B", ""}, serial : {"", "s1", "s2"}]
PortRecords ==
  [guid : {"A", "B", ""}, pguid : {"", "p"}, num : {0, 1}, state : {0, 1, 2, 4}]

-----------------------------------------------------------------------------
Table(name, header, rows) ==
  [format |-> "tables", name |-> name,
   tables |-> <<[name |-> {}, header |-> header, rows |-> rows]>>]
Line(key, value) == [type |-> "pair", key |-> key, value |-> value]
Lines(lines) == [format |-> "lines", name |-> {}, lines |-> lines]
Flush == [type |-> "flush"]

Blank == [format |-> "blank"]

SomeNode == Table({"node"}, <<"node_guid">>, << <<"A">> >>)

FileContents ==
  {Blank,
   [format |-> "broken"],
   \* Nodes, complete and partial, with and without a kind of their own.
   Table({"node"}, <<"node_guid", "Node Kind", "nodedesc">>,
         << <<"A", "Switch", "A">>, <<"", "host">> >>),
   Table({"node"}, <<"NodeGUID", "nodedesc">>, << <<"A", "leaf sw">> >>),
   Table({}, <<"nodeid", "nodetype", "desc">>, << <<"A", "1", "">>, <<"B", "2", "B">> >>),
   Table({}, <<"guid", "type">>, << <<"A", "x">> >>),
   \* Infos: by column, by the name of the file, for a node that has no record.
   Table({}, <<"node_guid", "serialnumber">>, << <<"A", "s1">>, <<"A", "">> >>),
   Table({"node", "nodeinfo"}, <<"nodeguid", "", "sn">>, << <<"B", "1", "s2">> >>),
   \* Ports: partial ones, colliding spellings, a bad number.
   Table({}, <<"nodeguid", "portguid", "portnum", "state">>,
         << <<"A", "p", "1", "0x4">>, <<"A", "p", "1">>, <<"B", "", "", "1">> >>),
   Table({}, <<"nodeid", "portguid", "PortNum", "portstate">>, << <<"A", "p", "1", "2">> >>),
   Table({}, <<"NodeGUID", "node_guid", "portnum">>, << <<"A", "B", "1">> >>),
   Table({}, <<"nodeguid", "portnum">>, << <<"A", "one">> >>),
   \* A bad number beside a good one: under another name, under another spelling,
   \* in a column that does not make the record a port.
   Table({}, <<"nodeguid", "PortNum", "portnum">>, << <<"A", "one", "2">> >>),
   Table({}, <<"nodeguid", "portnum", "portnumber", "linkwidthactv">>,
         << <<"A", "1", "one">>, <<"B", "2", "", "one">> >>),
   Table({}, <<"nodeguid", "linkwidthactv">>, << <<"A", "one">> >>),
   \* Two ports of two nodes, the GUIDs of which make one key.
   Table({}, <<"nodeguid", "portguid", "portnum", "state">>,
         << <<"A|p", "q", "1", "2">>, <<"A", "p|q", "1", "1">> >>),
   \* Several sections, one of them with a value too many.
   [format |-> "tables", name |-> {},
    tables |-> <<[name |-> {"node"}, header |-> <<"node_guid">>, rows |-> << <<"B">> >>],
                 [name |-> {"port"}, header |-> <<"node_guid", "port">>, rows |-> << <<"A", "1">> >>]>>],
   Table({"node"}, <<"node_guid">>, << <<"A", "">>, <<"B", "x">> >>),
   \* Key-value files: two records, a repeated key, a record of no class.
   Lines(<<Flush, Line("guid", "B"), Line("nodeid", "A"), Flush, Line("serialnumber", "s1"),
           Line("nodeguid", "A"), Line("nodeguid", "B")>>),
   Lines(<<Line("state", "1"), Flush, Flush, Line("lid", "2"), Line("node", "A")>>),
   Lines(<<[type |-> "malformed"]>>),
   \* Nodes in a file whose name contains "port".
   Table({"node", "port"}, <<"node_guid", "nodekind">>, << <<"B", "host">> >>)}

-----------------------------------------------------------------------------
MCFile == FileContents \cup {SomeNode}

UpToLen(n, S) == UNION {[1 .. k -> S] : k \in 0 .. n}

Holding(f) == [dir |-> FALSE, stated |-> 1, stat |-> 1, size |-> 1, sound |-> TRUE, file |-> f]
Sized(s, t, u, ok) ==
  [dir |-> FALSE, stated |-> s, stat |-> t, size |-> u, sound |-> ok, file |-> Blank]
Folder == [Sized(0, 0, 0, TRUE) EXCEPT !.dir = TRUE]
LockedFolder == [Folder EXCEPT !.sound = FALSE]

Relative(segs) == [blank |-> FALSE, abs |-> FALSE, segs |-> segs]

PlainFile(e) == [kind |-> "plain", entries |-> <<e>>]

Paths ==
  [requests |-> {[blank |-> FALSE, abs |-> a, segs |-> s] :
                   a \in BOOLEAN, s \in UpToLen(4, {"..", "data", "srv", "x"})}
                \cup {[blank |-> TRUE, abs |-> FALSE, segs |-> <<>>]},
   sources |-> {PlainFile(Holding(SomeNode)), [kind |-> "missing", entries |-> <<>>],
                [kind |-> "unreadable", entries |-> <<>>]}]

\* maxFileSize is 2, maxFiles 3, maxTotalBytes 4.
AtLimits ==
  LET alike == {Sized(n, n, n, TRUE) : n \in 0 .. 3}
      others == {Folder, LockedFolder, Sized(1, 1, 2, TRUE), Sized(1, 2, 2, TRUE), Sized(1, 3, 3, TRUE),
                 Sized(1, 1, 3, TRUE), Sized(1, 1, 1, FALSE)}
  IN [requests |-> {Relative(<<"x">>)},
      sources |-> {[kind |-> k, entries |-> e] :
                     k \in {"dir", "zip", "tar"}, e \in UpToLen(4, alike \cup others)}
                  \cup {[kind |-> k, entries |-> <<e>>] :
                          k \in {"gzip", "plain"}, e \in {x \in alike \cup others : ~ x.dir}}]

Archives ==
  [requests |-> {Relative(<<"x">>)},
   sources |-> {[kind |-> "zip", entries |-> e] :
                  e \in UpToLen(3, {Holding(f) : f \in FileContents})}]

WholeRequests == {Paths, AtLimits, Archives}
=============================================================================
