------------------------------- MODULE MCWire -------------------------------
(***************************************************************************)
(* Results of the parser in which every field has a value of its own, and  *)
(* at most one value is not storable or not clean, and two ports of one    *)
(* node and number.  Their sizes lie on both sides of every limit.         *)
(***************************************************************************)
EXTENDS Wire, TLC

Value(row, field) == [is |-> row \o <<field>>, text |-> "clean", size |-> 0]

Node(g) == [f \in ParsedNode |-> IF f = "node_guid" THEN Value(<<"g", g>>, f) ELSE Value(<<"n", g>>, f)]
Info(g) == [f \in ParsedInfo |-> IF f = "node_guid" THEN Value(<<"g", g>>, f) ELSE Value(<<"i", g>>, f)]
Port(g, n) ==
  [f \in ParsedPort |-> IF f = "node_guid" THEN Value(<<"g", g>>, f) ELSE Value(<<"p", g, ToString(n)>>, f)]

SameNum(g, n, other) == [Port(g, other) EXCEPT !["port_num"] = Port(g, n)["port_num"]]

Shapes ==
  {[nodes |-> <<Node("a")>>, infos |-> <<>>, ports |-> <<>>],
   [nodes |-> <<Node("a")>>, infos |-> <<Info("a")>>, ports |-> <<Port("a", 1), Port("a", 2)>>],
   [nodes |-> <<Node("a"), Node("b")>>, infos |-> <<Info("b")>>,
    ports |-> <<Port("b", 1), Port("a", 1)>>],
   [nodes |-> <<Node("a"), Node("b")>>, infos |-> <<Info("b"), Info("a")>>,
    ports |-> <<Port("a", 2)>>],
   \* Two ports that the parser keeps and the unique index does not.
   [nodes |-> <<Node("a")>>, infos |-> <<>>, ports |-> <<Port("a", 1), SameNum("a", 1, 2)>>]}

Fat(p, size) == [p EXCEPT !.nodes[1]["raw_json"].size = size]

Flawed(p, table, field, text) ==
  [p EXCEPT ![table] = [i \in DOMAIN @ |-> IF i = 1 THEN [@[i] EXCEPT ![field].text = text]
                                            ELSE @[i]]]

MCParsed ==
  LET flaws == {<<"nodes", "node_desc">>, <<"infos", "part_number">>, <<"ports", "port_guid">>}
  IN {Fat(p, size) : p \in Shapes, size \in {0, 1, 2, 3, 4, 5}}
     \cup {Flawed(p, f[1], f[2], text) :
             p \in Shapes, f \in flaws, text \in {"garbled", "nul"}}
=============================================================================
