----------------------------- MODULE MCLogPages ----------------------------
(***************************************************************************)
(* One reader next to the writers: readers do not change what others see,  *)
(* so one of them meets every interleaving that matters.  Three ports in   *)
(* pages of one or two need two or three pages.                            *)
(***************************************************************************)
EXTENDS LogPages

CONSTANTS g1, g2, noGUID

MCGUID == {g1, g2}
MCPortNum == {0, 1}

Node(g) == [guid |-> g, num |-> 0]
Port(g, n) == [guid |-> g, num |-> n]
Parsed(ns, is, ps) == [t \in Table |-> CASE t = "nodes" -> ns
                                         [] t = "infos" -> is
                                         [] t = "ports" -> ps]

Whole == Parsed(<<Node(g1), Node(g2)>>, <<Node(g1)>>,
                <<Port(g1, 1), Port(g2, 0), Port(g2, 1)>>)
StrayPort == Parsed(<<Node(g1)>>, <<>>, <<Port(g2, 1)>>)

MCPayload == {Whole, StrayPort}
MCLimit == {{}, {1}, {0}, {3}}
MCOffset == {{}, {1}}
=============================================================================
