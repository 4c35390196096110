----------------------------- MODULE MCLogStore -----------------------------
(***************************************************************************)
(* Instances of LogStore: two node GUIDs, two port numbers, and ParsedLogs *)
(* of every kind the checks and constraints of SaveParsedLog distinguish.  *)
(***************************************************************************)
EXTENDS LogStore, TLC

CONSTANTS g1, g2, noGUID

MCGUID == {g1, g2}
MCPortNum == {0, 1}

Node(g) == [guid |-> g, num |-> 0]
Port(g, n) == [guid |-> g, num |-> n]
Parsed(ns, is, ps) == [t \in Table |-> CASE t = "nodes" -> ns
                                         [] t = "infos" -> is
                                         [] t = "ports" -> ps]

Whole == Parsed(<<Node(g1), Node(g2)>>, <<Node(g1)>>, <<Port(g1, 1), Port(g1, 0)>>)
Single == Parsed(<<Node(g2)>>, <<>>, <<Port(g2, 1)>>)

TwiceANode == Parsed(<<Node(g1), Node(g1)>>, <<>>, <<>>)
TwiceAnInfo == Parsed(<<Node(g1)>>, <<Node(g1), Node(g1)>>, <<>>)
TwiceAPort == Parsed(<<Node(g1)>>, <<>>, <<Port(g1, 1), Port(g1, 1)>>)
StrayInfo == Parsed(<<Node(g1)>>, <<Node(g2)>>, <<>>)
StrayPort == Parsed(<<Node(g1)>>, <<>>, <<Port(g2, 1)>>)
NamelessNode == Parsed(<<Node(g1), Node(noGUID)>>, <<>>, <<>>)

AllPayloads == {Whole, Single, TwiceANode, TwiceAnInfo, TwiceAPort, StrayInfo,
                StrayPort, NamelessNode}

Sessions == Permutations(Session)
=============================================================================
