-------------------------- MODULE MCParsePipeline ---------------------------
(***************************************************************************)
(* Instances of ParsePipeline.  One ParsedLog can be stored; the other is  *)
(* refused by a unique index, so that SaveParsedLog also fails by itself.  *)
(***************************************************************************)
EXTENDS ParsePipeline, TLC

CONSTANTS g1, noGUID

MCSession == Request \X Rpc
MCGUID == {g1}
MCPortNum == {0}

Node == [guid |-> g1, num |-> 0]
Parsed(ns) == [t \in {"nodes", "infos", "ports"} |-> IF t = "nodes" THEN ns ELSE <<>>]

MCPayload == {Parsed(<<Node>>), Parsed(<<Node, Node>>)}

Requests == Permutations(Request)
=============================================================================
