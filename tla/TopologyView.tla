---------------------------- MODULE TopologyView ---------------------------
(***************************************************************************)
(* GetTopology of the topology service around buildEdges: the counts of    *)
(* the summary, the nodes by kind, and the answer that goes to the app.    *)
(* The pass over the nodes meets nothing but its own locals, and is one    *)
(* step.                                                                   *)
(*                                                                         *)
(* A string that is not valid UTF-8 cannot be put into a protobuf message: *)
(* the call then ends with the code Internal.                              *)
(***************************************************************************)
EXTENDS TopologyEdges, Sequences

CONSTANTS
  Alphabet,  \* the normalised kinds in alphabetical order
  NonASCII,  \* those that begin with a letter of more than one byte
  Garbled    \* any string that is not valid UTF-8

\* Each kind of a snapshot stands in the alphabet, and in one place.
ASSUME AlphabetAssumption ==
  /\ Alphabet \in Seq(STRING)
  /\ \A a, b \in DOMAIN Alphabet : Alphabet[a] = Alphabet[b] => a = b
  /\ \A x \in Family : \A k \in x.kinds, n \in NodeID :
       \E a \in DOMAIN Alphabet : Alphabet[a] = normalizeKind(k[n])
  /\ NonASCII \subseteq {Alphabet[k] : k \in DOMAIN Alphabet}

VARIABLE answer  \* [code, summary, groups] once GetTopology has returned

viewVars == <<vars, answer>>

NoAnswer == [code |-> "none"]

ViewInit == Init /\ answer = NoAnswer

-----------------------------------------------------------------------------
KindOfNode(n) == normalizeKind(kind[n])
OfKind(k) == {n \in NodeID : KindOfNode(n) = k}

\* By node id; the count by GUID, its substitute, is the same in one log.
parsedPortsCount(n) == Cardinality({p \in ports : p.node = n})

\* Mutant: a node that is neither host nor switch is counted as a host.
SummaryOfRest ==
  [nodes |-> Cardinality(NodeID),
   ports |-> Cardinality(ports),
   edges |-> Cardinality(edges),
   hosts |-> Cardinality(NodeID \ OfKind("switch")),
   switches |-> Cardinality(OfKind("switch"))]

Summary ==
  [nodes |-> Cardinality(NodeID),
   ports |-> Cardinality(ports),
   edges |-> Cardinality(edges),
   hosts |-> Cardinality(OfKind("host")),
   switches |-> Cardinality(OfKind("switch"))]

\* title takes the first byte of the kind for its first letter.
groupName(k) ==
  CASE k = "host" -> "Hosts"
    [] k = "switch" -> "Switches"
    [] k = "unknown" -> "Unknown"
    [] k \in NonASCII -> Garbled
    [] OTHER -> k

First == <<"host", "switch", "unknown">>
Order == First \o Alphabet

\* A group is made of the nodes of a kind, if there are any, and once.
Taken(a) == OfKind(Order[a]) # {} /\ (a > 3 => Order[a] \notin {First[f] : f \in 1 .. 3})

\* groupsFromMap: three kinds first, the rest in alphabetical order.
Kinds ==
  LET out[a \in 0 .. Len(Order)] ==
        IF a = 0 THEN <<>>
        ELSE IF Taken(a) THEN Append(out[a - 1], Order[a]) ELSE out[a - 1]
  IN out[Len(Order)]

Groups ==
  LET kinds == Kinds
  IN [g \in DOMAIN kinds |->
        [kind |-> kinds[g], name |-> groupName(kinds[g]), nodes |-> OfKind(kinds[g])]]

Nodes == [n \in NodeID |-> [kind |-> KindOfNode(n), parsedPorts |-> parsedPortsCount(n)]]

GetTopologyReturns ==
  /\ Done
  /\ answer = NoAnswer
  /\ LET groups == Groups
     IN answer' = IF \E g \in DOMAIN groups : groups[g].name = Garbled
                    THEN [code |-> "Internal"]
                    ELSE [code |-> "OK", summary |-> Summary, nodes |-> Nodes, groups |-> groups]
  /\ UNCHANGED vars

Returned == answer # NoAnswer /\ UNCHANGED viewVars

ViewNext == (Iterate /\ UNCHANGED answer) \/ GetTopologyReturns \/ Returned

ViewSpec == ViewInit /\ [][ViewNext]_viewVars

-----------------------------------------------------------------------------
\* The README: groups are in the order host, switch, unknown, then the other
\* kinds alphabetically, and there is none without nodes.
GroupsInOrder ==
  answer.code = "OK" =>
    LET KindAt(g) == answer.groups[g].kind
        IsRank(k, r) == \/ k = "host" /\ r = 1
                        \/ k = "switch" /\ r = 2
                        \/ k = "unknown" /\ r = 3
                        \/ k \notin {"host", "switch", "unknown"}
                             /\ \E a \in DOMAIN Alphabet : Alphabet[a] = k /\ r = 3 + a
    IN \A g, h \in DOMAIN answer.groups : \A r, q \in 1 .. Len(Alphabet) + 3 :
         /\ answer.groups[g].nodes # {}
         /\ g < h /\ IsRank(KindAt(g), r) /\ IsRank(KindAt(h), q) => r < q

\* The sum of the nodes' counts.
PortsOfNodes(x) ==
  LET Sum[S \in SUBSET NodeID] ==
        IF S = {} THEN 0
        ELSE LET n == CHOOSE m \in S : TRUE
             IN x.nodes[n].parsedPorts + Sum[S \ {n}]
  IN Sum[NodeID]

\* Every node is in the group of its kind and in no other, the counts of hosts
\* and switches are the sizes of their groups, the ports of the nodes add up to
\* those of the summary, and every edge takes two of them.
Agree(x) ==
  LET GroupsOf(n) == {g \in DOMAIN x.groups : n \in x.groups[g].nodes}
      Size(k) == Cardinality({n \in NodeID : x.nodes[n].kind = k})
  IN /\ \A n \in NodeID : \E g \in DOMAIN x.groups :
          GroupsOf(n) = {g} /\ x.groups[g].kind = x.nodes[n].kind
     /\ x.summary.hosts = Size("host")
     /\ x.summary.switches = Size("switch")
     /\ x.summary.ports = PortsOfNodes(x)
     /\ 2 * x.summary.edges <= x.summary.ports

\* The parts of a topology that GetTopology computes separately agree, and the
\* groups are in their order.
PartsAgree == answer.code = "OK" => GroupsInOrder /\ Agree(answer)

\* The README: the topology has a group for every kind.  A parsed log that has
\* a kind with a first letter outside of ASCII has no topology at all.
EveryKindHasItsGroup == answer.code # "Internal"
=============================================================================
