---------------------------- MODULE TopologyEdges ---------------------------
(***************************************************************************)
(* buildEdges of the topology service: one step per iteration of its two   *)
(* loops, over the nodes and ports of one snapshot.                        *)
(*                                                                         *)
(* The sorted slices are sets here, and a loop takes their first element:  *)
(* (node_id, port_num) is unique in a log, so sortPorts orders the ports   *)
(* of a snapshot totally, and the pair stands for the port's own id.       *)
(***************************************************************************)
EXTENDS Integers, FiniteSets

CONSTANTS
  NodeID,    \* node ids, by which the database orders the nodes
  Family     \* what GetTopologyData may return: any of x.kinds with any of
             \* x.ports, for an x in Family

\* Ports of one snapshot: at most one for each (node_id, port_num).
UniquePorts(ps) ==
  \A p, q \in ps : p.node = q.node /\ p.num = q.num => p = q

Port == [node : NodeID, num : Int, data : [state : Int, width : Int, speed : Int]]

ASSUME NodeIDAssumption == NodeID \subseteq Nat \ {0} /\ IsFiniteSet(NodeID)
ASSUME FamilyAssumption ==
  \A x \in Family :
    /\ \A k \in x.kinds : DOMAIN k = NodeID
    /\ \A ps \in x.ports : ps \subseteq Port /\ IsFiniteSet(ps) /\ UniquePorts(ps)

VARIABLES
  kind,          \* input: the node_kind of every node, as it is stored
  ports,         \* input: the ports
  hostsLeft,     \* active host ports the first loop has not visited
  switchesLeft,  \* switches the second loop has not visited as a source
  used,          \* usedSwitchPorts
  edges          \* the edges found so far

vars == <<kind, ports, hostsLeft, switchesLeft, used, edges>>

Edge == [source : Port, target : Port,
         relation : {"inferred_host_switch", "inferred_switch_backbone"}]

\* Trimmed, in lower case, "unknown" if nothing is left.
normalizeKind(k) ==
  CASE k \in {"host", " Host"} -> "host"
    [] k \in {"switch", "SWITCH "} -> "switch"
    [] k \in {"", " "} -> "unknown"
    [] OTHER -> k

\* Mutant: an unset port number is taken for a port.
isActivePortUnset(p) == p.data.state = 4

\* port_num 0 is an unset port number, port_state 4 is Active.
isActivePort(p) == p.num > 0 /\ p.data.state = 4

activePortsForKinds(ps, k) ==
  {p \in ps : isActivePort(p) /\ normalizeKind(kind[p.node]) = k}

hostPorts == activePortsForKinds(ports, "host")
switchPorts == activePortsForKinds(ports, "switch")
switches == {n \in NodeID : normalizeKind(kind[n]) = "switch"}

Before(p, q) == p.node < q.node \/ (p.node = q.node /\ p.num < q.num)

\* p heads the slice sortPorts makes of S.
IsFirstPort(p, S) == p \in S /\ \A q \in S : q = p \/ Before(p, q)

sameLinkCharacteristics(p, q) ==
  /\ p.data.width # 0 /\ p.data.speed # 0
  /\ p.data.width = q.data.width
  /\ p.data.speed = q.data.speed

Init ==
  /\ \E x \in Family : kind \in x.kinds /\ ports \in x.ports
  /\ hostsLeft = hostPorts
  /\ switchesLeft = switches
  /\ used = {}
  /\ edges = {}

-----------------------------------------------------------------------------
\* Mutant: usedSwitchPorts is not looked at.
FreeOrUsed == switchPorts

Free == switchPorts \ used

\* Mutant: the first free port, whatever its link.
PickedFirst(h, p) == IsFirstPort(p, Free)

\* pickSwitchPort: the first free port with the same link, else the first free.
PickedFor(h, p) ==
  LET same == {q \in Free : sameLinkCharacteristics(h, q)}
  IN IsFirstPort(p, IF same # {} THEN same ELSE Free)

\* Mutant: the whole switch is marked as used.
ConnectHostPortMarksNode(h) ==
  /\ IsFirstPort(h, hostsLeft)
  /\ hostsLeft' = hostsLeft \ {h}
  /\ \/ Free = {} /\ UNCHANGED <<used, edges>>
     \/ \E p \in Free :
          /\ PickedFor(h, p)
          /\ used' = used \cup {q \in Free : q.node = p.node}
          /\ edges' = edges \cup {[source |-> h, target |-> p,
                                   relation |-> "inferred_host_switch"]}
  /\ UNCHANGED <<kind, ports, switchesLeft>>

ConnectHostPort(h) ==
  /\ IsFirstPort(h, hostsLeft)
  /\ hostsLeft' = hostsLeft \ {h}
  /\ \/ /\ Free = {}
        /\ UNCHANGED <<used, edges>>
     \/ \E p \in Free :
          /\ PickedFor(h, p)
          /\ used' = used \cup {p}
          /\ edges' = edges \cup {[source |-> h, target |-> p,
                                   relation |-> "inferred_host_switch"]}
  /\ UNCHANGED <<kind, ports, switchesLeft>>

FreeOf(n) == {p \in Free : p.node = n}

\* t follows s in the slice of switches.
Neighbours(s, t) ==
  /\ t \in switches /\ s < t
  /\ \A n \in switches : n <= s \/ t <= n

\* Mutant: the loop goes on after the target instead of with it.
ConnectSwitchPairs(s, t) ==
  /\ hostsLeft = {}
  /\ s \in switchesLeft /\ \A n \in switchesLeft : s <= n
  /\ Neighbours(s, t)
  /\ switchesLeft' = switchesLeft \ {s, t}
  /\ \/ (FreeOf(s) = {} \/ FreeOf(t) = {}) /\ UNCHANGED <<used, edges>>
     \/ \E p \in FreeOf(s), q \in FreeOf(t) :
          /\ IsFirstPort(p, FreeOf(s)) /\ IsFirstPort(q, FreeOf(t))
          /\ used' = used \cup {p, q}
          /\ edges' = edges \cup {[source |-> p, target |-> q,
                                   relation |-> "inferred_switch_backbone"]}
  /\ UNCHANGED <<kind, ports, hostsLeft>>

\* The source port is marked as used before a target port is looked for.
ConnectSwitches(s, t) ==
  /\ hostsLeft = {}
  /\ s \in switchesLeft /\ \A n \in switchesLeft : s <= n
  /\ Neighbours(s, t)
  /\ switchesLeft' = switchesLeft \ {s}
  /\ \/ /\ FreeOf(s) = {}
        /\ UNCHANGED <<used, edges>>
     \/ \E p \in FreeOf(s) :
          /\ IsFirstPort(p, FreeOf(s))
          /\ \/ /\ FreeOf(t) = {}
                /\ used' = used \cup {p}
                /\ UNCHANGED edges
             \/ \E q \in FreeOf(t) :
                  /\ IsFirstPort(q, FreeOf(t))
                  /\ used' = used \cup {p, q}
                  /\ edges' = edges \cup {[source |-> p, target |-> q,
                                           relation |-> "inferred_switch_backbone"]}
  /\ UNCHANGED <<kind, ports, hostsLeft>>

\* The last switch has no successor and is never a source.
Done == hostsLeft = {} /\ Cardinality(switchesLeft) <= 1

Iterate ==
  \/ \E h \in hostsLeft : ConnectHostPort(h)
  \/ \E s, t \in NodeID : ConnectSwitches(s, t)

Next == Iterate \/ (Done /\ UNCHANGED vars)

Spec == Init /\ [][Next]_vars

-----------------------------------------------------------------------------
\* buildEdges marks only active ports of the kinds it works on, and every edge
\* is one it makes, with two ports of the snapshot.
TypeOK ==
  /\ DOMAIN kind = NodeID /\ ports \subseteq Port /\ UniquePorts(ports)
  /\ hostsLeft \subseteq hostPorts
  /\ switchesLeft \subseteq switches
  /\ used \subseteq switchPorts
  /\ edges \subseteq Edge

HostEdges == {e \in edges : e.relation = "inferred_host_switch"}
BackboneEdges == {e \in edges : e.relation = "inferred_switch_backbone"}
Ends(e) == {e.source, e.target}

\* No port takes part in two inferred links, whichever loop made them: a cable
\* has two ends.
PortsUsedOnce ==
  \A e, f \in edges : e # f => Ends(e) \cap Ends(f) = {}

\* A link joins two different nodes by ports that are numbered and Active; a host
\* link leads from a host to a switch, a backbone link from a switch to the next
\* one by id.
EdgesAreSound ==
  \A e \in edges :
    LET KindOf(p) == normalizeKind(kind[p.node])
    IN /\ \A p \in Ends(e) : p \in ports /\ p.num >= 1 /\ p.data.state = 4
       /\ KindOf(e.target) = "switch"
       /\ IF e \in HostEdges
            THEN KindOf(e.source) = "host"
            ELSE /\ KindOf(e.source) = "switch"
                 /\ e.source.node < e.target.node
                 /\ ~ \E n \in switches : e.source.node < n /\ n < e.target.node

\* The host loop wastes no port: it makes as many links as the scarcer side has
\* active ports.
HostLinksMaximal ==
  hostsLeft = {} =>
    LET hosts == Cardinality(hostPorts)
        free == Cardinality(switchPorts)
    IN Cardinality(HostEdges) = IF hosts < free THEN hosts ELSE free

\* A host port is linked to a switch port of another width or speed only if
\* every switch port of its own was already linked to an earlier host port.
LinkMatchPreferred ==
  \A e \in HostEdges :
    ~ sameLinkCharacteristics(e.source, e.target) =>
      \A p \in switchPorts : sameLinkCharacteristics(e.source, p) =>
        \E f \in HostEdges : f.target = p /\ Before(f.source, e.source)

\* Two neighbouring switches stay unlinked only for want of a free port on one
\* of them: although the loop also marks a source port as used when it finds no
\* target, that port would not have served any other link.
BackboneMaximal ==
  Done =>
    \A s, t \in switches :
      LET linked == UNION {Ends(e) : e \in edges}
          PortsOf(n) == {p \in switchPorts : p.node = n}
      IN Neighbours(s, t) =>
           \/ \E e \in BackboneEdges : e.source.node = s /\ e.target.node = t
           \/ PortsOf(s) \subseteq linked
           \/ PortsOf(t) \subseteq {e.target : e \in HostEdges}
=============================================================================
