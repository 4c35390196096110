--------------------------- MODULE TopologyProofs ---------------------------
(***************************************************************************)
(* Proofs about TopologyEdges and TopologyView, for any number of nodes    *)
(* and ports of any kinds, numbers, states and links.                      *)
(***************************************************************************)
EXTENDS TopologyView, FiniteSetTheorems,
  WellFoundedInduction, SequenceTheorems, TLAPS

\* What becomes of a port on either end of a link: a switch port is marked, a
\* host port has been visited.
EndsAreSpent ==
  \A e \in edges :
    /\ e.target \in used
    /\ e.source \in used \/ e.source \in hostPorts \ hostsLeft

EdgesInv == TypeOK /\ EndsAreSpent /\ PortsUsedOnce /\ EdgesAreSound

LEMMA KindsDiffer == hostPorts \cap switchPorts = {}
BY DEF hostPorts, switchPorts, activePortsForKinds

LEMMA EdgesInit == Init => EdgesInv
<1> SUFFICES ASSUME Init PROVE EdgesInv
  OBVIOUS
<1>1. DOMAIN kind = NodeID /\ ports \subseteq Port /\ UniquePorts(ports)
  BY FamilyAssumption DEF Init
<1> QED
  BY <1>1 DEF Init, EdgesInv, TypeOK, EndsAreSpent, PortsUsedOnce, EdgesAreSound

\* The inputs, and what is computed of them, stay.
LEMMA InputsStay ==
  ASSUME UNCHANGED <<kind, ports>>
  PROVE  hostPorts' = hostPorts /\ switchPorts' = switchPorts /\ switches' = switches
BY DEF hostPorts, switchPorts, switches, activePortsForKinds

\* A new link between two ports that are not spent, in that they are not the end
\* of a link yet.
LEMMA NewEdge ==
  ASSUME PortsUsedOnce, NEW e,
         \A f \in edges : Ends(e) \cap Ends(f) = {},
         edges' = edges \cup {e}
  PROVE  PortsUsedOnce'
BY DEF PortsUsedOnce, Ends

LEMMA NewEdgeSound ==
  ASSUME TypeOK, EdgesAreSound, UNCHANGED <<kind, ports>>, NEW e \in Edge,
         edges' = edges \cup {e}, e.target \in switchPorts,
         \/ e.relation = "inferred_host_switch" /\ e.source \in hostPorts
         \/ /\ e.relation = "inferred_switch_backbone" /\ e.source \in switchPorts
            /\ Neighbours(e.source.node, e.target.node)
  PROVE  EdgesAreSound'
<1> DEFINE Sound(f) ==
      /\ \A p \in Ends(f) : p \in ports /\ p.num >= 1 /\ p.data.state = 4
      /\ normalizeKind(kind[f.target.node]) = "switch"
      /\ IF f.relation = "inferred_host_switch"
           THEN normalizeKind(kind[f.source.node]) = "host"
           ELSE /\ normalizeKind(kind[f.source.node]) = "switch"
                /\ f.source.node < f.target.node
                /\ ~ \E n \in switches : f.source.node < n /\ n < f.target.node
<1>1. \A f \in edges : Sound(f)
  BY DEF EdgesAreSound, HostEdges
<1>2. Sound(e)
  <2>1. \A p \in Ends(e) : p \in ports /\ isActivePort(p)
    BY DEF Ends, hostPorts, switchPorts, activePortsForKinds
  <2>2. \A p \in Ends(e) : p.num \in Int
    BY <2>1 DEF TypeOK, Port
  <2>3. normalizeKind(kind[e.target.node]) = "switch"
    BY DEF switchPorts, activePortsForKinds
  <2>4. CASE e.relation = "inferred_host_switch"
    BY <2>1, <2>2, <2>3, <2>4 DEF isActivePort, hostPorts, activePortsForKinds
  <2>5. CASE e.relation = "inferred_switch_backbone"
    <3>1. e.source.node \in Nat /\ e.target.node \in Nat /\ \A n \in switches : n \in Nat
      BY NodeIDAssumption DEF Edge, Port, switches
    <3>2. normalizeKind(kind[e.source.node]) = "switch" /\ Neighbours(e.source.node, e.target.node)
      BY <2>5 DEF switchPorts, activePortsForKinds
    <3> QED
      BY <2>1, <2>2, <2>3, <2>5, <3>1, <3>2 DEF isActivePort, Neighbours
  <2> QED
    BY <2>4, <2>5
<1>3. \A f \in edges' : Sound(f)
  BY <1>1, <1>2
<1> HIDE DEF Sound
<1>4. switches' = switches
  BY InputsStay
<1> QED
  BY <1>3, <1>4 DEF Sound, EdgesAreSound, HostEdges, Ends

LEMMA ConnectHostPortStep ==
  ASSUME EdgesInv, NEW h \in hostsLeft, ConnectHostPort(h)
  PROVE  EdgesInv'
<1>1. /\ UNCHANGED <<kind, ports>> /\ switchesLeft' = switchesLeft
      /\ hostsLeft' = hostsLeft \ {h} /\ h \in hostPorts
  BY DEF ConnectHostPort, EdgesInv, TypeOK
<1>2. /\ hostPorts' = hostPorts /\ switchPorts' = switchPorts /\ switches' = switches
  BY <1>1, InputsStay
<1>3. CASE UNCHANGED <<used, edges>>
  BY <1>1, <1>2, <1>3
  DEF EdgesInv, TypeOK, EndsAreSpent, PortsUsedOnce, Ends, EdgesAreSound, HostEdges
<1>4. ASSUME NEW p \in Free, used' = used \cup {p},
             edges' = edges \cup {[source |-> h, target |-> p,
                                   relation |-> "inferred_host_switch"]}
      PROVE  EdgesInv'
  <2> DEFINE e == [source |-> h, target |-> p, relation |-> "inferred_host_switch"]
  <2>1. p \in switchPorts /\ p \notin used
    BY DEF Free
  <2>2. h \in ports /\ p \in ports /\ ports \subseteq Port
    BY <1>1, <2>1 DEF EdgesInv, TypeOK, hostPorts, switchPorts, activePortsForKinds
  <2>3. e \in Edge
    BY <2>2 DEF Edge
  <2>4. TypeOK'
    BY <1>1, <1>2, <1>4, <2>1, <2>3 DEF EdgesInv, TypeOK
  <2>5. EndsAreSpent'
    BY <1>1, <1>2, <1>4 DEF EdgesInv, EndsAreSpent
  <2>6. \A f \in edges : Ends(e) \cap Ends(f) = {}
    BY <1>1, <2>1, KindsDiffer DEF EdgesInv, TypeOK, EndsAreSpent, Ends
  <2> HIDE DEF e
  <2>7. PortsUsedOnce'
    BY <1>4, <2>6, NewEdge DEF EdgesInv, e
  <2>8. EdgesAreSound'
    BY <1>1, <1>4, <2>1, <2>3, NewEdgeSound DEF EdgesInv, e
  <2> QED
    BY <2>4, <2>5, <2>7, <2>8 DEF EdgesInv
<1> QED
  BY <1>3, <1>4 DEF ConnectHostPort

LEMMA ConnectSwitchesStep ==
  ASSUME EdgesInv, NEW s \in NodeID, NEW t \in NodeID, ConnectSwitches(s, t)
  PROVE  EdgesInv'
<1>1. /\ UNCHANGED <<kind, ports>> /\ hostsLeft' = hostsLeft
      /\ switchesLeft' = switchesLeft \ {s} /\ Neighbours(s, t)
  BY DEF ConnectSwitches
<1>2. /\ hostPorts' = hostPorts /\ switchPorts' = switchPorts /\ switches' = switches
  BY <1>1, InputsStay
<1>3. CASE UNCHANGED edges /\ (used' = used \/ \E p \in FreeOf(s) : used' = used \cup {p})
  BY <1>1, <1>2, <1>3
  DEF EdgesInv, TypeOK, EndsAreSpent, PortsUsedOnce, Ends, EdgesAreSound, HostEdges, FreeOf, Free
<1>4. ASSUME NEW p \in FreeOf(s), NEW q \in FreeOf(t), used' = used \cup {p, q},
             edges' = edges \cup {[source |-> p, target |-> q,
                                   relation |-> "inferred_switch_backbone"]}
      PROVE  EdgesInv'
  <2> DEFINE e == [source |-> p, target |-> q, relation |-> "inferred_switch_backbone"]
  <2>1. /\ p \in switchPorts /\ p \notin used /\ p.node = s
        /\ q \in switchPorts /\ q \notin used /\ q.node = t
    BY DEF FreeOf, Free
  <2>2. p \in ports /\ q \in ports /\ ports \subseteq Port
    BY <2>1 DEF EdgesInv, TypeOK, switchPorts, activePortsForKinds
  <2>3. e \in Edge
    BY <2>2 DEF Edge
  <2>4. TypeOK'
    BY <1>1, <1>2, <1>4, <2>1, <2>3 DEF EdgesInv, TypeOK
  <2>5. EndsAreSpent'
    BY <1>1, <1>2, <1>4 DEF EdgesInv, EndsAreSpent
  <2>6. \A f \in edges : Ends(e) \cap Ends(f) = {}
    BY <2>1, KindsDiffer DEF EdgesInv, TypeOK, EndsAreSpent, Ends
  <2> HIDE DEF e
  <2>7. PortsUsedOnce'
    BY <1>4, <2>6, NewEdge DEF EdgesInv, e
  <2>8. EdgesAreSound'
    BY <1>1, <1>4, <2>1, <2>3, NewEdgeSound DEF EdgesInv, e
  <2> QED
    BY <2>4, <2>5, <2>7, <2>8 DEF EdgesInv
<1> QED
  BY <1>3, <1>4 DEF ConnectSwitches

LEMMA EdgesStep == EdgesInv /\ [Next]_vars => EdgesInv'
<1> SUFFICES ASSUME EdgesInv, [Next]_vars PROVE EdgesInv'
  OBVIOUS
<1>1. CASE UNCHANGED vars
  <2>1. UNCHANGED <<kind, ports, hostsLeft, switchesLeft, used, edges>>
    BY <1>1 DEF vars
  <2>2. hostPorts' = hostPorts /\ switchPorts' = switchPorts /\ switches' = switches
    BY <2>1, InputsStay
  <2> QED
    BY <2>1, <2>2
    DEF EdgesInv, TypeOK, EndsAreSpent, PortsUsedOnce, Ends, EdgesAreSound, HostEdges
<1>2. CASE Iterate
  BY <1>2, ConnectHostPortStep, ConnectSwitchesStep DEF Iterate
<1> QED
  BY <1>1, <1>2 DEF Next

LEMMA EdgesInvariant == Spec => []EdgesInv
BY EdgesInit, EdgesStep, PTL DEF Spec

-----------------------------------------------------------------------------
\* The loops work on ports of the snapshot only, of every size and kind.
THEOREM EdgesTypeCorrect == Spec => []TypeOK
BY EdgesInvariant, PTL DEF EdgesInv

\* No port ends two links, whatever the snapshot: the two loops share the marks
\* on switch ports, and the host ports are visited once.
THEOREM PortsUsedOnceCorrect == Spec => []PortsUsedOnce
BY EdgesInvariant, PTL DEF EdgesInv

\* Every link joins Active, numbered ports: of a host and a switch, or of two
\* switches that follow each other by id.
THEOREM EdgesSoundCorrect == Spec => []EdgesAreSound
BY EdgesInvariant, PTL DEF EdgesInv

-----------------------------------------------------------------------------
HostSources == {e.source : e \in HostEdges}
HostTargets == {e.target : e \in HostEdges}
Linked == UNION {Ends(e) : e \in edges}
PortsOfSwitch(n) == {p \in switchPorts : p.node = n}

\* Until the first loop ends, only its own links exist and only their targets
\* are marked.
HostLoop ==
  hostsLeft # {} =>
    switchesLeft = switches /\ edges = HostEdges /\ used = HostTargets

\* The first loop takes the host ports in their order, and visits each once.
VisitedInOrder ==
  \A e \in HostEdges :
    /\ e.source \in hostPorts \ hostsLeft
    /\ \A h \in hostsLeft : Before(e.source, h)

\* A link of the first loop has a port of each side to itself.
OneToOne ==
  /\ IsFiniteSet(ports) /\ IsFiniteSet(HostEdges)
  /\ Cardinality(HostSources) = Cardinality(HostEdges)
  /\ Cardinality(HostTargets) = Cardinality(HostEdges)

\* A host port stays without a link only if no switch port is left.
NothingWasted ==
  HostSources = hostPorts \ hostsLeft \/ HostTargets = switchPorts

\* The second loop takes the switches in their order.
SourcesInOrder ==
  \A s \in switchesLeft, n \in switches : s <= n => n \in switchesLeft

\* A marked port has a link, or its switch was a source; it is marked as the
\* target of a host, or for a source that its switch was or follows.
MarksAreJustified ==
  \A p \in used :
    /\ p \in Linked \/ p.node \notin switchesLeft
    /\ \/ p \in HostTargets
       \/ \E s \in switches \ switchesLeft : s = p.node \/ Neighbours(s, p.node)

\* What BackboneMaximal asks of two neighbours.
Served(s, t) ==
  \/ \E e \in BackboneEdges : e.source.node = s /\ e.target.node = t
  \/ PortsOfSwitch(s) \subseteq Linked
  \/ PortsOfSwitch(t) \subseteq HostTargets

SourcesServed ==
  \A s \in switches \ switchesLeft, t \in switches : Neighbours(s, t) => Served(s, t)

GreedyInv ==
  /\ EdgesInv
  /\ HostLoop /\ VisitedInOrder /\ LinkMatchPreferred /\ OneToOne /\ NothingWasted
  /\ SourcesInOrder /\ MarksAreJustified /\ SourcesServed

LEMMA GreedyInit == Init => GreedyInv
<1> SUFFICES ASSUME Init PROVE GreedyInv
  OBVIOUS
<1>1. EdgesInv /\ IsFiniteSet(ports)
  BY EdgesInit, FamilyAssumption DEF Init
<1>2. used = {} /\ edges = {} /\ hostsLeft = hostPorts /\ switchesLeft = switches
  BY DEF Init
<1>3. HostEdges = {} /\ HostSources = {} /\ HostTargets = {}
  BY <1>2 DEF HostEdges, HostSources, HostTargets
<1>4. OneToOne
  BY <1>1, <1>3, FS_EmptySet DEF OneToOne
<1>5. HostLoop /\ VisitedInOrder /\ LinkMatchPreferred /\ NothingWasted
  BY <1>2, <1>3 DEF HostLoop, VisitedInOrder, LinkMatchPreferred, NothingWasted
<1>6. SourcesInOrder /\ MarksAreJustified /\ SourcesServed
  BY <1>2 DEF SourcesInOrder, MarksAreJustified, SourcesServed
<1> QED
  BY <1>1, <1>4, <1>5, <1>6 DEF GreedyInv

LEMMA GreedyHost ==
  ASSUME GreedyInv, NEW h \in hostsLeft, ConnectHostPort(h)
  PROVE  GreedyInv'
<1>1. EdgesInv'
  BY ConnectHostPortStep DEF GreedyInv
<1>2. /\ UNCHANGED <<kind, ports>> /\ switchesLeft' = switchesLeft
      /\ hostsLeft' = hostsLeft \ {h}
      /\ \A g \in hostsLeft : g = h \/ Before(h, g)
  BY DEF ConnectHostPort, IsFirstPort
<1>3. /\ hostPorts' = hostPorts /\ switchPorts' = switchPorts /\ switches' = switches
  BY <1>2, InputsStay
<1>4. /\ switchesLeft = switches /\ edges = HostEdges /\ used = HostTargets
      /\ h \in hostPorts /\ used \subseteq switchPorts
  BY DEF GreedyInv, HostLoop, EdgesInv, TypeOK
<1>5. SourcesInOrder' /\ SourcesServed'
  BY <1>2, <1>3, <1>4 DEF SourcesInOrder, SourcesServed
<1>6. VisitedInOrder /\ LinkMatchPreferred /\ OneToOne /\ NothingWasted
  BY DEF GreedyInv
<1>7. CASE Free = {} /\ UNCHANGED <<used, edges>>
  <2>1. HostEdges' = HostEdges
    BY <1>7 DEF HostEdges
  <2>2. HostSources' = HostSources /\ HostTargets' = HostTargets /\ Linked' = Linked
    BY <1>7, <2>1 DEF HostSources, HostTargets, Linked
  <2>3. HostTargets = switchPorts
    BY <1>4, <1>7 DEF Free
  <2>4. HostLoop' /\ VisitedInOrder' /\ LinkMatchPreferred'
    BY <1>2, <1>3, <1>4, <1>6, <1>7, <2>1, <2>2 DEF HostLoop, VisitedInOrder, LinkMatchPreferred
  <2>5. OneToOne' /\ NothingWasted'
    BY <1>2, <1>3, <1>6, <2>1, <2>2, <2>3 DEF OneToOne, NothingWasted
  <2>6. MarksAreJustified'
    BY <1>4, <1>7, <2>1, <2>2 DEF MarksAreJustified, HostTargets, Linked, Ends
  <2> QED
    BY <1>1, <1>5, <2>4, <2>5, <2>6 DEF GreedyInv
<1>8. ASSUME NEW p \in Free, PickedFor(h, p), used' = used \cup {p},
             edges' = edges \cup {[source |-> h, target |-> p,
                                   relation |-> "inferred_host_switch"]}
      PROVE  GreedyInv'
  <2> DEFINE e == [source |-> h, target |-> p, relation |-> "inferred_host_switch"]
  <2>1. e.source = h /\ e.target = p /\ e.relation = "inferred_host_switch"
    OBVIOUS
  <2> HIDE DEF e
  <2>2. edges' = edges \cup {e}
    BY <1>8 DEF e
  <2>3. HostEdges' = HostEdges \cup {e}
    BY <2>1, <2>2 DEF HostEdges
  <2>4. HostSources' = HostSources \cup {h} /\ HostTargets' = HostTargets \cup {p}
    BY <2>1, <2>3 DEF HostSources, HostTargets
  <2>5. p \in switchPorts /\ p \notin HostTargets
    BY <1>4 DEF Free
  <2>6. h \notin HostSources
    BY <1>6 DEF VisitedInOrder, HostSources
  <2>7. HostLoop'
    BY <1>2, <1>3, <1>4, <1>8, <2>2, <2>3, <2>4 DEF HostLoop
  <2>8. VisitedInOrder'
    BY <1>2, <1>3, <1>4, <1>6, <2>1, <2>3 DEF VisitedInOrder
  <2>9. LinkMatchPreferred'
    <3> SUFFICES ASSUME NEW f \in HostEdges',
                        ~ sameLinkCharacteristics(f.source, f.target),
                        NEW q \in switchPorts, sameLinkCharacteristics(f.source, q)
                 PROVE  \E g \in HostEdges' : g.target = q /\ Before(g.source, f.source)
      BY <1>3 DEF LinkMatchPreferred
    <3>1. CASE f \in HostEdges
      BY <1>6, <2>3, <3>1 DEF LinkMatchPreferred
    <3>2. CASE f = e
      <4>1. ~ sameLinkCharacteristics(h, p) /\ sameLinkCharacteristics(h, q)
        BY <2>1, <3>2
      <4>2. q \in used
        BY <1>8, <4>1 DEF PickedFor, IsFirstPort, Free
      <4>3. PICK g \in HostEdges : g.target = q
        BY <1>4, <4>2 DEF HostTargets
      <4> QED
        BY <1>6, <2>1, <2>3, <3>2, <4>3 DEF VisitedInOrder
    <3> QED
      BY <2>3, <3>1, <3>2
  <2>10. OneToOne'
    <3>1. /\ IsFiniteSet(HostEdges) /\ HostSources \subseteq ports /\ HostTargets \subseteq ports
          /\ IsFiniteSet(ports)
      BY <1>4, <1>6 DEF OneToOne, VisitedInOrder, HostSources, switchPorts, hostPorts,
        activePortsForKinds
    <3>2. IsFiniteSet(HostSources) /\ IsFiniteSet(HostTargets)
      BY <3>1, FS_Subset
    <3>3. e \notin HostEdges
      BY <2>1, <2>6 DEF HostSources
    <3>4. /\ IsFiniteSet(HostEdges \cup {e})
          /\ Cardinality(HostEdges \cup {e}) = Cardinality(HostEdges) + 1
      BY <3>1, <3>3, FS_AddElement
    <3>5. /\ Cardinality(HostSources \cup {h}) = Cardinality(HostSources) + 1
          /\ Cardinality(HostTargets \cup {p}) = Cardinality(HostTargets) + 1
      BY <2>5, <2>6, <3>2, FS_AddElement
    <3> QED
      BY <1>2, <1>6, <2>3, <2>4, <3>4, <3>5 DEF OneToOne
  <2>11. NothingWasted'
    <3>1. HostSources = hostPorts \ hostsLeft
      BY <1>6, <2>5 DEF NothingWasted
    <3> QED
      BY <1>2, <1>3, <1>4, <2>4, <3>1 DEF NothingWasted
  <2>12. MarksAreJustified'
    <3>1. used' = HostTargets'
      BY <1>4, <1>8, <2>4
    <3>2. HostTargets' \subseteq Linked'
      BY DEF HostTargets, HostEdges, Linked, Ends
    <3> QED
      BY <3>1, <3>2 DEF MarksAreJustified
  <2> QED
    BY <1>1, <1>5, <2>7, <2>8, <2>9, <2>10, <2>11, <2>12 DEF GreedyInv
<1> QED
  BY <1>7, <1>8 DEF ConnectHostPort

\* Neighbours are neighbours of each other only.
LEMMA OneNeighbour ==
  ASSUME NEW s \in switches, NEW t, Neighbours(s, t)
  PROVE  /\ \A u : Neighbours(s, u) => u = t
         /\ \A u \in switches : Neighbours(u, t) => u = s
<1>1. switches \subseteq Nat
  BY NodeIDAssumption DEF switches
<1>2. /\ t \in switches /\ s < t
      /\ \A n \in switches : n <= s \/ t <= n
  BY DEF Neighbours
<1>3. ASSUME NEW u, Neighbours(s, u) PROVE u = t
  <2>1. /\ u \in switches /\ s < u
        /\ \A n \in switches : n <= s \/ u <= n
    BY <1>3 DEF Neighbours
  <2>2. t <= u /\ u <= t /\ t \in Nat /\ u \in Nat
    BY <1>1, <1>2, <2>1
  <2> QED
    BY <2>2
<1>4. ASSUME NEW u \in switches, Neighbours(u, t) PROVE u = s
  <2>1. /\ u < t
        /\ \A n \in switches : n <= u \/ t <= n
    BY <1>4 DEF Neighbours
  <2>2. s <= u /\ u <= s /\ s \in Nat /\ u \in Nat
    BY <1>1, <1>2, <2>1
  <2> QED
    BY <2>2
<1> QED
  BY <1>3, <1>4

LEMMA GreedySwitches ==
  ASSUME GreedyInv, NEW s \in NodeID, NEW t \in NodeID, ConnectSwitches(s, t)
  PROVE  GreedyInv'
<1>1. EdgesInv'
  BY ConnectSwitchesStep DEF GreedyInv
<1>2. /\ UNCHANGED <<kind, ports, hostsLeft>> /\ hostsLeft = {}
      /\ switchesLeft' = switchesLeft \ {s} /\ Neighbours(s, t)
      /\ s \in switchesLeft /\ \A n \in switchesLeft : s <= n
  BY DEF ConnectSwitches
<1>3. /\ hostPorts' = hostPorts /\ switchPorts' = switchPorts /\ switches' = switches
  BY <1>2, InputsStay
<1>4. /\ switches \subseteq Nat /\ switchesLeft \subseteq switches /\ t \in switches
      /\ used \subseteq switchPorts
  BY <1>2, NodeIDAssumption DEF switches, GreedyInv, EdgesInv, TypeOK, Neighbours
<1>5. /\ HostEdges' = HostEdges /\ BackboneEdges \subseteq BackboneEdges'
      /\ Linked \subseteq Linked'
  BY DEF ConnectSwitches, HostEdges, BackboneEdges, Linked, Ends
<1>6. HostSources' = HostSources /\ HostTargets' = HostTargets
  BY <1>5 DEF HostSources, HostTargets
<1>7. HostLoop' /\ VisitedInOrder' /\ LinkMatchPreferred' /\ OneToOne' /\ NothingWasted'
  BY <1>2, <1>3, <1>5, <1>6
  DEF GreedyInv, HostLoop, VisitedInOrder, LinkMatchPreferred, OneToOne, NothingWasted
<1>8. SourcesInOrder'
  BY <1>2, <1>3, <1>4 DEF GreedyInv, SourcesInOrder
<1>9. /\ t \in switchesLeft
      /\ \A n \in switches \ switchesLeft : ~ Neighbours(n, t)
  BY <1>2, <1>4, OneNeighbour DEF GreedyInv, SourcesInOrder, Neighbours
<1>10. \A p \in used : /\ p.node = s => p \in Linked
                       /\ p.node = t => p \in HostTargets
  BY <1>2, <1>9 DEF GreedyInv, MarksAreJustified
<1>11. ASSUME Served(s, t)' PROVE SourcesServed'
  <2> SUFFICES ASSUME NEW m \in switches \ switchesLeft', NEW n \in switches, Neighbours(m, n)
               PROVE  Served(m, n)'
    BY <1>3 DEF SourcesServed, Neighbours
  <2>1. CASE m = s
    BY <1>2, <1>4, <1>11, <2>1, OneNeighbour
  <2>2. CASE m # s
    <3>1. Served(m, n)
      BY <1>2, <2>2 DEF GreedyInv, SourcesServed
    <3> QED
      BY <1>3, <1>5, <1>6, <3>1 DEF Served, PortsOfSwitch
  <2> QED
    BY <2>1, <2>2
\* What is marked in this step is a port of the source, or of the target, which
\* then has its link.
<1>12. ASSUME \A p \in used' \ used : p.node = s \/ (p.node = t /\ p \in Linked')
       PROVE  MarksAreJustified'
  <2> SUFFICES ASSUME NEW p \in used'
               PROVE  /\ p \in Linked' \/ p.node \notin switchesLeft'
                      /\ \/ p \in HostTargets'
                         \/ \E m \in switches \ switchesLeft' : m = p.node \/ Neighbours(m, p.node)
    BY <1>3 DEF MarksAreJustified, Neighbours
  <2>1. CASE p \in used
    BY <1>2, <1>5, <1>6, <2>1 DEF GreedyInv, MarksAreJustified
  <2>2. CASE p \notin used
    BY <1>2, <1>4, <1>12, <2>2
  <2> QED
    BY <2>1, <2>2
<1>13. CASE FreeOf(s) = {} /\ UNCHANGED <<used, edges>>
  <2>1. PortsOfSwitch(s) \subseteq Linked
    BY <1>10, <1>13 DEF PortsOfSwitch, FreeOf, Free
  <2>2. Served(s, t)'
    BY <1>3, <1>5, <2>1 DEF Served, PortsOfSwitch
  <2> QED
    BY <1>1, <1>7, <1>8, <1>11, <1>12, <1>13, <2>2 DEF GreedyInv
<1>14. ASSUME NEW p \in FreeOf(s), FreeOf(t) = {}, used' = used \cup {p}, UNCHANGED edges
       PROVE  GreedyInv'
  <2>1. PortsOfSwitch(t) \subseteq HostTargets
    BY <1>10, <1>14 DEF PortsOfSwitch, FreeOf, Free
  <2>2. Served(s, t)'
    BY <1>3, <1>6, <2>1 DEF Served, PortsOfSwitch
  <2>3. \A q \in used' \ used : q.node = s
    BY <1>14 DEF FreeOf
  <2> QED
    BY <1>1, <1>7, <1>8, <1>11, <1>12, <2>2, <2>3 DEF GreedyInv
<1>15. ASSUME NEW p \in FreeOf(s), NEW q \in FreeOf(t), used' = used \cup {p, q},
              edges' = edges \cup {[source |-> p, target |-> q,
                                    relation |-> "inferred_switch_backbone"]}
       PROVE  GreedyInv'
  <2> DEFINE e == [source |-> p, target |-> q, relation |-> "inferred_switch_backbone"]
  <2>1. e \in edges' /\ e.source = p /\ e.target = q /\ e.relation = "inferred_switch_backbone"
    BY <1>15
  <2> HIDE DEF e
  <2>2. p.node = s /\ q.node = t
    BY DEF FreeOf
  <2>3. e \in BackboneEdges' /\ q \in Linked'
    BY <2>1 DEF BackboneEdges, Linked, Ends
  <2>4. Served(s, t)'
    BY <2>1, <2>2, <2>3 DEF Served
  <2>5. \A r \in used' \ used : r.node = s \/ (r.node = t /\ r \in Linked')
    BY <1>15, <2>2, <2>3
  <2> QED
    BY <1>1, <1>7, <1>8, <1>11, <1>12, <2>4, <2>5 DEF GreedyInv
<1> QED
  BY <1>13, <1>14, <1>15 DEF ConnectSwitches

LEMMA GreedyStep == GreedyInv /\ [Next]_vars => GreedyInv'
<1> SUFFICES ASSUME GreedyInv, [Next]_vars PROVE GreedyInv'
  OBVIOUS
<1>1. CASE UNCHANGED vars
  <2>1. UNCHANGED <<kind, ports, hostsLeft, switchesLeft, used, edges>>
    BY <1>1 DEF vars
  <2>2. hostPorts' = hostPorts /\ switchPorts' = switchPorts /\ switches' = switches
    BY <2>1, InputsStay
  <2>3. /\ HostEdges' = HostEdges /\ BackboneEdges' = BackboneEdges /\ Linked' = Linked
        /\ HostSources' = HostSources /\ HostTargets' = HostTargets
    BY <2>1 DEF HostEdges, BackboneEdges, Linked, HostSources, HostTargets
  <2>4. EdgesInv'
    BY <1>1, EdgesStep DEF GreedyInv
  <2>5. HostLoop' /\ VisitedInOrder' /\ LinkMatchPreferred' /\ OneToOne' /\ NothingWasted'
    BY <2>1, <2>2, <2>3
    DEF GreedyInv, HostLoop, VisitedInOrder, LinkMatchPreferred, OneToOne, NothingWasted
  <2>6. SourcesInOrder' /\ MarksAreJustified'
    BY <2>1, <2>2, <2>3 DEF GreedyInv, SourcesInOrder, MarksAreJustified, Neighbours
  <2>7. SourcesServed'
    BY <2>1, <2>2, <2>3 DEF GreedyInv, SourcesServed, Served, PortsOfSwitch, Neighbours
  <2> QED
    BY <2>4, <2>5, <2>6, <2>7 DEF GreedyInv
<1>2. CASE Iterate
  BY <1>2, GreedyHost, GreedySwitches DEF Iterate
<1> QED
  BY <1>1, <1>2 DEF Next

LEMMA GreedyInvariant == Spec => []GreedyInv
BY GreedyInit, GreedyStep, PTL DEF Spec

LEMMA HostsAtTheEnd == GreedyInv => HostLinksMaximal
<1> SUFFICES ASSUME GreedyInv, hostsLeft = {}
             PROVE  LET hosts == Cardinality(hostPorts)
                        free == Cardinality(switchPorts)
                    IN Cardinality(HostEdges) = IF hosts < free THEN hosts ELSE free
  BY DEF HostLinksMaximal
<1>1. IsFiniteSet(hostPorts) /\ IsFiniteSet(switchPorts)
  <2>1. hostPorts \subseteq ports /\ switchPorts \subseteq ports /\ IsFiniteSet(ports)
    BY DEF GreedyInv, OneToOne, hostPorts, switchPorts, activePortsForKinds
  <2> QED
    BY <2>1, FS_Subset
<1>2. HostSources \subseteq hostPorts /\ HostTargets \subseteq switchPorts
  BY DEF GreedyInv, VisitedInOrder, EndsAreSpent, EdgesInv, TypeOK, HostSources, HostTargets, HostEdges
<1>3. /\ Cardinality(HostSources) \in Nat /\ Cardinality(HostSources) <= Cardinality(hostPorts)
      /\ Cardinality(HostTargets) \in Nat /\ Cardinality(HostTargets) <= Cardinality(switchPorts)
      /\ Cardinality(hostPorts) \in Nat /\ Cardinality(switchPorts) \in Nat
  BY <1>1, <1>2, FS_Subset, FS_CardinalityType
<1>4. HostSources = hostPorts \/ HostTargets = switchPorts
  BY DEF GreedyInv, NothingWasted
<1> QED
  BY <1>3, <1>4 DEF GreedyInv, OneToOne

LEMMA SwitchesAtTheEnd == GreedyInv => BackboneMaximal
<1> SUFFICES ASSUME GreedyInv, Done, NEW s \in switches, NEW t \in switches, Neighbours(s, t)
             PROVE  Served(s, t)
  BY DEF BackboneMaximal, Served, PortsOfSwitch, Linked, HostTargets
<1>1. IsFiniteSet(switchesLeft) /\ Cardinality(switchesLeft) <= 1
  <2>1. switchesLeft \subseteq NodeID
    BY DEF GreedyInv, EdgesInv, TypeOK, switches
  <2> QED
    BY <2>1, NodeIDAssumption, FS_Subset DEF Done
<1>2. s < t /\ s \in Nat /\ t \in Nat
  BY NodeIDAssumption DEF Neighbours, switches
<1>3. s \notin switchesLeft
  <2> SUFFICES ASSUME s \in switchesLeft PROVE FALSE
    OBVIOUS
  <2>1. t \in switchesLeft
    BY <1>2 DEF GreedyInv, SourcesInOrder
  <2>2. Cardinality(switchesLeft) \in Nat /\ Cardinality(switchesLeft) # 0
    BY <1>1, <2>1, FS_CardinalityType, FS_EmptySet
  <2>3. \E x : switchesLeft = {x}
    BY <1>1, <2>2, FS_Singleton
  <2> QED
    BY <1>2, <2>1, <2>3
<1> QED
  BY <1>3 DEF GreedyInv, SourcesServed

\* pickSwitchPort prefers a port with the same link, whatever was linked before:
\* a host port gets another one only if all of its own were taken earlier.
THEOREM LinkMatchCorrect == Spec => []LinkMatchPreferred
<1>1. GreedyInv => LinkMatchPreferred
  BY DEF GreedyInv
<1> QED
  BY <1>1, GreedyInvariant, PTL

\* When the loop over the host ports has ended, one of the two sides has no active
\* port left, for every number of hosts, switches and ports.
THEOREM HostLinksCorrect == Spec => []HostLinksMaximal
BY GreedyInvariant, HostsAtTheEnd, PTL

\* When the loop over the switches has ended, neighbours without a link had no
\* port left for one, in spite of the marks that a source port gets in vain.
THEOREM BackboneCorrect == Spec => []BackboneMaximal
BY GreedyInvariant, SwitchesAtTheEnd, PTL

-----------------------------------------------------------------------------
(***************************************************************************)
(* The groups.  Kinds is a recursive function; that it exists, and what it *)
(* takes of the order, is proved by induction over the order, which rests  *)
(* on the order of the natural numbers being well-founded.                 *)
(***************************************************************************)
LEMMA Least ==
  ASSUME NEW T \in SUBSET Nat, T # {}
  PROVE  \E x \in T : \A y \in T : x <= y
<1> DEFINE R == OpToRel(<, Nat)
<1>1. IsWellFoundedOn(R, Nat)
  BY NatLessThanWellFounded
<1>2. \A x, y \in Nat : y < x => <<y, x>> \in R
  BY DEF OpToRel
<1> HIDE DEF R
<1>3. PICK x \in T : \A y \in T : ~ (<<y, x>> \in R)
  BY <1>1, WFMin
<1>4. ASSUME NEW y \in T PROVE x <= y
  <2>1. y \in Nat /\ x \in Nat
    OBVIOUS
  <2>2. ~ (y < x)
    BY <1>2, <1>3, <2>1
  <2> QED
    BY <2>1, <2>2
<1> QED
  BY <1>4

LEMMA ByInduction ==
  ASSUME NEW S \in SUBSET Nat, 0 \in S, \A n \in S : n + 1 \in S
  PROVE  S = Nat
<1> SUFFICES ASSUME S # Nat PROVE FALSE
  OBVIOUS
<1>1. PICK x \in Nat \ S : \A y \in Nat \ S : x <= y
  <2>1. Nat \ S # {} /\ Nat \ S \in SUBSET Nat
    OBVIOUS
  <2> QED
    BY <2>1, Least
<1>2. x # 0 /\ x - 1 \in Nat
  BY <1>1
<1>3. x - 1 \in S
  BY <1>1, <1>2
<1> QED
  BY <1>1, <1>2, <1>3

\* The body of Kinds' recursion.
TakenOf(f, n) ==
  IF n = 0 THEN <<>>
  ELSE IF Taken(n) THEN Append(f[n - 1], Order[n]) ELSE f[n - 1]

LEMMA TakenExists ==
  ASSUME NEW N \in Nat
  PROVE  \E f : f = [n \in 0 .. N |-> TakenOf(f, n)]
<1> DEFINE S == {m \in Nat : \E f : f = [n \in 0 .. m |-> TakenOf(f, n)]}
<1>1. 0 \in S
  <2> DEFINE f == [n \in 0 .. 0 |-> <<>>]
  <2>1. f = [n \in 0 .. 0 |-> TakenOf(f, n)]
    BY DEF TakenOf
  <2> QED
    BY <2>1
<1>2. ASSUME NEW m \in S PROVE m + 1 \in S
  <2>1. PICK f : f = [n \in 0 .. m |-> TakenOf(f, n)]
    OBVIOUS
  <2> DEFINE h == [n \in 0 .. m + 1 |-> IF n = m + 1 THEN TakenOf(f, n) ELSE f[n]]
  <2>2. m \in Nat
    OBVIOUS
  <2>3. ASSUME NEW n \in 0 .. m + 1 PROVE h[n] = TakenOf(h, n)
    <3>1. \A k \in 0 .. m : h[k] = f[k]
      BY <2>2
    <3>2. CASE n = m + 1
      <4>1. h[n] = TakenOf(f, n)
        BY <3>2
      <4>2. n # 0 /\ n - 1 \in 0 .. m
        BY <2>2, <3>2
      <4> HIDE DEF h
      <4> QED
        BY <3>1, <4>1, <4>2 DEF TakenOf
    <3>3. CASE n # m + 1
      <4>1. n \in 0 .. m /\ (n # 0 => n - 1 \in 0 .. m)
        BY <2>2, <3>3
      <4>2. h[n] = f[n] /\ f[n] = TakenOf(f, n)
        BY <2>1, <3>1, <4>1
      <4> HIDE DEF h
      <4> QED
        BY <3>1, <4>1, <4>2 DEF TakenOf
    <3> QED
      BY <3>2, <3>3
  <2>4. h = [n \in 0 .. m + 1 |-> TakenOf(h, n)]
    <3>1. h = [n \in 0 .. m + 1 |-> h[n]]
      OBVIOUS
    <3> HIDE DEF h
    <3> QED
      BY <2>3, <3>1
  <2> HIDE DEF h
  <2>5. m + 1 \in Nat /\ \E k : k = [n \in 0 .. m + 1 |-> TakenOf(k, n)]
    BY <2>2, <2>4
  <2> QED
    BY <2>5
<1>3. S \in SUBSET Nat
  OBVIOUS
<1> HIDE DEF S
<1>4. S = Nat
  BY <1>1, <1>2, <1>3, ByInduction
<1> QED
  BY <1>4 DEF S

AnyKind == {"host", "switch", "unknown"} \cup {Alphabet[a] : a \in DOMAIN Alphabet}

\* What has been taken of the first n kinds: each that has nodes, in order.
TakenUpTo(n, out) ==
  /\ out \in Seq(AnyKind)
  /\ \A g \in DOMAIN out : \E a \in 1 .. n : Taken(a) /\ out[g] = Order[a]
  /\ \A a \in 1 .. n : Taken(a) => \E g \in DOMAIN out : out[g] = Order[a]
  /\ \A g, h \in DOMAIN out : g < h =>
       \E a, b \in 1 .. n : /\ a < b /\ Taken(a) /\ Taken(b)
                           /\ out[g] = Order[a] /\ out[h] = Order[b]

LEMMA OrderType ==
  /\ Order \in Seq(AnyKind) /\ Len(Order) = 3 + Len(Alphabet) /\ Len(Alphabet) \in Nat
  /\ Order[1] = "host" /\ Order[2] = "switch" /\ Order[3] = "unknown"
  /\ \A a \in 4 .. Len(Order) : a - 3 \in DOMAIN Alphabet /\ Order[a] = Alphabet[a - 3]
  /\ \A a \in DOMAIN Alphabet : 3 + a \in 4 .. Len(Order) /\ Order[3 + a] = Alphabet[a]
<1>1. First \in Seq(AnyKind) /\ Len(First) = 3 /\ Alphabet \in Seq(AnyKind)
  <2>1. "host" \in AnyKind /\ "switch" \in AnyKind /\ "unknown" \in AnyKind
    BY DEF AnyKind
  <2>2. First \in Seq(AnyKind)
    BY <2>1 DEF First
  <2>3. Len(First) = 3
    BY DEF First
  <2>4. Alphabet \in Seq(STRING)
    BY AlphabetAssumption
  <2>5. \A a \in DOMAIN Alphabet : Alphabet[a] \in AnyKind
    BY DEF AnyKind
  <2>6. Alphabet \in Seq(AnyKind)
    BY <2>4, <2>5
  <2> QED
    BY <2>2, <2>3, <2>6
<1>2. First[1] = "host" /\ First[2] = "switch" /\ First[3] = "unknown"
  BY DEF First
<1>3. Order = First \o Alphabet
  BY DEF Order
<1>4. Order \in Seq(AnyKind) /\ Len(Order) = 3 + Len(Alphabet) /\ Len(Alphabet) \in Nat
  <2>1. First \o Alphabet \in Seq(AnyKind) /\ Len(First \o Alphabet) = Len(First) + Len(Alphabet)
    BY <1>1, ConcatProperties
  <2>2. Len(Alphabet) \in Nat
    BY <1>1
  <2> QED
    BY <1>1, <1>3, <2>1, <2>2
<1>5. \A a \in 1 .. Len(Order) : Order[a] = IF a <= 3 THEN First[a] ELSE Alphabet[a - 3]
  <2>1. \A a \in 1 .. Len(First) + Len(Alphabet) :
          (First \o Alphabet)[a] = IF a <= Len(First) THEN First[a] ELSE Alphabet[a - Len(First)]
    BY <1>1, ConcatProperties
  <2> QED
    BY <1>1, <1>3, <1>4, <2>1
<1>6. Order[1] = "host" /\ Order[2] = "switch" /\ Order[3] = "unknown"
  BY <1>2, <1>4, <1>5
<1>7. \A a \in 4 .. Len(Order) : a - 3 \in DOMAIN Alphabet /\ Order[a] = Alphabet[a - 3]
  BY <1>1, <1>4, <1>5
<1>8. \A a \in DOMAIN Alphabet : 3 + a \in 4 .. Len(Order) /\ Order[3 + a] = Alphabet[a]
  BY <1>1, <1>4, <1>5
<1> QED
  BY <1>4, <1>6, <1>7, <1>8

LEMMA TakenStep ==
  ASSUME NEW n \in Nat, n + 1 <= Len(Order), NEW out, TakenUpTo(n, out)
  PROVE  TakenUpTo(n + 1, IF Taken(n + 1) THEN Append(out, Order[n + 1]) ELSE out)
<1>1. n + 1 \in 1 .. n + 1 /\ \A a \in 1 .. n + 1 : a \in 1 .. n \/ a = n + 1
  OBVIOUS
<1>2. \A a \in 1 .. n : a \in 1 .. n + 1 /\ a < n + 1
  OBVIOUS
<1>3. CASE ~ Taken(n + 1)
  BY <1>1, <1>2, <1>3 DEF TakenUpTo
<1>4. CASE Taken(n + 1)
  <2>1. out \in Seq(AnyKind) /\ Order[n + 1] \in AnyKind
    BY OrderType DEF TakenUpTo
  <2> DEFINE more == Append(out, Order[n + 1])
  <2>2. /\ more \in Seq(AnyKind) /\ Len(more) = Len(out) + 1 /\ Len(out) \in Nat
        /\ more[Len(out) + 1] = Order[n + 1]
        /\ \A g \in DOMAIN out : g \in DOMAIN more /\ more[g] = out[g]
        /\ \A g \in DOMAIN more : g \in DOMAIN out \/ g = Len(out) + 1
        /\ \A g \in DOMAIN out : g <= Len(out)
        /\ Len(out) + 1 \in DOMAIN more
    BY <2>1
  <2> HIDE DEF more
  <2>3. ASSUME NEW g \in DOMAIN more PROVE \E a \in 1 .. n + 1 : Taken(a) /\ more[g] = Order[a]
    <3>1. CASE g \in DOMAIN out
      <4>1. PICK a \in 1 .. n : Taken(a) /\ out[g] = Order[a]
        BY <3>1 DEF TakenUpTo
      <4> QED
        BY <1>2, <2>2, <3>1, <4>1
    <3>2. CASE g = Len(out) + 1
      BY <1>1, <1>4, <2>2, <3>2
    <3> QED
      BY <2>2, <3>1, <3>2
  <2>4. ASSUME NEW a \in 1 .. n + 1, Taken(a) PROVE \E g \in DOMAIN more : more[g] = Order[a]
    <3>1. CASE a \in 1 .. n
      <4>1. PICK g \in DOMAIN out : out[g] = Order[a]
        BY <2>4, <3>1 DEF TakenUpTo
      <4> QED
        BY <2>2, <4>1
    <3>2. CASE a = n + 1
      BY <2>2, <3>2
    <3> QED
      BY <1>1, <3>1, <3>2
  <2>5. ASSUME NEW g \in DOMAIN more, NEW h \in DOMAIN more, g < h
        PROVE  \E a, b \in 1 .. n + 1 : /\ a < b /\ Taken(a) /\ Taken(b)
                                        /\ more[g] = Order[a] /\ more[h] = Order[b]
    <3>1. CASE h \in DOMAIN out
      <4>1. g \in DOMAIN out
        BY <2>1, <2>2, <2>5, <3>1
      <4>2. PICK a, b \in 1 .. n : /\ a < b /\ Taken(a) /\ Taken(b)
                                  /\ out[g] = Order[a] /\ out[h] = Order[b]
        BY <2>5, <3>1, <4>1 DEF TakenUpTo
      <4> QED
        BY <1>2, <2>2, <3>1, <4>1, <4>2
    <3>2. CASE h \notin DOMAIN out
      <4>1. h = Len(out) + 1 /\ g \in DOMAIN out
        BY <2>1, <2>2, <2>5, <3>2
      <4>2. PICK a \in 1 .. n : Taken(a) /\ out[g] = Order[a]
        BY <4>1 DEF TakenUpTo
      <4>3. a < n + 1 /\ a \in 1 .. n + 1 /\ n + 1 \in 1 .. n + 1
        BY <1>1
      <4> QED
        BY <1>2, <1>4, <2>2, <4>1, <4>2, <4>3
    <3> QED
      BY <3>1, <3>2
  <2>6. TakenUpTo(n + 1, more)
    BY <2>2, <2>3, <2>4, <2>5 DEF TakenUpTo
  <2> QED
    BY <1>4, <2>6 DEF more
<1> QED
  BY <1>3, <1>4

LEMMA KindsAreTaken == TakenUpTo(Len(Order), Kinds)
<1> DEFINE out == CHOOSE f : f = [n \in 0 .. Len(Order) |-> TakenOf(f, n)]
<1>1. Len(Order) \in Nat
  BY OrderType
<1>2. out = [n \in 0 .. Len(Order) |-> TakenOf(out, n)]
  BY <1>1, TakenExists
<1>3. Kinds = out[Len(Order)]
  BY DEF Kinds, TakenOf
<1> HIDE DEF out
<1>4. \A n \in 0 .. Len(Order) : out[n] = TakenOf(out, n)
  BY <1>2
<1> DEFINE S == {n \in Nat : n <= Len(Order) => TakenUpTo(n, out[n])}
<1>5. 0 \in S
  <2>1. out[0] = <<>>
    BY <1>1, <1>4 DEF TakenOf
  <2>2. TakenUpTo(0, <<>>)
    BY DEF TakenUpTo
  <2> QED
    BY <2>1, <2>2
<1>6. ASSUME NEW n \in S PROVE n + 1 \in S
  <2> SUFFICES ASSUME n + 1 <= Len(Order) PROVE TakenUpTo(n + 1, out[n + 1])
    OBVIOUS
  <2>1. n \in Nat /\ TakenUpTo(n, out[n])
    BY <1>1
  <2>2. n + 1 \in 0 .. Len(Order) /\ n + 1 # 0 /\ (n + 1) - 1 = n
    BY <1>1, <2>1
  <2>3. out[n + 1] = IF Taken(n + 1) THEN Append(out[n], Order[n + 1]) ELSE out[n]
    BY <1>4, <2>2 DEF TakenOf
  <2> QED
    BY <2>1, <2>3, TakenStep
<1>7. S \in SUBSET Nat
  OBVIOUS
<1> HIDE DEF S
<1>8. S = Nat
  BY <1>5, <1>6, <1>7, ByInduction
<1> QED
  BY <1>1, <1>3, <1>8 DEF S

\* Every node's kind is in the alphabet.
KindsKnown == \A n \in NodeID : \E a \in DOMAIN Alphabet : Alphabet[a] = KindOfNode(n)

Rank(k, r) ==
  \/ k = "host" /\ r = 1
  \/ k = "switch" /\ r = 2
  \/ k = "unknown" /\ r = 3
  \/ k \notin {"host", "switch", "unknown"} /\ \E a \in DOMAIN Alphabet : Alphabet[a] = k /\ r = 3 + a

LEMMA FirstKinds == {First[f] : f \in 1 .. 3} = {"host", "switch", "unknown"}
<1>1. First[1] = "host" /\ First[2] = "switch" /\ First[3] = "unknown"
  BY DEF First
<1>2. 1 .. 3 = {1, 2, 3}
  OBVIOUS
<1> QED
  BY <1>1, <1>2

\* A kind that is taken is taken in the one place that is its own.
LEMMA RankIsPlace ==
  ASSUME NEW a \in 1 .. Len(Order), Taken(a), NEW r, Rank(Order[a], r)
  PROVE  r = a
<1>1. Len(Order) \in Nat
  BY OrderType
<1>2. CASE a \in 1 .. 3
  <2>1. a = 1 \/ a = 2 \/ a = 3
    BY <1>2
  <2> QED
    BY <2>1, OrderType DEF Rank
<1>3. CASE a > 3
  <2>1. Order[a] \notin {"host", "switch", "unknown"}
    BY <1>3, FirstKinds DEF Taken
  <2>2. a \in 4 .. Len(Order)
    BY <1>1, <1>3
  <2>3. a - 3 \in DOMAIN Alphabet /\ Order[a] = Alphabet[a - 3]
    BY <2>2, OrderType
  <2>4. PICK b \in DOMAIN Alphabet : Alphabet[b] = Order[a] /\ r = 3 + b
    BY <2>1 DEF Rank
  <2>5. b = a - 3
    BY <2>3, <2>4, AlphabetAssumption
  <2> QED
    BY <1>1, <2>4, <2>5
<1> QED
  BY <1>1, <1>2, <1>3

LEMMA HasRank ==
  ASSUME NEW a \in 1 .. Len(Order), Taken(a)
  PROVE  Rank(Order[a], a)
<1>1. Len(Order) \in Nat
  BY OrderType
<1>2. CASE a \in 1 .. 3
  <2>1. a = 1 \/ a = 2 \/ a = 3
    BY <1>2
  <2> QED
    BY <2>1, OrderType DEF Rank
<1>3. CASE a > 3
  <2>1. Order[a] \notin {"host", "switch", "unknown"}
    BY <1>3, FirstKinds DEF Taken
  <2>2. a \in 4 .. Len(Order)
    BY <1>1, <1>3
  <2>3. a - 3 \in DOMAIN Alphabet /\ Order[a] = Alphabet[a - 3] /\ 3 + (a - 3) = a
    BY <2>2, OrderType
  <2> QED
    BY <2>1, <2>3 DEF Rank
<1> QED
  BY <1>1, <1>2, <1>3

\* The kinds of the groups are in order, different, and those that nodes have.
LEMMA KindsSound ==
  ASSUME KindsKnown
  PROVE  /\ Kinds \in Seq(AnyKind)
         /\ \A g \in DOMAIN Kinds : OfKind(Kinds[g]) # {}
         /\ \A g, h \in DOMAIN Kinds : \A r, q :
              g < h /\ Rank(Kinds[g], r) /\ Rank(Kinds[h], q) => r < q
         /\ \A g, h \in DOMAIN Kinds : Kinds[g] = Kinds[h] => g = h
         /\ \A n \in NodeID : \E g \in DOMAIN Kinds : Kinds[g] = KindOfNode(n)
<1>1. TakenUpTo(Len(Order), Kinds) /\ Len(Order) \in Nat
  BY KindsAreTaken, OrderType
<1>2. Kinds \in Seq(AnyKind)
  BY <1>1 DEF TakenUpTo
<1>3. \A g \in DOMAIN Kinds : OfKind(Kinds[g]) # {}
  BY <1>1 DEF TakenUpTo, Taken
<1>4. ASSUME NEW g \in DOMAIN Kinds, NEW h \in DOMAIN Kinds, g < h
      PROVE  /\ \A r, q : Rank(Kinds[g], r) /\ Rank(Kinds[h], q) => r < q
             /\ Kinds[g] # Kinds[h]
  <2>1. PICK a, b \in 1 .. Len(Order) : /\ a < b /\ Taken(a) /\ Taken(b)
                                        /\ Kinds[g] = Order[a] /\ Kinds[h] = Order[b]
    BY <1>1, <1>4 DEF TakenUpTo
  <2>2. \A r, q : Rank(Kinds[g], r) /\ Rank(Kinds[h], q) => r = a /\ q = b
    BY <2>1, RankIsPlace
  <2>3. Rank(Kinds[g], a) /\ Rank(Kinds[h], b)
    BY <2>1, HasRank
  <2> QED
    BY <2>1, <2>2, <2>3
<1>5. ASSUME NEW g \in DOMAIN Kinds, NEW h \in DOMAIN Kinds, Kinds[g] = Kinds[h] PROVE g = h
  <2>1. g \in Nat /\ h \in Nat
    BY <1>2
  <2> QED
    BY <1>4, <1>5, <2>1
<1>6. ASSUME NEW n \in NodeID PROVE \E g \in DOMAIN Kinds : Kinds[g] = KindOfNode(n)
  <2>1. n \in OfKind(KindOfNode(n))
    BY DEF OfKind
  <2>2. PICK a \in 1 .. Len(Order) : Order[a] = KindOfNode(n) /\ Taken(a)
    <3>1. CASE KindOfNode(n) \in {"host", "switch", "unknown"}
      <4>1. PICK a \in 1 .. 3 : Order[a] = KindOfNode(n)
        BY <3>1, OrderType
      <4>2. a \in 1 .. Len(Order) /\ ~ (a > 3)
        BY OrderType
      <4> QED
        BY <2>1, <4>1, <4>2 DEF Taken
    <3>2. CASE KindOfNode(n) \notin {"host", "switch", "unknown"}
      <4>1. PICK b \in DOMAIN Alphabet : Alphabet[b] = KindOfNode(n)
        BY DEF KindsKnown
      <4>2. 3 + b \in 1 .. Len(Order) /\ Order[3 + b] = KindOfNode(n)
        BY <1>1, <4>1, OrderType
      <4> QED
        BY <2>1, <3>2, <4>2, FirstKinds DEF Taken
    <3> QED
      BY <3>1, <3>2
  <2> QED
    BY <1>1, <2>2 DEF TakenUpTo
<1> QED
  BY <1>2, <1>3, <1>4, <1>5, <1>6

-----------------------------------------------------------------------------
(***************************************************************************)
(* The counts.                                                             *)
(***************************************************************************)
PortsOn(S) == {p \in ports : p.node \in S}

LEMMA PortsOnAdd ==
  ASSUME IsFiniteSet(ports), NEW S, NEW n \in S
  PROVE  Cardinality(PortsOn(S)) = parsedPortsCount(n) + Cardinality(PortsOn(S \ {n}))
<1> DEFINE A == {p \in ports : p.node = n}
           B == PortsOn(S \ {n})
<1>1. A \subseteq ports /\ B \subseteq ports
  BY DEF PortsOn
<1>2. IsFiniteSet(A) /\ IsFiniteSet(B)
  BY <1>1, FS_Subset
<1>3. A \cap B = {} /\ PortsOn(S) = A \cup B
  BY DEF PortsOn
<1>4. parsedPortsCount(n) = Cardinality(A)
  BY DEF parsedPortsCount
<1> HIDE DEF A, B
<1>5. Cardinality(A \cup B) = Cardinality(A) + Cardinality(B) - Cardinality(A \cap B)
  BY <1>2, FS_Union
<1>6. Cardinality({}) = 0 /\ Cardinality(A) \in Nat /\ Cardinality(B) \in Nat
  BY <1>2, FS_EmptySet, FS_CardinalityType
<1>7. Cardinality(PortsOn(S)) = Cardinality(A) + Cardinality(B)
  <2>1. PortsOn(S) = A \cup B
    BY <1>3
  <2>2. Cardinality(A \cap B) = 0
    BY <1>3, <1>6
  <2> HIDE DEF PortsOn
  <2> QED
    BY <1>5, <1>6, <2>1, <2>2
<1> QED
  BY <1>4, <1>7 DEF B

\* The body of PortsOfNodes' recursion.
SumOf(x, f, S) ==
  IF S = {} THEN 0
  ELSE LET n == CHOOSE m \in S : TRUE
       IN x.nodes[n].parsedPorts + f[S \ {n}]

LEMMA SumOfPorts ==
  ASSUME IsFiniteSet(ports), NEW x,
         \A n \in NodeID : x.nodes[n].parsedPorts = parsedPortsCount(n)
  PROVE  PortsOfNodes(x) = Cardinality(PortsOn(NodeID))
<1> DEFINE Sum == CHOOSE f : f = [S \in SUBSET NodeID |-> SumOf(x, f, S)]
           W == [S \in SUBSET NodeID |-> Cardinality(PortsOn(S))]
<1>1. ASSUME NEW S \in SUBSET NodeID PROVE W[S] = SumOf(x, W, S)
  <2>1. CASE S = {}
    <3>1. PortsOn(S) = {}
      BY <2>1 DEF PortsOn
    <3> QED
      BY <2>1, <3>1, FS_EmptySet DEF SumOf
  <2>2. CASE S # {}
    <3> DEFINE n == CHOOSE m \in S : TRUE
    <3>1. n \in S /\ n \in NodeID /\ S \ {n} \in SUBSET NodeID
      BY <2>2
    <3>2. SumOf(x, W, S) = x.nodes[n].parsedPorts + W[S \ {n}]
      BY <2>2 DEF SumOf
    <3> HIDE DEF n
    <3>3. W[S] = Cardinality(PortsOn(S)) /\ W[S \ {n}] = Cardinality(PortsOn(S \ {n}))
      BY <3>1
    <3>4. Cardinality(PortsOn(S)) = parsedPortsCount(n) + Cardinality(PortsOn(S \ {n}))
      BY <3>1, PortsOnAdd
    <3> HIDE DEF W
    <3> QED
      BY <3>1, <3>2, <3>3, <3>4
  <2> QED
    BY <2>1, <2>2
<1>2. W = [S \in SUBSET NodeID |-> W[S]]
  OBVIOUS
<1>3. W[NodeID] = Cardinality(PortsOn(NodeID))
  OBVIOUS
<1> HIDE DEF W
<1>4. W = [S \in SUBSET NodeID |-> SumOf(x, W, S)]
  BY <1>1, <1>2
<1>5. Sum = [S \in SUBSET NodeID |-> SumOf(x, Sum, S)]
  BY <1>4
<1>6. \A S \in SUBSET NodeID : Sum[S] = SumOf(x, Sum, S)
  <2> HIDE DEF Sum
  <2> QED
    BY <1>5
<1> DEFINE T == {k \in Nat : \A S \in SUBSET NodeID :
                   IsFiniteSet(S) /\ Cardinality(S) = k => Sum[S] = W[S]}
<1> HIDE DEF Sum
<1>8. 0 \in T
  <2>1. \A S : IsFiniteSet(S) /\ Cardinality(S) = 0 => S = {}
    BY FS_EmptySet
  <2>2. {} \in SUBSET NodeID /\ Sum[{}] = 0 /\ W[{}] = 0
    BY <1>1, <1>6 DEF SumOf
  <2> QED
    BY <2>1, <2>2
<1>9. ASSUME NEW k \in T PROVE k + 1 \in T
  <2> SUFFICES ASSUME NEW S \in SUBSET NodeID, IsFiniteSet(S), Cardinality(S) = k + 1
               PROVE  Sum[S] = W[S]
    OBVIOUS
  <2>1. k \in Nat /\ S # {}
    BY FS_EmptySet
  <2> DEFINE n == CHOOSE m \in S : TRUE
  <2>2. n \in S /\ S \ {n} \in SUBSET NodeID
    BY <2>1
  <2>3. /\ Sum[S] = x.nodes[n].parsedPorts + Sum[S \ {n}]
        /\ W[S] = x.nodes[n].parsedPorts + W[S \ {n}]
    BY <1>1, <1>6, <2>1 DEF SumOf
  <2> HIDE DEF n
  <2>4. IsFiniteSet(S \ {n}) /\ Cardinality(S \ {n}) = Cardinality(S) - 1
    BY <2>2, FS_RemoveElement
  <2>5. Cardinality(S \ {n}) = k
    BY <2>1, <2>4
  <2> QED
    BY <2>2, <2>3, <2>4, <2>5
<1>10. T \in SUBSET Nat
  OBVIOUS
<1>11. \A k \in T : \A S \in SUBSET NodeID :
         IsFiniteSet(S) /\ Cardinality(S) = k => Sum[S] = W[S]
  OBVIOUS
<1> HIDE DEF T
<1>12. T = Nat
  BY <1>8, <1>9, <1>10, ByInduction
<1>13. Sum[NodeID] = W[NodeID]
  BY <1>11, <1>12, NodeIDAssumption, FS_CardinalityType
<1>14. Sum[NodeID] = Cardinality(PortsOn(NodeID))
  BY <1>3, <1>13
<1> QED
  BY <1>14 DEF Sum, SumOf, PortsOfNodes

\* Every edge takes two ports from the others.
LEMMA TwoPortsEach == GreedyInv => 2 * Cardinality(edges) <= Cardinality(ports)
<1> SUFFICES ASSUME GreedyInv PROVE 2 * Cardinality(edges) <= Cardinality(ports)
  OBVIOUS
<1>1. /\ IsFiniteSet(ports) /\ PortsUsedOnce /\ EdgesAreSound
      /\ edges \subseteq Edge
  BY DEF GreedyInv, OneToOne, EdgesInv, TypeOK
<1>2. \A e \in edges : e.source \in ports /\ e.target \in ports
  BY <1>1 DEF EdgesAreSound, Ends
<1>3. \A e, f \in edges : e # f => /\ e.source # f.source /\ e.target # f.target
                                  /\ e.source # f.target
  BY <1>1 DEF PortsUsedOnce, Ends
<1>4. ASSUME NEW e \in edges PROVE e.source # e.target
  <2>1. CASE e \in HostEdges
    BY <1>1, <2>1 DEF EdgesAreSound
  <2>2. CASE e \notin HostEdges
    <3>1. e.source.node < e.target.node /\ e.source.node \in NodeID
      BY <1>1, <2>2 DEF EdgesAreSound, Edge, Port
    <3>2. e.source.node \in Nat
      BY <3>1, NodeIDAssumption
    <3>3. e.source.node # e.target.node
      BY <3>1, <3>2
    <3> QED
      BY <3>3
  <2> QED
    BY <2>1, <2>2
<1> DEFINE src == [e \in edges |-> e.source]
           tgt == [e \in edges |-> e.target]
           S == {e.source : e \in edges}
           T == {e.target : e \in edges}
<1>5. S \subseteq ports /\ T \subseteq ports /\ S \cap T = {}
  BY <1>2, <1>3, <1>4
<1>6. IsFiniteSet(S) /\ IsFiniteSet(T) /\ IsFiniteSet(S \cup T)
      /\ Cardinality(S \cup T) <= Cardinality(ports)
  <2>1. S \in SUBSET ports /\ T \in SUBSET ports /\ S \cup T \in SUBSET ports
    BY <1>5
  <2> HIDE DEF S, T
  <2> QED
    BY <1>1, <2>1, FS_Subset
<1>7. src \in Bijection(edges, S) /\ tgt \in Bijection(edges, T)
  BY <1>3 DEF Bijection, Injection, Surjection, IsInjective
<1> HIDE DEF S, T, src, tgt
<1>8. IsFiniteSet(edges) /\ Cardinality(edges) = Cardinality(S) /\ Cardinality(edges) = Cardinality(T)
  <2>1. src \in Injection(edges, S) /\ src \in Surjection(edges, S)
        /\ tgt \in Injection(edges, T) /\ tgt \in Surjection(edges, T)
    BY <1>7 DEF Bijection
  <2> QED
    BY <1>6, <2>1, FS_Injection
<1>9. Cardinality(S \cup T) = Cardinality(S) + Cardinality(T)
  <2>1. Cardinality(S \cup T) = Cardinality(S) + Cardinality(T) - Cardinality(S \cap T)
    BY <1>6, FS_Union
  <2>2. Cardinality(S \cap T) = 0
    BY <1>5, FS_EmptySet
  <2> QED
    BY <1>6, <2>1, <2>2, FS_CardinalityType
<1>10. Cardinality(S) \in Nat /\ Cardinality(T) \in Nat /\ Cardinality(ports) \in Nat
  BY <1>1, <1>6, FS_CardinalityType
<1> QED
  BY <1>6, <1>8, <1>9, <1>10

LEMMA ReturnsAgree ==
  ASSUME GreedyInv, KindsKnown, GetTopologyReturns
  PROVE  PartsAgree'
<1> SUFFICES ASSUME answer'.code = "OK" PROVE PartsAgree'
  BY DEF PartsAgree
<1>1. answer' = [code |-> "OK", summary |-> Summary, nodes |-> Nodes, groups |-> Groups]
  BY DEF GetTopologyReturns
<1>2. answer'.summary = Summary /\ answer'.nodes = Nodes /\ answer'.groups = Groups
  BY <1>1
<1>3. /\ DOMAIN Groups = DOMAIN Kinds
      /\ \A g \in DOMAIN Kinds : Groups[g].kind = Kinds[g] /\ Groups[g].nodes = OfKind(Kinds[g])
  BY DEF Groups
<1>4. \A n \in NodeID : /\ answer'.nodes[n].kind = KindOfNode(n)
                        /\ answer'.nodes[n].parsedPorts = parsedPortsCount(n)
  BY <1>2 DEF Nodes
<1>5. GroupsInOrder'
  <2> SUFFICES ASSUME NEW g \in DOMAIN Groups, NEW h \in DOMAIN Groups,
                      NEW r \in 1 .. Len(Alphabet) + 3, NEW q \in 1 .. Len(Alphabet) + 3
               PROVE  /\ Groups[g].nodes # {}
                      /\ g < h /\ Rank(Groups[g].kind, r) /\ Rank(Groups[h].kind, q) => r < q
    BY <1>2 DEF GroupsInOrder, Rank
  <2> QED
    BY <1>3, KindsSound
<1> PICK x : x = answer'
  OBVIOUS
<1>6. ASSUME NEW n \in NodeID
      PROVE  \E g \in DOMAIN x.groups :
               /\ {h \in DOMAIN x.groups : n \in x.groups[h].nodes} = {g}
               /\ x.groups[g].kind = x.nodes[n].kind
  <2>1. PICK g \in DOMAIN Kinds : Kinds[g] = KindOfNode(n)
    BY KindsSound
  <2>2. \A h \in DOMAIN Kinds : n \in OfKind(Kinds[h]) <=> h = g
    BY <2>1, KindsSound DEF OfKind
  <2>3. {h \in DOMAIN Groups : n \in Groups[h].nodes} = {g}
    BY <1>3, <2>2
  <2> QED
    BY <1>2, <1>3, <1>4, <2>1, <2>3
<1>7. /\ {n \in NodeID : x.nodes[n].kind = "host"} = OfKind("host")
      /\ {n \in NodeID : x.nodes[n].kind = "switch"} = OfKind("switch")
  BY <1>4 DEF OfKind
<1>8. /\ x.summary.hosts = Cardinality(OfKind("host"))
      /\ x.summary.switches = Cardinality(OfKind("switch"))
      /\ x.summary.ports = Cardinality(ports) /\ x.summary.edges = Cardinality(edges)
  BY <1>2 DEF Summary
<1>9. PortsOn(NodeID) = ports /\ IsFiniteSet(ports)
  BY DEF PortsOn, GreedyInv, EdgesInv, TypeOK, Port, OneToOne
<1>10. 2 * x.summary.edges <= x.summary.ports
  BY <1>8, TwoPortsEach
<1>11. \A n \in NodeID : x.nodes[n].parsedPorts = parsedPortsCount(n)
  BY <1>4
<1>12. PortsOfNodes(x) = Cardinality(PortsOn(NodeID))
  BY <1>9, <1>11, SumOfPorts
<1>13. x.summary.ports = PortsOfNodes(x)
  BY <1>8, <1>9, <1>12
<1>14. /\ x.summary.hosts = Cardinality({n \in NodeID : x.nodes[n].kind = "host"})
       /\ x.summary.switches = Cardinality({n \in NodeID : x.nodes[n].kind = "switch"})
  BY <1>7, <1>8
<1>15. Agree(x)
  BY <1>6, <1>10, <1>13, <1>14 DEF Agree
<1> QED
  BY <1>5, <1>15 DEF PartsAgree

ViewInv == GreedyInv /\ KindsKnown /\ PartsAgree

LEMMA ViewSound == ViewInv /\ [ViewNext]_viewVars => ViewInv'
<1> SUFFICES ASSUME ViewInv, [ViewNext]_viewVars PROVE ViewInv'
  OBVIOUS
<1>1. [Next]_vars
  BY DEF ViewNext, viewVars, Next, GetTopologyReturns, Returned
<1>2. GreedyInv'
  BY <1>1, GreedyStep DEF ViewInv
<1>3. kind' = kind
  BY <1>1 DEF Next, Iterate, ConnectHostPort, ConnectSwitches, vars
<1>4. KindsKnown'
  BY <1>3 DEF ViewInv, KindsKnown, KindOfNode
<1>5. ASSUME UNCHANGED answer PROVE PartsAgree'
  BY <1>5 DEF ViewInv, PartsAgree, GroupsInOrder
<1>6. ASSUME GetTopologyReturns PROVE PartsAgree'
  BY <1>6, ReturnsAgree DEF ViewInv
<1>7. PartsAgree'
  BY <1>5, <1>6 DEF ViewNext, viewVars, Returned
<1> QED
  BY <1>2, <1>4, <1>7 DEF ViewInv

LEMMA ViewBegins == ViewInit => ViewInv
<1> SUFFICES ASSUME ViewInit PROVE ViewInv
  OBVIOUS
<1>1. GreedyInv
  BY GreedyInit DEF ViewInit
<1>2. KindsKnown
  BY AlphabetAssumption DEF ViewInit, Init, KindsKnown, KindOfNode
<1>3. PartsAgree
  BY DEF ViewInit, NoAnswer, PartsAgree
<1> QED
  BY <1>1, <1>2, <1>3 DEF ViewInv

\* GetTopology builds its edges as buildEdges does; what holds of those holds of
\* its answer.
THEOREM ViewUsesEdges == ViewSpec => Spec
<1>1. ViewInit => Init
  BY DEF ViewInit
<1>2. [ViewNext]_viewVars => [Next]_vars
  BY DEF ViewNext, viewVars, Next, GetTopologyReturns, Returned
<1> QED
  BY <1>1, <1>2, PTL DEF ViewSpec, Spec

\* The summary, the groups, the nodes' counts of ports and the edges of an answer
\* agree, although GetTopology computes each of them by a pass of its own.
THEOREM PartsCorrect == ViewSpec => []PartsAgree
<1>1. ViewInv => PartsAgree
  BY DEF ViewInv
<1> QED
  BY <1>1, ViewBegins, ViewSound, PTL DEF ViewSpec
=============================================================================
