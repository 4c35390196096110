--------------------------- MODULE MCTopologyView --------------------------
(***************************************************************************)
(* Three families of snapshots, all of which are initial states: three     *)
(* nodes with up to two ports of three kinds each, for the choice of       *)
(* links; four nodes with up to three equal ports each, one of them        *)
(* without a number, for what the two loops leave to each other; and four  *)
(* nodes of all kinds with few ports, for the groups.                      *)
(***************************************************************************)
EXTENDS TopologyView, TLC

MCNodeID == 1 .. 4
MCAlphabet == <<"gateway", "host", "router", "switch", "unknown", "umlaut">>

Data(s, w, v) == [state |-> s, width |-> w, speed |-> v]

\* Links of two kinds, and one without a speed.
ManyLinks == {Data(4, 1, 1), Data(4, 1, 2), Data(4, 1, 0)}

PortsOver(N, nums, D) ==
  UNION {{{[node |-> x[1], num |-> x[2], data |-> data[x]] : x \in present} :
           data \in [present -> D]} : present \in SUBSET (N \X nums)}

ChoiceOfLinks ==
  [kinds |-> {k @@ (4 :> "") : k \in [1 .. 3 -> {"host", "SWITCH "}]},
   ports |-> PortsOver(1 .. 3, {1, 2}, ManyLinks)]

SharedPorts ==
  [kinds |-> {k \in [MCNodeID -> {" Host", "switch", ""}] : \A n \in {1, 3, 4} : k[n] # ""},
   ports |-> PortsOver(MCNodeID, {0, 1, 2}, {Data(4, 1, 1)})]

AllKinds ==
  [kinds |-> [MCNodeID -> {"host", "switch", " ", "router", "gateway", "umlaut"}],
   ports |-> PortsOver({1, 2}, {1}, {Data(4, 1, 1), Data(2, 1, 1)})]

MCFamily == {ChoiceOfLinks, SharedPorts, AllKinds}
KindFamily == {AllKinds}
=============================================================================
