----------------------------- MODULE MCFinalize -----------------------------
(***************************************************************************)
(* Records of two nodes, complete, partial and without a GUID.             *)
(***************************************************************************)
EXTENDS Finalize

NodeRec(g, k, d) == [guid |-> g, kind |-> k, desc |-> d]
InfoRec(g, s) == [guid |-> g, serial |-> s]
PortRec(g, p, n, s) == [guid |-> g, pguid |-> p, num |-> n, state |-> s]

NodeRecords == {NodeRec("A", "host", "x"), NodeRec("A", "unknown", "y"),
                NodeRec("A", "switch", ""), NodeRec("", "host", "z")}
InfoRecords == {InfoRec("A", "s1"), InfoRec("A", ""), InfoRec("B", "s2")}
PortRecords == {PortRec("A", "p", 1, 4), PortRec("A", "p", 1, 0), PortRec("A", "", 1, 2),
                PortRec("B", "q", 0, 1)}
=============================================================================
