------------------------------ MODULE EngineProofs ---------------------------
(***************************************************************************)
(* Proofs about Finalize, about SourceReader and about Engine, which       *)
(* composes them with Records: sources of any length, with files of any    *)
(* content, for all limits and all that may be found on the disk.          *)
(***************************************************************************)
EXTENDS Engine, SequenceTheorems, FiniteSetTheorems, WellFoundedInduction, TLAPS

(***************************************************************************)
(* Finalize, for records of any number and in any order.                   *)
(***************************************************************************)
\* The provers do not know that a literal is a STRING.
Text == STRING \cup {"", "unknown", "host", "switch"}
Node == [guid : Text, kind : Text \ {""}, desc : Text]
Info == [guid : Text, serial : Text]
Port == [guid : Text, pguid : Text, num : Int, state : Int]
PortInIndex ==
  [key : {PortKey(r) : r \in Port}, guid : Text, pguid : Text, num : Int, state : Int]

Parsed == [nodes : Seq(Node), infos : Seq(Info), ports : Seq(Port)]
Merged == [nodes : Seq(Node), infos : Seq(Info), ports : Seq(PortInIndex)]

FinalTypeOK ==
  /\ input \in Parsed /\ out \in Merged
  /\ loop \in Loops \cup {"end"}
  /\ i \in Nat \ {0}

PortKeys(seq) == {p.key : p \in ItemsOf(seq)}

\* The loops that have ended.
Past(l) ==
  \/ l = "nodes" /\ loop # "nodes"
  \/ l = "infos" /\ loop \in {"ports", "end"}
  \/ l = "ports" /\ loop = "end"

\* The records of a class that a loop has been over, except the skipped ones.
Seen(l) ==
  {x \in {input[l][k] : k \in {j \in DOMAIN input[l] : Past(l) \/ (loop = l /\ j < i)}} :
     x.guid # ""}

SeenGUIDs(l) == {x.guid : x \in Seen(l)}

\* A port is what the records of its key say, or they do not say the same.
TrueTo(p, records) ==
  \/ \A r \in records : PortKey(r) = p.key => PortId(p) = PortId(r)
  \/ Confused(records, p.key)

\* What NothingLost says at the end, of every moment.
NothingLostSoFar ==
  /\ GUIDs(out.nodes) = SeenGUIDs("nodes") \cup SeenGUIDs("infos") \cup SeenGUIDs("ports")
  /\ GUIDs(out.infos) = SeenGUIDs("infos")
  /\ PortKeys(out.ports) = {PortKey(r) : r \in Seen("ports")}
  /\ \A p \in ItemsOf(out.ports) : TrueTo(p, Seen("ports"))

FinalInv == FinalTypeOK /\ MergedAndClosed /\ NothingLostSoFar

-----------------------------------------------------------------------------
(* What the merges do to a list, whether the key is new or not.            *)

\* The list of a table, seen as the function from positions to keys.
LEMMA GUIDsByPosition ==
  ASSUME NEW s, NEW n, DOMAIN s = 1 .. n
  PROVE  /\ GUIDs(s) = {s[k].guid : k \in 1 .. n}
         /\ DistinctBy(s, NodeKey) <=> \A j, k \in 1 .. n : s[j].guid = s[k].guid => j = k
BY DEF GUIDs, ItemsOf, DistinctBy, NodeKey

PutNode(s, r) ==
  IF NodeAt(s, r) = {} THEN Append(s, r)
  ELSE [k \in DOMAIN s |-> IF k \in NodeAt(s, r) THEN mergeNode(s[k], r) ELSE s[k]]

LEMMA AppendKeepsKeys ==
  ASSUME NEW T, NEW s \in Seq(T), NEW r \in T, DistinctBy(s, NodeKey), r.guid \notin GUIDs(s)
  PROVE  /\ DistinctBy(Append(s, r), NodeKey)
         /\ GUIDs(Append(s, r)) = GUIDs(s) \cup {r.guid}
<1> DEFINE t == Append(s, r)
           n == Len(s)
<1>1. n \in Nat /\ DOMAIN s = 1 .. n
  OBVIOUS
<1>2. DOMAIN t = 1 .. n + 1 /\ (\A k \in 1 .. n : t[k] = s[k]) /\ t[n + 1] = r
  OBVIOUS
<1> HIDE DEF n, t
<1>3. GUIDs(s) = {s[k].guid : k \in 1 .. n} /\ \A j, k \in 1 .. n : s[j].guid = s[k].guid => j = k
  BY <1>1, GUIDsByPosition
<1>4. (\A k \in 1 .. n : s[k].guid # r.guid /\ t[k] = s[k]) /\ t[n + 1].guid = r.guid
  BY <1>2, <1>3
<1>5. /\ \A j, k \in 1 .. n + 1 : t[j].guid = t[k].guid => j = k
      /\ {t[k].guid : k \in 1 .. n + 1} = {s[k].guid : k \in 1 .. n} \cup {r.guid}
  <2>1. /\ \A k \in 1 .. n + 1 : k \in 1 .. n \/ k = n + 1
        /\ \A k \in 1 .. n : k \in 1 .. n + 1
        /\ n + 1 \in 1 .. n + 1
    BY <1>1
  <2>2. \A j, k \in 1 .. n + 1 : t[j].guid = t[k].guid => j = k
    BY <1>3, <1>4, <2>1
  <2>3. {t[k].guid : k \in 1 .. n + 1} = {s[k].guid : k \in 1 .. n} \cup {r.guid}
    BY <1>4, <2>1
  <2> QED
    BY <2>2, <2>3
<1>6. DistinctBy(t, NodeKey) /\ GUIDs(t) = GUIDs(s) \cup {r.guid}
  BY <1>2, <1>3, <1>5, GUIDsByPosition
<1> QED
  BY <1>6 DEF t

\* A list whose elements keep their keys.
LEMMA MergeKeepsKeys ==
  ASSUME NEW s, NEW t, DOMAIN t = DOMAIN s, \A k \in DOMAIN s : t[k].guid = s[k].guid,
         DistinctBy(s, NodeKey)
  PROVE  DistinctBy(t, NodeKey) /\ GUIDs(t) = GUIDs(s)
BY DEF DistinctBy, NodeKey, GUIDs, ItemsOf

LEMMA PutNodeSound ==
  ASSUME NEW s \in Seq(Node), DistinctBy(s, NodeKey), NEW r \in Node
  PROVE  /\ PutNode(s, r) \in Seq(Node) /\ DistinctBy(PutNode(s, r), NodeKey)
         /\ GUIDs(PutNode(s, r)) = GUIDs(s) \cup {r.guid}
<1>1. CASE NodeAt(s, r) = {}
  <2>1. PutNode(s, r) = Append(s, r)
    BY <1>1 DEF PutNode
  <2>2. r.guid \notin GUIDs(s)
    BY <1>1 DEF NodeAt, GUIDs, ItemsOf
  <2> QED
    BY <2>1, <2>2, AppendKeepsKeys
<1>2. CASE NodeAt(s, r) # {}
  <2> DEFINE t == PutNode(s, r)
  <2>1. t = [k \in DOMAIN s |-> IF k \in NodeAt(s, r) THEN mergeNode(s[k], r) ELSE s[k]]
    BY <1>2 DEF PutNode
  <2>2. \A k \in DOMAIN s : s[k] \in Node
    OBVIOUS
  <2>3. \A k \in DOMAIN s :
          mergeNode(s[k], r) \in Node /\ mergeNode(s[k], r).guid = s[k].guid
    BY <2>2 DEF mergeNode, Patch, Node
  <2> HIDE DEF t
  <2>4. DOMAIN t = DOMAIN s /\ \A k \in DOMAIN s : t[k] \in Node /\ t[k].guid = s[k].guid
    BY <2>1, <2>2, <2>3
  <2>5. t \in Seq(Node)
    BY <2>1, <2>4
  <2>6. DistinctBy(t, NodeKey) /\ GUIDs(t) = GUIDs(s)
    BY <2>4, MergeKeepsKeys
  <2>7. r.guid \in GUIDs(s)
    BY <1>2 DEF NodeAt, GUIDs, ItemsOf
  <2> QED
    BY <2>5, <2>6, <2>7 DEF t
<1> QED
  BY <1>1, <1>2

PutInfo(s, r) ==
  IF InfoAt(s, r) = {} THEN Append(s, r)
  ELSE [k \in DOMAIN s |-> IF k \in InfoAt(s, r) THEN mergeNodeInfo(s[k], r) ELSE s[k]]

LEMMA PutInfoSound ==
  ASSUME NEW s \in Seq(Info), DistinctBy(s, NodeKey), NEW r \in Info
  PROVE  /\ PutInfo(s, r) \in Seq(Info) /\ DistinctBy(PutInfo(s, r), NodeKey)
         /\ GUIDs(PutInfo(s, r)) = GUIDs(s) \cup {r.guid}
<1>1. CASE InfoAt(s, r) = {}
  <2>1. PutInfo(s, r) = Append(s, r)
    BY <1>1 DEF PutInfo
  <2>2. r.guid \notin GUIDs(s)
    BY <1>1 DEF InfoAt, GUIDs, ItemsOf
  <2> QED
    BY <2>1, <2>2, AppendKeepsKeys
<1>2. CASE InfoAt(s, r) # {}
  <2> DEFINE t == PutInfo(s, r)
  <2>1. t = [k \in DOMAIN s |-> IF k \in InfoAt(s, r) THEN mergeNodeInfo(s[k], r) ELSE s[k]]
    BY <1>2 DEF PutInfo
  <2>2. \A k \in DOMAIN s : s[k] \in Info
    OBVIOUS
  <2>3. \A k \in DOMAIN s :
          mergeNodeInfo(s[k], r) \in Info /\ mergeNodeInfo(s[k], r).guid = s[k].guid
    BY <2>2 DEF mergeNodeInfo, Patch, Info
  <2> HIDE DEF t
  <2>4. DOMAIN t = DOMAIN s /\ \A k \in DOMAIN s : t[k] \in Info /\ t[k].guid = s[k].guid
    BY <2>1, <2>2, <2>3
  <2>5. t \in Seq(Info)
    BY <2>1, <2>4
  <2>6. DistinctBy(t, NodeKey) /\ GUIDs(t) = GUIDs(s)
    BY <2>4, MergeKeepsKeys
  <2>7. r.guid \in GUIDs(s)
    BY <1>2 DEF InfoAt, GUIDs, ItemsOf
  <2> QED
    BY <2>5, <2>6, <2>7 DEF t
<1> QED
  BY <1>1, <1>2

LEMMA EnsureNodeSound ==
  ASSUME NEW s \in Seq(Node), DistinctBy(s, NodeKey), NEW g \in Text
  PROVE  /\ ensureNode(s, g) \in Seq(Node) /\ DistinctBy(ensureNode(s, g), NodeKey)
         /\ GUIDs(ensureNode(s, g)) = GUIDs(s) \cup {g}
<1>1. CASE g \in GUIDs(s)
  BY <1>1 DEF ensureNode
<1>2. CASE g \notin GUIDs(s)
  <2>0. [guid |-> g, kind |-> "unknown", desc |-> ""] \in Node
    BY DEF Node, Text
  <2>1. PICK r \in Node : r = [guid |-> g, kind |-> "unknown", desc |-> ""]
    BY <2>0, Zenon
  <2>2. r.guid \notin GUIDs(s) /\ ensureNode(s, g) = Append(s, r) /\ r.guid = g
    BY <1>2, <2>1 DEF ensureNode
  <2>3. DistinctBy(Append(s, r), NodeKey) /\ GUIDs(Append(s, r)) = GUIDs(s) \cup {r.guid}
    BY <2>2, AppendKeepsKeys
  <2>4. Append(s, r) \in Seq(Node)
    OBVIOUS
  <2> QED
    BY <2>2, <2>3, <2>4
<1> QED
  BY <1>1, <1>2

-----------------------------------------------------------------------------
(* Ports, the key of which is made of three columns.                       *)

PutPort(s, r) ==
  IF PortAt(s, r) = {} THEN Append(s, Indexed(r))
  ELSE [k \in DOMAIN s |-> IF k \in PortAt(s, r) THEN mergePort(s[k], r) ELSE s[k]]

LEMMA IndexedPort ==
  ASSUME NEW r \in Port
  PROVE  /\ Indexed(r) \in PortInIndex
         /\ Indexed(r).key = PortKey(r) /\ Indexed(r).guid = r.guid
         /\ Indexed(r).state = r.state /\ PortId(Indexed(r)) = PortId(r)
BY DEF Indexed, PortInIndex, Port, PortId

LEMMA AppendKeepsPortKeys ==
  ASSUME NEW s \in Seq(PortInIndex), NEW r \in PortInIndex, DistinctBy(s, IndexKey),
         r.key \notin PortKeys(s)
  PROVE  /\ DistinctBy(Append(s, r), IndexKey)
         /\ PortKeys(Append(s, r)) = PortKeys(s) \cup {r.key}
         /\ GUIDs(Append(s, r)) = GUIDs(s) \cup {r.guid}
<1> DEFINE t == Append(s, r)
           n == Len(s)
<1>1. n \in Nat /\ DOMAIN s = 1 .. n
  OBVIOUS
<1>2. DOMAIN t = 1 .. n + 1 /\ (\A k \in 1 .. n : t[k] = s[k]) /\ t[n + 1] = r
  OBVIOUS
<1> HIDE DEF n, t
<1>3. /\ PortKeys(s) = {s[k].key : k \in 1 .. n}
      /\ \A j, k \in 1 .. n : s[j].key = s[k].key => j = k
  BY <1>1 DEF PortKeys, ItemsOf, DistinctBy, IndexKey
<1>4. /\ \A k \in 1 .. n + 1 : k \in 1 .. n \/ k = n + 1
      /\ \A k \in 1 .. n : k \in 1 .. n + 1
      /\ n + 1 \in 1 .. n + 1
  BY <1>1
<1>5. \A k \in 1 .. n : s[k].key # r.key /\ t[k].key = s[k].key
  BY <1>2, <1>3
<1>6. \A j, k \in 1 .. n + 1 : t[j].key = t[k].key => j = k
  BY <1>2, <1>3, <1>4, <1>5
<1>7. /\ {t[k].key : k \in 1 .. n + 1} = {s[k].key : k \in 1 .. n} \cup {r.key}
      /\ {t[k].guid : k \in 1 .. n + 1} = {s[k].guid : k \in 1 .. n} \cup {r.guid}
  BY <1>2, <1>4, <1>5
<1>8. DistinctBy(t, IndexKey)
  BY <1>2, <1>6 DEF DistinctBy, IndexKey
<1>9. PortKeys(t) = PortKeys(s) \cup {r.key} /\ GUIDs(t) = GUIDs(s) \cup {r.guid}
  BY <1>1, <1>2, <1>3, <1>7 DEF PortKeys, ItemsOf, GUIDs
<1> QED
  BY <1>8, <1>9 DEF t

LEMMA PutPortSound ==
  ASSUME NEW s \in Seq(PortInIndex), DistinctBy(s, IndexKey), NEW r \in Port
  PROVE  /\ PutPort(s, r) \in Seq(PortInIndex) /\ DistinctBy(PutPort(s, r), IndexKey)
         /\ PortKeys(PutPort(s, r)) = PortKeys(s) \cup {PortKey(r)}
         /\ GUIDs(PutPort(s, r)) \subseteq GUIDs(s) \cup {r.guid}
<1>1. CASE PortAt(s, r) = {}
  <2>1. PICK p \in PortInIndex : p = Indexed(r)
    BY IndexedPort
  <2>2. p.key = PortKey(r) /\ p.guid = r.guid /\ PutPort(s, r) = Append(s, p)
    BY <1>1, <2>1, IndexedPort DEF PutPort
  <2>3. p.key \notin PortKeys(s)
    BY <1>1, <2>2 DEF PortAt, PortKeys, ItemsOf
  <2>4. Append(s, p) \in Seq(PortInIndex)
    OBVIOUS
  <2>5. /\ DistinctBy(Append(s, p), IndexKey)
        /\ PortKeys(Append(s, p)) = PortKeys(s) \cup {p.key}
        /\ GUIDs(Append(s, p)) = GUIDs(s) \cup {p.guid}
    BY <2>3, AppendKeepsPortKeys
  <2> QED
    BY <2>2, <2>4, <2>5
<1>2. CASE PortAt(s, r) # {}
  <2> DEFINE t == PutPort(s, r)
  <2>1. t = [k \in DOMAIN s |-> IF k \in PortAt(s, r) THEN mergePort(s[k], r) ELSE s[k]]
    BY <1>2 DEF PutPort
  <2>2. \A k \in DOMAIN s : s[k] \in PortInIndex
    OBVIOUS
  <2>3. ASSUME NEW k \in DOMAIN s
        PROVE  /\ mergePort(s[k], r) \in PortInIndex
               /\ mergePort(s[k], r).key = s[k].key /\ mergePort(s[k], r).guid = s[k].guid
    BY <2>2 DEF mergePort, Patch, Port, PortInIndex
  <2> HIDE DEF t
  <2>4. /\ DOMAIN t = DOMAIN s
        /\ \A k \in DOMAIN s : /\ t[k] \in PortInIndex
                               /\ t[k].key = s[k].key /\ t[k].guid = s[k].guid
    BY <2>1, <2>2, <2>3
  <2>5. t \in Seq(PortInIndex)
    BY <2>1, <2>4
  <2>6. DistinctBy(t, IndexKey) /\ PortKeys(t) = PortKeys(s) /\ GUIDs(t) = GUIDs(s)
    BY <2>4 DEF DistinctBy, IndexKey, PortKeys, ItemsOf, GUIDs
  <2>7. PortKey(r) \in PortKeys(s)
    BY <1>2 DEF PortAt, PortKeys, ItemsOf
  <2> QED
    BY <2>5, <2>6, <2>7 DEF t
<1> QED
  BY <1>1, <1>2

\* What the list holds after a port was put into it.
LEMMA PutPortItems ==
  ASSUME NEW s \in Seq(PortInIndex), NEW r \in Port, NEW p \in ItemsOf(PutPort(s, r))
  PROVE  \/ p = Indexed(r) /\ PortKey(r) \notin PortKeys(s)
         \/ \E m \in ItemsOf(s) : p = IF m.key = PortKey(r) THEN mergePort(m, r) ELSE m
<1>1. CASE PortAt(s, r) = {}
  <2>0. PICK q \in PortInIndex : q = Indexed(r)
    BY IndexedPort
  <2>1. PortKey(r) \notin PortKeys(s)
    BY <1>1 DEF PortAt, PortKeys, ItemsOf
  <2>2. PICK k \in DOMAIN Append(s, q) : p = Append(s, q)[k]
    BY <1>1, <2>0 DEF PutPort, ItemsOf
  <2>3. (k \in DOMAIN s /\ p = s[k]) \/ p = q
    BY <2>2
  <2>4. ASSUME k \in DOMAIN s, p = s[k]
        PROVE  p \in ItemsOf(s) /\ p.key # PortKey(r)
    BY <2>1, <2>4 DEF ItemsOf, PortKeys
  <2> QED
    BY <2>0, <2>1, <2>3, <2>4
<1>2. CASE PortAt(s, r) # {}
  <2>1. PICK k \in DOMAIN s : p = IF k \in PortAt(s, r) THEN mergePort(s[k], r) ELSE s[k]
    BY <1>2 DEF PutPort, ItemsOf
  <2>2. s[k] \in ItemsOf(s) /\ (k \in PortAt(s, r) <=> s[k].key = PortKey(r))
    BY DEF ItemsOf, PortAt
  <2> QED
    BY <2>1, <2>2
<1> QED
  BY <1>1, <1>2

LEMMA MergedPort ==
  ASSUME NEW m \in PortInIndex, NEW r \in Port
  PROVE  /\ mergePort(m, r).key = m.key
         /\ mergePort(m, r).state = IF r.state # 0 THEN r.state ELSE m.state
         /\ PortId(m) = PortId(r) => PortId(mergePort(m, r)) = PortId(m)
BY DEF mergePort, Patch, Port, PortInIndex, PortId

\* One more record of a port: it says what the port is, or makes it confused.
LEMMA PutPortTrue ==
  ASSUME NEW s \in Seq(PortInIndex), NEW r \in Port, NEW S,
         PortKeys(s) = {PortKey(x) : x \in S}, \A p \in ItemsOf(s) : TrueTo(p, S),
         NEW p \in ItemsOf(PutPort(s, r))
  PROVE  TrueTo(p, S \cup {r})
<1>1. CASE p = Indexed(r) /\ PortKey(r) \notin PortKeys(s)
  <2>1. p.key = PortKey(r) /\ PortId(p) = PortId(r)
    BY <1>1, IndexedPort
  <2>2. \A x \in S : PortKey(x) # p.key
    BY <1>1, <2>1
  <2> QED
    BY <2>1, <2>2 DEF TrueTo
<1>2. ASSUME NEW m \in ItemsOf(s), p = IF m.key = PortKey(r) THEN mergePort(m, r) ELSE m
      PROVE  TrueTo(p, S \cup {r})
  <2>1. TrueTo(m, S) /\ m \in PortInIndex /\ m.key \in PortKeys(s)
    BY DEF ItemsOf, PortKeys
  <2>2. p.key = m.key
    BY <1>2, <2>1, MergedPort
  <2>3. CASE Confused(S, m.key)
    BY <2>2, <2>3 DEF Confused, TrueTo
  <2>4. CASE ~ Confused(S, m.key) /\ m.key # PortKey(r)
    BY <1>2, <2>1, <2>2, <2>4 DEF TrueTo
  <2>5. CASE ~ Confused(S, m.key) /\ m.key = PortKey(r) /\ PortId(r) = PortId(m)
    <3>1. PortId(p) = PortId(m)
      BY <1>2, <2>1, <2>5, MergedPort
    <3> QED
      BY <2>1, <2>2, <2>5, <3>1 DEF TrueTo
  <2>6. CASE ~ Confused(S, m.key) /\ m.key = PortKey(r) /\ PortId(r) # PortId(m)
    <3>1. PICK x \in S : PortKey(x) = m.key
      BY <2>1
    <3>2. PortId(x) = PortId(m)
      BY <2>1, <2>6, <3>1 DEF TrueTo
    <3> QED
      BY <2>2, <2>6, <3>1, <3>2 DEF Confused, TrueTo
  <2> QED
    BY <2>3, <2>4, <2>5, <2>6
<1> QED
  BY <1>1, <1>2, PutPortItems

-----------------------------------------------------------------------------
(* What a step of the loops does to the records that are Seen.             *)

LEMMA SeenByIteration ==
  ASSUME FinalTypeOK, NEW l \in Loops, Iterate(l)
  PROVE  /\ input' = input /\ loop' = loop /\ loop = l /\ i' \in Nat \ {0}
         /\ Record = input[l][i] /\ i \in DOMAIN input[l]
         /\ Seen(l)' = Seen(l) \cup {x \in {Record} : x.guid # ""}
         /\ \A m \in Loops : m # l => Seen(m)' = Seen(m)
<1>1. /\ input' = input /\ loop' = loop /\ loop = l /\ i' = i + 1 /\ i \in Nat \ {0}
      /\ Record = input[l][i]
  BY DEF Iterate, FinalTypeOK, Record
<1>2. PICK n \in Nat : DOMAIN input[l] = 1 .. n /\ i <= n
  <2>1. input[l] \in Seq(Node) \/ input[l] \in Seq(Info) \/ input[l] \in Seq(Port)
    BY DEF FinalTypeOK, Parsed, Loops
  <2>2. Len(input[l]) \in Nat /\ DOMAIN input[l] = 1 .. Len(input[l])
    BY <2>1
  <2> QED
    BY <2>2 DEF Iterate
<1>3. ~ Past(l) /\ \A m \in Loops : Past(m)' = Past(m)
  BY <1>1 DEF Past, Loops
<1> DEFINE Upto(j) == {k \in 1 .. n : Past(l) \/ (loop = l /\ k < j)}
<1>4. Upto(i + 1) = Upto(i) \cup {i}
  BY <1>1, <1>2, <1>3
<1>5. {input[l][k] : k \in Upto(i + 1)} = {input[l][k] : k \in Upto(i)} \cup {Record}
  BY <1>1, <1>4
<1>6. Seen(l) = {x \in {input[l][k] : k \in Upto(i)} : x.guid # ""}
  BY <1>2 DEF Seen
<1>7. Seen(l)' = {x \in {input[l][k] : k \in Upto(i + 1)} : x.guid # ""}
  BY <1>1, <1>2, <1>3 DEF Seen
<1>8. \A m \in Loops : m # l => Seen(m)' = Seen(m)
  BY <1>1, <1>3 DEF Seen
<1>9. i' \in Nat \ {0} /\ i \in DOMAIN input[l]
  BY <1>1, <1>2
<1> HIDE DEF Upto
<1>10. Seen(l)' = Seen(l) \cup {x \in {Record} : x.guid # ""}
  BY <1>5, <1>6, <1>7
<1> QED
  BY <1>1, <1>8, <1>9, <1>10

\* When a loop ends it has been over all of its records, and the next one over none.
LEMMA SeenByNextLoop ==
  ASSUME FinalTypeOK, NextLoop
  PROVE  \A l \in Loops : Seen(l)' = Seen(l)
<1>1. /\ input' = input /\ i' = 1 /\ i \in Nat /\ loop \in Loops /\ i > Len(input[loop])
      /\ \/ loop = "nodes" /\ loop' = "infos"
         \/ loop = "infos" /\ loop' = "ports"
         \/ loop = "ports" /\ loop' = "end"
  BY DEF NextLoop, FinalTypeOK, Loops
<1> SUFFICES ASSUME NEW l \in Loops
             PROVE  Seen(l)' = Seen(l)
  OBVIOUS
<1>2. PICK n \in Nat : DOMAIN input[l] = 1 .. n /\ (loop = l => i > n)
  <2>1. input[l] \in Seq(Node) \/ input[l] \in Seq(Info) \/ input[l] \in Seq(Port)
    BY DEF FinalTypeOK, Parsed, Loops
  <2>2. Len(input[l]) \in Nat /\ DOMAIN input[l] = 1 .. Len(input[l])
    BY <2>1
  <2> QED
    BY <1>1, <2>2
<1>3. \A j \in 1 .. n : (Past(l) \/ (loop = l /\ j < i)) <=> (Past(l)' \/ (loop' = l /\ j < i'))
  BY <1>1, <1>2 DEF Past, Loops
<1> QED
  BY <1>1, <1>2, <1>3 DEF Seen

-----------------------------------------------------------------------------
(* The invariant.                                                          *)

LEMMA ElementOfList ==
  ASSUME NEW T, NEW s \in Seq(T), NEW k \in DOMAIN s
  PROVE  s[k] \in T
OBVIOUS

LEMMA InputsAreLists ==
  ASSUME NEW S, NEW T, S \subseteq T
  PROVE  UpTo(S) \subseteq Seq(T)
BY MaxRecordsAssumption DEF UpTo

\* The loops have not begun.
Start ==
  /\ input \in Parsed
  /\ loop = "nodes" /\ i = 1
  /\ out = [nodes |-> <<>>, infos |-> <<>>, ports |-> <<>>]

LEMMA InitIsStart == Init => Start
<1> SUFFICES ASSUME Init PROVE Start
  OBVIOUS
<1>1. /\ UpTo(NodeRecord) \subseteq Seq(Node)
      /\ UpTo(InfoRecord) \subseteq Seq(Info)
      /\ UpTo(PortRecord) \subseteq Seq(Port)
  <2>1. NodeRecord \subseteq Node /\ InfoRecord \subseteq Info /\ PortRecord \subseteq Port
    BY RecordAssumption DEF Node, Info, Port, Text
  <2> QED
    BY <2>1, InputsAreLists
<1>2. input \in Parsed
  BY <1>1 DEF Init, Parsed
<1> QED
  BY <1>2 DEF Init, Start

LEMMA FinalInvStart == Start => FinalInv
<1> SUFFICES ASSUME Start
             PROVE  FinalInv
  OBVIOUS
<1>1. out = [nodes |-> <<>>, infos |-> <<>>, ports |-> <<>>] /\ loop = "nodes" /\ i = 1
  BY DEF Start
<1>2. FinalTypeOK
  <2>1. out \in Merged
    BY <1>1 DEF Merged
  <2> QED
    BY <1>1, <2>1 DEF Start, FinalTypeOK, Loops
<1>3. GUIDs(<<>>) = {} /\ PortKeys(<<>>) = {}
  BY DEF GUIDs, PortKeys, ItemsOf
<1>4. MergedAndClosed
  <2>1. DistinctBy(<<>>, NodeKey) /\ DistinctBy(<<>>, IndexKey)
    BY DEF DistinctBy
  <2> QED
    BY <1>1, <1>3, <2>1 DEF MergedAndClosed
<1>5. \A l \in Loops : Seen(l) = {}
  <2> SUFFICES ASSUME NEW l \in Loops
               PROVE  Seen(l) = {}
    OBVIOUS
  <2>1. PICK n \in Nat : DOMAIN input[l] = 1 .. n
    <3>1. input[l] \in Seq(Node) \/ input[l] \in Seq(Info) \/ input[l] \in Seq(Port)
      BY <1>2 DEF FinalTypeOK, Parsed, Loops
    <3> QED
      BY <3>1
  <2>2. ~ Past(l) /\ \A j \in 1 .. n : ~ (j < i)
    BY <1>1 DEF Past
  <2> QED
    BY <2>1, <2>2 DEF Seen
<1>6. NothingLostSoFar
  BY <1>1, <1>3, <1>5 DEF NothingLostSoFar, SeenGUIDs, Loops, ItemsOf
<1> QED
  BY <1>2, <1>4, <1>6 DEF FinalInv

\* A node record enters the nodes.
LEMMA FinalizeNodeKeepsInv ==
  ASSUME FinalInv, FinalizeNode
  PROVE  FinalInv'
<1> USE DEF FinalInv
<1>1. /\ input' = input /\ loop' = loop /\ loop = "nodes" /\ i' \in Nat \ {0}
      /\ Record = input.nodes[i] /\ i \in DOMAIN input.nodes
      /\ Seen("nodes")' = Seen("nodes") \cup {x \in {Record} : x.guid # ""}
      /\ Seen("infos")' = Seen("infos") /\ Seen("ports")' = Seen("ports")
  BY SeenByIteration DEF FinalizeNode, Loops
<1>2. /\ Record \in Node /\ Record.guid # ""
      /\ out.nodes \in Seq(Node) /\ DistinctBy(out.nodes, NodeKey)
  <2>1. input.nodes \in Seq(Node) /\ out.nodes \in Seq(Node)
    BY DEF FinalTypeOK, Parsed, Merged
  <2>2. Record \in Node
    BY <1>1, <2>1, ElementOfList
  <2> QED
    BY <2>1, <2>2 DEF FinalizeNode, MergedAndClosed
<1>3. out' = [out EXCEPT !.nodes = PutNode(@, Record)]
  BY DEF FinalizeNode, PutNode
<1>4. out'.nodes = PutNode(out.nodes, Record) /\ out'.infos = out.infos
      /\ out'.ports = out.ports
  BY <1>3 DEF FinalTypeOK, Parsed, Merged
<1>5. /\ out'.nodes \in Seq(Node) /\ DistinctBy(out'.nodes, NodeKey)
      /\ GUIDs(out'.nodes) = GUIDs(out.nodes) \cup {Record.guid}
  BY <1>2, <1>4, PutNodeSound
<1>6. FinalTypeOK'
  BY <1>1, <1>3, <1>4, <1>5 DEF FinalTypeOK, Parsed, Merged
<1>7. MergedAndClosed'
  BY <1>2, <1>4, <1>5 DEF MergedAndClosed
<1>8. SeenGUIDs("nodes")' = SeenGUIDs("nodes") \cup {Record.guid}
  BY <1>1, <1>2 DEF SeenGUIDs
<1>9. NothingLostSoFar'
  BY <1>1, <1>4, <1>5, <1>8 DEF NothingLostSoFar, SeenGUIDs
<1> QED
  BY <1>6, <1>7, <1>9

\* An info enters the infos, and its node the nodes.
LEMMA FinalizeInfoKeepsInv ==
  ASSUME FinalInv, FinalizeInfo
  PROVE  FinalInv'
<1> USE DEF FinalInv
<1>1. /\ input' = input /\ loop' = loop /\ loop = "infos" /\ i' \in Nat \ {0}
      /\ Record = input.infos[i] /\ i \in DOMAIN input.infos
      /\ Seen("infos")' = Seen("infos") \cup {x \in {Record} : x.guid # ""}
      /\ Seen("nodes")' = Seen("nodes") /\ Seen("ports")' = Seen("ports")
  BY SeenByIteration DEF FinalizeInfo, Loops
<1>2. /\ Record \in Info /\ Record.guid \in Text /\ Record.guid # ""
      /\ out.nodes \in Seq(Node) /\ DistinctBy(out.nodes, NodeKey)
      /\ out.infos \in Seq(Info) /\ DistinctBy(out.infos, NodeKey)
  <2>1. input.infos \in Seq(Info) /\ out.infos \in Seq(Info) /\ out.nodes \in Seq(Node)
    BY DEF FinalTypeOK, Parsed, Merged
  <2>2. Record \in Info
    BY <1>1, <2>1, ElementOfList
  <2>3. Record.guid \in Text
    BY <2>2 DEF Info
  <2> QED
    BY <2>1, <2>2, <2>3 DEF FinalizeInfo, MergedAndClosed
<1>3. out' = [out EXCEPT !.nodes = ensureNode(@, Record.guid), !.infos = PutInfo(@, Record)]
  BY DEF FinalizeInfo, PutInfo
<1>4. /\ out'.nodes = ensureNode(out.nodes, Record.guid)
      /\ out'.infos = PutInfo(out.infos, Record)
      /\ out'.ports = out.ports
  BY <1>3 DEF FinalTypeOK, Parsed, Merged
<1>5. /\ out'.nodes \in Seq(Node) /\ DistinctBy(out'.nodes, NodeKey)
      /\ GUIDs(out'.nodes) = GUIDs(out.nodes) \cup {Record.guid}
  BY <1>2, <1>4, EnsureNodeSound
<1>6. /\ out'.infos \in Seq(Info) /\ DistinctBy(out'.infos, NodeKey)
      /\ GUIDs(out'.infos) = GUIDs(out.infos) \cup {Record.guid}
  BY <1>2, <1>4, PutInfoSound
<1>7. FinalTypeOK'
  BY <1>1, <1>3, <1>4, <1>5, <1>6 DEF FinalTypeOK, Parsed, Merged
<1>8. MergedAndClosed'
  BY <1>2, <1>4, <1>5, <1>6 DEF MergedAndClosed
<1>9. SeenGUIDs("infos")' = SeenGUIDs("infos") \cup {Record.guid}
  BY <1>1, <1>2 DEF SeenGUIDs
<1>10. NothingLostSoFar'
  BY <1>1, <1>4, <1>5, <1>6, <1>9 DEF NothingLostSoFar, SeenGUIDs
<1> QED
  BY <1>7, <1>8, <1>10

\* A port enters the ports, and its node the nodes.
LEMMA FinalizePortKeepsInv ==
  ASSUME FinalInv, FinalizePort
  PROVE  FinalInv'
<1> USE DEF FinalInv
<1>1. /\ input' = input /\ loop' = loop /\ loop = "ports" /\ i' \in Nat \ {0}
      /\ Record = input.ports[i] /\ i \in DOMAIN input.ports
      /\ Seen("ports")' = Seen("ports") \cup {x \in {Record} : x.guid # ""}
      /\ Seen("nodes")' = Seen("nodes") /\ Seen("infos")' = Seen("infos")
  BY SeenByIteration DEF FinalizePort, Loops
<1>2. /\ Record \in Port /\ Record.guid \in Text /\ Record.guid # ""
      /\ out.nodes \in Seq(Node) /\ DistinctBy(out.nodes, NodeKey)
      /\ out.ports \in Seq(PortInIndex) /\ DistinctBy(out.ports, IndexKey)
  <2>1. input.ports \in Seq(Port) /\ out.ports \in Seq(PortInIndex) /\ out.nodes \in Seq(Node)
    BY DEF FinalTypeOK, Parsed, Merged
  <2>2. Record \in Port
    BY <1>1, <2>1, ElementOfList
  <2>3. Record.guid \in Text
    BY <2>2 DEF Port
  <2> QED
    BY <2>1, <2>2, <2>3 DEF FinalizePort, MergedAndClosed
<1>3. out' = [out EXCEPT !.nodes = ensureNode(@, Record.guid), !.ports = PutPort(@, Record)]
  BY DEF FinalizePort, PutPort
<1>4. /\ out'.nodes = ensureNode(out.nodes, Record.guid)
      /\ out'.ports = PutPort(out.ports, Record)
      /\ out'.infos = out.infos
  BY <1>3 DEF FinalTypeOK, Parsed, Merged
<1>5. /\ out'.nodes \in Seq(Node) /\ DistinctBy(out'.nodes, NodeKey)
      /\ GUIDs(out'.nodes) = GUIDs(out.nodes) \cup {Record.guid}
  BY <1>2, <1>4, EnsureNodeSound
<1>6. /\ out'.ports \in Seq(PortInIndex) /\ DistinctBy(out'.ports, IndexKey)
      /\ PortKeys(out'.ports) = PortKeys(out.ports) \cup {PortKey(Record)}
      /\ GUIDs(out'.ports) \subseteq GUIDs(out.ports) \cup {Record.guid}
  BY <1>2, <1>4, PutPortSound
<1>8. FinalTypeOK'
  BY <1>1, <1>3, <1>4, <1>5, <1>6 DEF FinalTypeOK, Parsed, Merged
<1>9. MergedAndClosed'
  BY <1>2, <1>4, <1>5, <1>6 DEF MergedAndClosed
<1>10. Seen("ports")' = Seen("ports") \cup {Record}
  BY <1>1, <1>2
<1>11. NothingLostSoFar'
  <2>1. SeenGUIDs("ports")' = SeenGUIDs("ports") \cup {Record.guid}
    BY <1>10 DEF SeenGUIDs
  <2>2. {PortKey(x) : x \in Seen("ports")'} = {PortKey(x) : x \in Seen("ports")} \cup {PortKey(Record)}
    BY <1>10
  <2>3. ASSUME NEW p \in ItemsOf(out'.ports)
        PROVE  TrueTo(p, Seen("ports")')
    <3>1. PICK S : S = Seen("ports")
      OBVIOUS
    <3>2. /\ PortKeys(out.ports) = {PortKey(x) : x \in S}
          /\ \A q \in ItemsOf(out.ports) : TrueTo(q, S)
      BY <3>1 DEF NothingLostSoFar
    <3>3. TrueTo(p, S \cup {Record})
      BY <1>2, <1>4, <2>3, <3>2, PutPortTrue
    <3> QED
      BY <1>10, <3>1, <3>3
  <2> QED
    BY <1>1, <1>4, <1>5, <1>6, <2>1, <2>2, <2>3 DEF NothingLostSoFar, SeenGUIDs
<1> QED
  BY <1>8, <1>9, <1>11

\* A record without a GUID and the end of a loop change neither the result nor
\* what has been Seen.
LEMMA SkipKeepsInv ==
  ASSUME FinalInv, SkipRecord \/ NextLoop
  PROVE  FinalInv'
<1>1. /\ out' = out /\ input' = input /\ loop' \in Loops \cup {"end"} /\ i' \in Nat \ {0}
      /\ \A l \in Loops : Seen(l)' = Seen(l)
  <2>1. CASE SkipRecord
    <3>1. PICK l \in Loops : Iterate(l)
      BY <2>1 DEF SkipRecord
    <3>2. out' = out /\ Record.guid = ""
      BY <2>1 DEF SkipRecord
    <3>3. /\ input' = input /\ loop' = loop /\ loop = l /\ i' \in Nat \ {0}
          /\ Seen(l)' = Seen(l) \cup {x \in {Record} : x.guid # ""}
          /\ \A m \in Loops : m # l => Seen(m)' = Seen(m)
      BY <3>1, SeenByIteration DEF FinalInv
    <3>4. {x \in {Record} : x.guid # ""} = {}
      BY <3>2
    <3> QED
      BY <3>2, <3>3, <3>4
  <2>2. CASE NextLoop
    BY <2>2, SeenByNextLoop DEF FinalInv, NextLoop, Loops
  <2> QED
    BY <2>1, <2>2
<1>2. FinalTypeOK'
  BY <1>1 DEF FinalInv, FinalTypeOK
<1>3. MergedAndClosed'
  BY <1>1 DEF FinalInv, MergedAndClosed
<1>4. NothingLostSoFar'
  BY <1>1 DEF FinalInv, NothingLostSoFar, SeenGUIDs, Loops
<1> QED
  BY <1>2, <1>3, <1>4 DEF FinalInv

LEMMA FinalInvNext == FinalInv /\ [Next]_vars => FinalInv'
<1> SUFFICES ASSUME FinalInv, [Next]_vars
             PROVE  FinalInv'
  OBVIOUS
<1>1. CASE SkipRecord \/ NextLoop
  BY <1>1, SkipKeepsInv
<1>2. CASE FinalizeNode
  BY <1>2, FinalizeNodeKeepsInv
<1>3. CASE FinalizeInfo
  BY <1>3, FinalizeInfoKeepsInv
<1>4. CASE FinalizePort
  BY <1>4, FinalizePortKeepsInv
<1>5. CASE UNCHANGED vars
  <2>1. out' = out /\ input' = input /\ loop' = loop /\ i' = i
    BY <1>5 DEF vars
  <2>2. \A l \in Loops : Seen(l)' = Seen(l)
    BY <2>1 DEF Seen, Past
  <2>3. FinalTypeOK' /\ MergedAndClosed'
    BY <2>1 DEF FinalInv, FinalTypeOK, MergedAndClosed
  <2>4. NothingLostSoFar'
    BY <2>1, <2>2 DEF FinalInv, NothingLostSoFar, SeenGUIDs, Loops
  <2> QED
    BY <2>3, <2>4 DEF FinalInv
<1> QED
  BY <1>1, <1>2, <1>3, <1>4, <1>5 DEF Next, Returned

\* At the end everything has been Seen.
LEMMA FinalInvImplies == FinalInv => NothingLost
<1> SUFFICES ASSUME FinalInv, loop = "end"
             PROVE  NothingLost
  BY DEF NothingLost
<1> DEFINE Named(l) == {x \in ItemsOf(input[l]) : x.guid # ""}
<1>1. ASSUME NEW l \in Loops
      PROVE  Seen(l) = Named(l)
  <2>1. Past(l)
    BY DEF Past, Loops
  <2> QED
    BY <2>1 DEF Seen, ItemsOf
<1>2. {x.guid : x \in UNION {Named(l) : l \in Loops}}
        = SeenGUIDs("nodes") \cup SeenGUIDs("infos") \cup SeenGUIDs("ports")
  <2> HIDE DEF Named
  <2>1. UNION {Named(l) : l \in Loops} = Seen("nodes") \cup Seen("infos") \cup Seen("ports")
    BY <1>1 DEF Loops
  <2> QED
    BY <2>1 DEF SeenGUIDs
<1>3. Seen("infos") = Named("infos") /\ Seen("ports") = Named("ports")
  BY <1>1 DEF Loops
<1> QED
  BY <1>2, <1>3 DEF FinalInv, NothingLostSoFar, NothingLost, SeenGUIDs, PortKeys, TrueTo

\* After every step of finalizeParsedLog the result is that of the records its
\* loops have been over.
THEOREM FinalInvariant == Spec => []FinalInv
BY InitIsStart, FinalInvStart, FinalInvNext, PTL DEF Spec

\* finalizeParsedLog returns a result that the tables can take, as far as nodes
\* and infos go: every key once, nothing of a node that is not there.
THEOREM MergedCorrect == Spec => []MergedAndClosed
<1>1. FinalInv => MergedAndClosed
  BY DEF FinalInv
<1> QED
  BY <1>1, FinalInvariant, PTL

\* finalizeParsedLog loses no record that names a node and invents none, except
\* that of different ports with one key of portIndex (GUIDs that contain a "|")
\* only one need be left.
THEOREM NothingLostCorrect == Spec => []NothingLost
BY FinalInvImplies, FinalInvariant, PTL

-----------------------------------------------------------------------------
(***************************************************************************)
(* The columns.  LastValueWins speaks of the end, too; the same holds of   *)
(* the positions that the loops have been over.                            *)
(***************************************************************************)
Been(l) == {j \in DOMAIN input[l] : Past(l) \/ (loop = l /\ j < i)}

\* v is what the last of the positions in G has in column f, d if there is none.
Wins(v, G, f, d) ==
  IF G = {} THEN v = d ELSE \E k \in G : (\A j \in G : j <= k) /\ v = f[k]

Kinds == [k \in DOMAIN input.nodes |-> input.nodes[k].kind]
Descs == [k \in DOMAIN input.nodes |-> input.nodes[k].desc]
Serials == [k \in DOMAIN input.infos |-> input.infos[k].serial]
States == [k \in DOMAIN input.ports |-> input.ports[k].state]

\* The records so far that give a node its kind or description, an info its
\* serial, a port its state.
KindGiven(g) ==
  {k \in Been("nodes") : input.nodes[k].guid = g /\ input.nodes[k].kind \notin {"", "unknown"}}
DescGiven(g) ==
  {k \in Been("nodes") : input.nodes[k].guid = g /\ input.nodes[k].desc \notin {""}}
SerialGiven(g) ==
  {k \in Been("infos") : input.infos[k].guid = g /\ input.infos[k].serial \notin {""}}
StateGiven(key) ==
  {k \in Been("ports") : /\ input.ports[k].guid # "" /\ PortKey(input.ports[k]) = key
                         /\ input.ports[k].state \notin {0}}

NodeLast(n) ==
  /\ Wins(n.kind, KindGiven(n.guid), Kinds, "unknown")
  /\ Wins(n.desc, DescGiven(n.guid), Descs, "")
InfoLast(x) == Wins(x.serial, SerialGiven(x.guid), Serials, "")
PortLast(p) == Wins(p.state, StateGiven(p.key), States, 0)

LastSoFar ==
  /\ \A n \in ItemsOf(out.nodes) : NodeLast(n)
  /\ \A x \in ItemsOf(out.infos) : InfoLast(x)
  /\ \A p \in ItemsOf(out.ports) : PortLast(p)

LEMMA WinsIsLast ==
  ASSUME NEW v, NEW G \in SUBSET Nat, NEW f, NEW d, Wins(v, G, f, d)
  PROVE  IF G = {} THEN v = d
         ELSE LET last == CHOOSE k \in G : \A j \in G : j <= k
              IN last \in G /\ v = f[last]
<1>1. CASE G = {}
  BY <1>1 DEF Wins
<1>2. CASE G # {}
  <2>1. PICK k \in G : (\A j \in G : j <= k) /\ v = f[k]
    BY <1>2 DEF Wins
  <2>2. \A m \in G : (\A j \in G : j <= m) => m = k
    BY <2>1
  <2> DEFINE last == CHOOSE m \in G : \A j \in G : j <= m
  <2>3. last = k
    BY <2>1, <2>2
  <2> HIDE DEF last
  <2>4. last \in G /\ v = f[last]
    BY <2>1, <2>3
  <2> QED
    BY <1>2, <2>4 DEF last
<1> QED
  BY <1>1, <1>2

\* One more record: its value wins if it gives one.
LEMMA WinsByRecord ==
  ASSUME NEW n \in Nat, NEW G, \A k \in G : k \in Nat /\ k < n,
         NEW v, NEW f, NEW d, Wins(v, G, f, d)
  PROVE  Wins(f[n], G \cup {n}, f, d)
<1>1. n \in G \cup {n} /\ \A j \in G \cup {n} : j <= n
  OBVIOUS
<1> QED
  BY <1>1 DEF Wins

LEMMA AppendItems ==
  ASSUME NEW T, NEW s \in Seq(T), NEW r \in T
  PROVE  ItemsOf(Append(s, r)) = ItemsOf(s) \cup {r}
<1> DEFINE t == Append(s, r)
<1>1. /\ DOMAIN t = 1 .. Len(s) + 1 /\ Len(s) \in Nat /\ DOMAIN s = 1 .. Len(s)
      /\ (\A k \in 1 .. Len(s) : t[k] = s[k]) /\ t[Len(s) + 1] = r
  OBVIOUS
<1> HIDE DEF t
<1>2. DOMAIN t = DOMAIN s \cup {Len(s) + 1}
  BY <1>1
<1>3. {t[k] : k \in DOMAIN t} = {s[k] : k \in DOMAIN s} \cup {r}
  BY <1>1, <1>2
<1> QED
  BY <1>3 DEF ItemsOf, t

\* What the lists hold after a record was put into them.
LEMMA PutNodeItems ==
  ASSUME NEW s \in Seq(Node), NEW r \in Node, NEW n \in ItemsOf(PutNode(s, r))
  PROVE  \/ n = r /\ r.guid \notin GUIDs(s)
         \/ \E m \in ItemsOf(s) : n = IF m.guid = r.guid THEN mergeNode(m, r) ELSE m
<1>1. CASE NodeAt(s, r) = {}
  <2>1. r.guid \notin GUIDs(s)
    BY <1>1 DEF NodeAt, GUIDs, ItemsOf
  <2>2. PICK k \in DOMAIN Append(s, r) : n = Append(s, r)[k]
    BY <1>1 DEF PutNode, ItemsOf
  <2>3. (k \in DOMAIN s /\ n = s[k]) \/ n = r
    BY <2>2
  <2>4. ASSUME k \in DOMAIN s, n = s[k]
        PROVE  n \in ItemsOf(s) /\ n.guid # r.guid
    BY <2>1, <2>4 DEF ItemsOf, GUIDs
  <2> QED
    BY <2>1, <2>3, <2>4
<1>2. CASE NodeAt(s, r) # {}
  <2>1. PICK k \in DOMAIN s : n = IF k \in NodeAt(s, r) THEN mergeNode(s[k], r) ELSE s[k]
    BY <1>2 DEF PutNode, ItemsOf
  <2>2. s[k] \in ItemsOf(s) /\ (k \in NodeAt(s, r) <=> s[k].guid = r.guid)
    BY DEF ItemsOf, NodeAt
  <2> QED
    BY <2>1, <2>2
<1> QED
  BY <1>1, <1>2

LEMMA PutInfoItems ==
  ASSUME NEW s \in Seq(Info), NEW r \in Info, NEW n \in ItemsOf(PutInfo(s, r))
  PROVE  \/ n = r /\ r.guid \notin GUIDs(s)
         \/ \E m \in ItemsOf(s) : n = IF m.guid = r.guid THEN mergeNodeInfo(m, r) ELSE m
<1>1. CASE InfoAt(s, r) = {}
  <2>1. r.guid \notin GUIDs(s)
    BY <1>1 DEF InfoAt, GUIDs, ItemsOf
  <2>2. PICK k \in DOMAIN Append(s, r) : n = Append(s, r)[k]
    BY <1>1 DEF PutInfo, ItemsOf
  <2>3. (k \in DOMAIN s /\ n = s[k]) \/ n = r
    BY <2>2
  <2>4. ASSUME k \in DOMAIN s, n = s[k]
        PROVE  n \in ItemsOf(s) /\ n.guid # r.guid
    BY <2>1, <2>4 DEF ItemsOf, GUIDs
  <2> QED
    BY <2>1, <2>3, <2>4
<1>2. CASE InfoAt(s, r) # {}
  <2>1. PICK k \in DOMAIN s : n = IF k \in InfoAt(s, r) THEN mergeNodeInfo(s[k], r) ELSE s[k]
    BY <1>2 DEF PutInfo, ItemsOf
  <2>2. s[k] \in ItemsOf(s) /\ (k \in InfoAt(s, r) <=> s[k].guid = r.guid)
    BY DEF ItemsOf, InfoAt
  <2> QED
    BY <2>1, <2>2
<1> QED
  BY <1>1, <1>2

\* The loops go over the records one by one.
LEMMA BeenByIteration ==
  ASSUME FinalTypeOK, NEW l \in Loops, Iterate(l)
  PROVE  /\ Been(l)' = Been(l) \cup {i}
         /\ i \in DOMAIN input[l] /\ i \in Nat /\ \A k \in Been(l) : k \in Nat /\ k < i
         /\ \A m \in Loops : m # l => Been(m)' = Been(m)
<1>1. /\ input' = input /\ loop' = loop /\ loop = l /\ i' = i + 1 /\ i \in Nat \ {0}
      /\ ~ Past(l) /\ \A m \in Loops : Past(m)' = Past(m)
  BY DEF Iterate, FinalTypeOK, Past, Loops
<1>2. PICK n \in Nat : DOMAIN input[l] = 1 .. n /\ i <= n
  <2>1. input[l] \in Seq(Node) \/ input[l] \in Seq(Info) \/ input[l] \in Seq(Port)
    BY DEF FinalTypeOK, Parsed, Loops
  <2>2. Len(input[l]) \in Nat /\ DOMAIN input[l] = 1 .. Len(input[l])
    BY <2>1
  <2> QED
    BY <2>2 DEF Iterate
<1>3. \A m \in Loops : m # l => Been(m)' = Been(m)
  BY <1>1 DEF Been
<1>4. Been(l) = {k \in 1 .. n : k < i} /\ Been(l)' = {k \in 1 .. n : k < i + 1}
  BY <1>1, <1>2 DEF Been
<1> QED
  BY <1>1, <1>2, <1>3, <1>4

LEMMA BeenByNextLoop ==
  ASSUME FinalTypeOK, NextLoop
  PROVE  \A l \in Loops : Been(l)' = Been(l)
<1>1. /\ input' = input /\ i' = 1 /\ i \in Nat /\ loop \in Loops /\ i > Len(input[loop])
      /\ \/ loop = "nodes" /\ loop' = "infos"
         \/ loop = "infos" /\ loop' = "ports"
         \/ loop = "ports" /\ loop' = "end"
  BY DEF NextLoop, FinalTypeOK, Loops
<1> SUFFICES ASSUME NEW l \in Loops
             PROVE  Been(l)' = Been(l)
  OBVIOUS
<1>2. PICK n \in Nat : DOMAIN input[l] = 1 .. n /\ (loop = l => i > n)
  <2>1. input[l] \in Seq(Node) \/ input[l] \in Seq(Info) \/ input[l] \in Seq(Port)
    BY DEF FinalTypeOK, Parsed, Loops
  <2>2. Len(input[l]) \in Nat /\ DOMAIN input[l] = 1 .. Len(input[l])
    BY <2>1
  <2> QED
    BY <1>1, <2>2
<1>3. \A j \in 1 .. n : (Past(l) \/ (loop = l /\ j < i)) <=> (Past(l)' \/ (loop' = l /\ j < i'))
  BY <1>1, <1>2 DEF Past, Loops
<1> QED
  BY <1>1, <1>2, <1>3 DEF Been

LEMMA SeenIsBeen ==
  ASSUME NEW l, NEW k \in Been(l), input[l][k].guid # ""
  PROVE  input[l][k] \in Seen(l) /\ input[l][k].guid \in SeenGUIDs(l)
BY DEF Been, Seen, SeenGUIDs

\* What is not in a list has not been seen.
LEMMA NothingGiven ==
  ASSUME FinalInv
  PROVE  /\ \A g : g # "" /\ g \notin GUIDs(out.nodes) => KindGiven(g) = {} /\ DescGiven(g) = {}
         /\ \A g : g # "" /\ g \notin GUIDs(out.infos) => SerialGiven(g) = {}
         /\ \A key : key \notin PortKeys(out.ports) => StateGiven(key) = {}
<1>1. NothingLostSoFar
  BY DEF FinalInv
<1>2. ASSUME NEW g, g # "", g \notin GUIDs(out.nodes)
      PROVE  KindGiven(g) = {} /\ DescGiven(g) = {}
  <2>1. \A k \in Been("nodes") : input.nodes[k].guid # g
    BY <1>1, <1>2, SeenIsBeen DEF NothingLostSoFar
  <2> QED
    BY <2>1 DEF KindGiven, DescGiven
<1>3. ASSUME NEW g, g # "", g \notin GUIDs(out.infos)
      PROVE  SerialGiven(g) = {}
  <2>1. \A k \in Been("infos") : input.infos[k].guid # g
    BY <1>1, <1>3, SeenIsBeen DEF NothingLostSoFar
  <2> QED
    BY <2>1 DEF SerialGiven
<1>4. ASSUME NEW key, key \notin PortKeys(out.ports)
      PROVE  StateGiven(key) = {}
  <2>1. ASSUME NEW k \in Been("ports"), input.ports[k].guid # "", PortKey(input.ports[k]) = key
        PROVE  FALSE
    <3>1. input.ports[k].guid # ""
      BY <2>1
    <3>2. input.ports[k] \in Seen("ports")
      BY <3>1, SeenIsBeen
    <3> QED
      BY <1>1, <1>4, <2>1, <3>2 DEF NothingLostSoFar
  <2> QED
    BY <2>1 DEF StateGiven
<1> QED
  BY <1>2, <1>3, <1>4

LastInv == FinalInv /\ LastSoFar

LEMMA NodeByRecord ==
  ASSUME LastInv, FinalizeNode, NEW r, r = Record
  PROVE  LastSoFar'
<1>1. /\ input' = input /\ loop = "nodes" /\ r = input.nodes[i] /\ i \in DOMAIN input.nodes
      /\ Been("nodes")' = Been("nodes") \cup {i} /\ i \in Nat
      /\ \A k \in Been("nodes") : k \in Nat /\ k < i
      /\ Been("infos")' = Been("infos") /\ Been("ports")' = Been("ports")
  BY BeenByIteration DEF LastInv, FinalInv, FinalizeNode, Iterate, Loops, Record
<1>2. r \in Node /\ r.guid # "" /\ r.kind # "" /\ out.nodes \in Seq(Node)
  <2>1. input.nodes \in Seq(Node) /\ out.nodes \in Seq(Node)
    BY DEF LastInv, FinalInv, FinalTypeOK, Parsed, Merged
  <2>2. r \in Node
    BY <1>1, <2>1, ElementOfList
  <2> QED
    BY <2>1, <2>2 DEF FinalizeNode, Node
<1>3. out' = [out EXCEPT !.nodes = PutNode(@, r)]
  BY DEF FinalizeNode, PutNode
<1>4. out'.nodes = PutNode(out.nodes, r) /\ out'.infos = out.infos /\ out'.ports = out.ports
  BY <1>3 DEF LastInv, FinalInv, FinalTypeOK, Parsed
<1>5. ASSUME NEW g
      PROVE  /\ KindGiven(g)' = IF g = r.guid /\ r.kind # "unknown" THEN KindGiven(g) \cup {i}
                                                                     ELSE KindGiven(g)
             /\ DescGiven(g)' = IF g = r.guid /\ r.desc # "" THEN DescGiven(g) \cup {i}
                                                             ELSE DescGiven(g)
             /\ SerialGiven(g)' = SerialGiven(g) /\ StateGiven(g)' = StateGiven(g)
  BY <1>1, <1>2 DEF KindGiven, DescGiven, SerialGiven, StateGiven
<1>6. /\ Kinds' = Kinds /\ Descs' = Descs /\ Serials' = Serials /\ States' = States
      /\ Kinds[i] = r.kind /\ Descs[i] = r.desc
  BY <1>1 DEF Kinds, Descs, Serials, States
<1>7. \A g : \A j \in KindGiven(g) \cup DescGiven(g) : j \in Nat /\ j < i
  BY <1>1 DEF KindGiven, DescGiven
<1>8. ASSUME NEW n \in Node, NodeLast(n)
      PROVE  NodeLast(IF n.guid = r.guid THEN mergeNode(n, r) ELSE n)'
  <2>1. CASE n.guid # r.guid
    BY <1>5, <1>6, <1>8, <2>1 DEF NodeLast, Wins
  <2>2. CASE n.guid = r.guid
    <3> DEFINE t == mergeNode(n, r)
    <3>1. /\ t.guid = n.guid
          /\ t.kind = IF r.kind # "unknown" THEN r.kind ELSE n.kind
          /\ t.desc = IF r.desc # "" THEN r.desc ELSE n.desc
      BY <1>2, <1>8 DEF mergeNode, Patch, Node
    <3> HIDE DEF t
    <3>2. Wins(t.kind, KindGiven(t.guid), Kinds, "unknown")'
      <4>1. Wins(n.kind, KindGiven(n.guid), Kinds, "unknown")
        BY <1>8 DEF NodeLast
      <4>2. Wins(Kinds[i], KindGiven(n.guid) \cup {i}, Kinds, "unknown")
        BY <1>1, <1>7, <4>1, WinsByRecord
      <4> QED
        BY <1>5, <1>6, <2>2, <3>1, <4>1, <4>2 DEF Wins
    <3>3. Wins(t.desc, DescGiven(t.guid), Descs, "")'
      <4>1. Wins(n.desc, DescGiven(n.guid), Descs, "")
        BY <1>8 DEF NodeLast
      <4>2. Wins(Descs[i], DescGiven(n.guid) \cup {i}, Descs, "")
        BY <1>1, <1>7, <4>1, WinsByRecord
      <4> QED
        BY <1>5, <1>6, <2>2, <3>1, <4>1, <4>2 DEF Wins
    <3> QED
      BY <2>2, <3>2, <3>3 DEF NodeLast, t
  <2> QED
    BY <2>1, <2>2
<1>9. ASSUME r.guid \notin GUIDs(out.nodes)
      PROVE  NodeLast(r)'
  <2>1. KindGiven(r.guid) = {} /\ DescGiven(r.guid) = {}
    BY <1>2, <1>9, NothingGiven DEF LastInv
  <2>2. /\ KindGiven(r.guid)' = IF r.kind # "unknown" THEN {i} ELSE {}
        /\ DescGiven(r.guid)' = IF r.desc # "" THEN {i} ELSE {}
    BY <1>5, <2>1
  <2>3. \A j \in {i} : j <= i
    BY <1>1
  <2>4. Wins(r.kind, KindGiven(r.guid), Kinds, "unknown")'
    BY <1>6, <2>2, <2>3 DEF Wins
  <2>5. Wins(r.desc, DescGiven(r.guid), Descs, "")'
    BY <1>6, <2>2, <2>3 DEF Wins
  <2> QED
    BY <2>4, <2>5 DEF NodeLast
<1>10. ASSUME NEW n \in ItemsOf(out'.nodes)
       PROVE  NodeLast(n)'
  <2>1. n \in ItemsOf(PutNode(out.nodes, r))
    BY <1>4, <1>10
  <2>2. CASE n = r /\ r.guid \notin GUIDs(out.nodes)
    BY <1>9, <2>2
  <2>3. ASSUME NEW m \in ItemsOf(out.nodes),
               n = IF m.guid = r.guid THEN mergeNode(m, r) ELSE m
        PROVE  NodeLast(n)'
    <3>1. NodeLast(m)
      BY DEF LastInv, LastSoFar
    <3>2. PICK k \in DOMAIN out.nodes : m = out.nodes[k]
      BY DEF ItemsOf
    <3>3. m \in Node
      BY <1>2, <3>2, ElementOfList
    <3> QED
      BY <1>8, <2>3, <3>1, <3>3
  <2> QED
    BY <1>2, <2>1, <2>2, <2>3, PutNodeItems
<1>11. \A x : (InfoLast(x)' <=> InfoLast(x)) /\ (PortLast(x)' <=> PortLast(x))
  <2> SUFFICES ASSUME NEW x PROVE (InfoLast(x)' <=> InfoLast(x)) /\ (PortLast(x)' <=> PortLast(x))
    OBVIOUS
  <2>1. SerialGiven(x.guid)' = SerialGiven(x.guid) /\ StateGiven(x.key)' = StateGiven(x.key)
    BY <1>5
  <2> QED
    BY <1>6, <2>1 DEF InfoLast, PortLast, Wins
<1> QED
  BY <1>4, <1>10, <1>11 DEF LastInv, LastSoFar

\* A node that only infos and ports name has no column that a record gave.
LEMMA NodeByMention ==
  ASSUME LastInv, input' = input, Been("nodes")' = Been("nodes"),
         NEW g \in Text, g # "", out'.nodes = ensureNode(out.nodes, g)
  PROVE  \A n \in ItemsOf(out'.nodes) : NodeLast(n)'
<1> SUFFICES ASSUME NEW n \in ItemsOf(out'.nodes)
             PROVE  NodeLast(n)'
  OBVIOUS
<1>1. /\ KindGiven(n.guid)' = KindGiven(n.guid) /\ DescGiven(n.guid)' = DescGiven(n.guid)
      /\ Kinds' = Kinds /\ Descs' = Descs
  BY DEF KindGiven, DescGiven, Kinds, Descs
<1>2. CASE n \in ItemsOf(out.nodes)
  <2>1. NodeLast(n)
    BY <1>2 DEF LastInv, LastSoFar
  <2> QED
    BY <1>1, <2>1 DEF NodeLast, Wins
<1>3. CASE n \notin ItemsOf(out.nodes)
  <2>1. /\ g \notin GUIDs(out.nodes)
        /\ out'.nodes = Append(out.nodes, [guid |-> g, kind |-> "unknown", desc |-> ""])
    BY <1>3 DEF ensureNode
  <2>2. out.nodes \in Seq(Node)
    BY DEF LastInv, FinalInv, FinalTypeOK, Parsed, Merged
  <2>3. [guid |-> g, kind |-> "unknown", desc |-> ""] \in Node
    BY DEF Node, Text
  <2>4. PICK r \in Node : r = [guid |-> g, kind |-> "unknown", desc |-> ""]
    BY <2>3, Zenon
  <2>5. n = r /\ r.guid = g /\ r.kind = "unknown" /\ r.desc = ""
    <3>1. n \in ItemsOf(Append(out.nodes, r))
      BY <2>1, <2>4
    <3>2. ItemsOf(Append(out.nodes, r)) = ItemsOf(out.nodes) \cup {r}
      <4>1. r \in Node
        BY <2>3, <2>4, Zenon
      <4>2. \A s \in Seq(Node), q \in Node : ItemsOf(Append(s, q)) = ItemsOf(s) \cup {q}
        BY AppendItems, Zenon
      <4> QED
        BY <2>2, <4>1, <4>2
    <3>3. n \in ItemsOf(out.nodes) \/ n = r
      BY <3>1, <3>2
    <3> QED
      BY <1>3, <2>4, <3>3
  <2>6. KindGiven(n.guid) = {} /\ DescGiven(n.guid) = {}
    BY <2>1, <2>5, NothingGiven DEF LastInv
  <2> QED
    BY <1>1, <2>5, <2>6 DEF NodeLast, Wins
<1> QED
  BY <1>2, <1>3

LEMMA InfoByRecord ==
  ASSUME LastInv, FinalizeInfo, NEW r, r = Record
  PROVE  LastSoFar'
<1>1. /\ input' = input /\ loop = "infos" /\ r = input.infos[i] /\ i \in DOMAIN input.infos
      /\ Been("infos")' = Been("infos") \cup {i} /\ i \in Nat
      /\ \A k \in Been("infos") : k \in Nat /\ k < i
      /\ Been("nodes")' = Been("nodes") /\ Been("ports")' = Been("ports")
  BY BeenByIteration DEF LastInv, FinalInv, FinalizeInfo, Iterate, Loops, Record
<1>2. r \in Info /\ r.guid \in Text /\ r.guid # "" /\ out.infos \in Seq(Info)
  <2>1. input.infos \in Seq(Info) /\ out.infos \in Seq(Info)
    BY DEF LastInv, FinalInv, FinalTypeOK, Parsed, Merged
  <2>2. r \in Info
    BY <1>1, <2>1, ElementOfList
  <2> QED
    BY <2>1, <2>2 DEF FinalizeInfo, Info
<1>3. out' = [out EXCEPT !.nodes = ensureNode(@, r.guid), !.infos = PutInfo(@, r)]
  BY DEF FinalizeInfo, PutInfo
<1>4. /\ out'.nodes = ensureNode(out.nodes, r.guid) /\ out'.infos = PutInfo(out.infos, r)
      /\ out'.ports = out.ports
  BY <1>3 DEF LastInv, FinalInv, FinalTypeOK, Parsed
<1>5. ASSUME NEW g
      PROVE  /\ SerialGiven(g)' = IF g = r.guid /\ r.serial # "" THEN SerialGiven(g) \cup {i}
                                                                 ELSE SerialGiven(g)
             /\ StateGiven(g)' = StateGiven(g)
  BY <1>1, <1>2 DEF SerialGiven, StateGiven
<1>6. Serials' = Serials /\ States' = States /\ Serials[i] = r.serial
  BY <1>1 DEF Serials, States
<1>7. \A g : \A j \in SerialGiven(g) : j \in Nat /\ j < i
  BY <1>1 DEF SerialGiven
<1>8. ASSUME NEW n \in Info, InfoLast(n)
      PROVE  InfoLast(IF n.guid = r.guid THEN mergeNodeInfo(n, r) ELSE n)'
  <2>1. CASE n.guid # r.guid
    BY <1>5, <1>6, <1>8, <2>1 DEF InfoLast, Wins
  <2>2. CASE n.guid = r.guid
    <3> DEFINE t == mergeNodeInfo(n, r)
    <3>1. t.guid = n.guid /\ t.serial = IF r.serial # "" THEN r.serial ELSE n.serial
      BY <1>2, <1>8 DEF mergeNodeInfo, Patch, Info
    <3> HIDE DEF t
    <3>2. Wins(n.serial, SerialGiven(n.guid), Serials, "")
      BY <1>8 DEF InfoLast
    <3>3. Wins(Serials[i], SerialGiven(n.guid) \cup {i}, Serials, "")
      BY <1>1, <1>7, <3>2, WinsByRecord
    <3>4. Wins(t.serial, SerialGiven(t.guid), Serials, "")'
      BY <1>5, <1>6, <2>2, <3>1, <3>2, <3>3 DEF Wins
    <3> QED
      BY <2>2, <3>4 DEF InfoLast, t
  <2> QED
    BY <2>1, <2>2
<1>9. ASSUME r.guid \notin GUIDs(out.infos)
      PROVE  InfoLast(r)'
  <2>1. SerialGiven(r.guid) = {}
    BY <1>2, <1>9, NothingGiven DEF LastInv
  <2>2. SerialGiven(r.guid)' = IF r.serial # "" THEN {i} ELSE {}
    BY <1>5, <2>1
  <2>3. \A j \in {i} : j <= i
    BY <1>1
  <2> QED
    BY <1>6, <2>2, <2>3 DEF InfoLast, Wins
<1>10. ASSUME NEW n \in ItemsOf(out'.infos)
       PROVE  InfoLast(n)'
  <2>1. n \in ItemsOf(PutInfo(out.infos, r))
    BY <1>4, <1>10
  <2>2. CASE n = r /\ r.guid \notin GUIDs(out.infos)
    BY <1>9, <2>2
  <2>3. ASSUME NEW m \in ItemsOf(out.infos),
               n = IF m.guid = r.guid THEN mergeNodeInfo(m, r) ELSE m
        PROVE  InfoLast(n)'
    <3>1. InfoLast(m)
      BY DEF LastInv, LastSoFar
    <3>2. PICK k \in DOMAIN out.infos : m = out.infos[k]
      BY DEF ItemsOf
    <3>3. m \in Info
      BY <1>2, <3>2, ElementOfList
    <3> QED
      BY <1>8, <2>3, <3>1, <3>3
  <2> QED
    BY <1>2, <2>1, <2>2, <2>3, PutInfoItems
<1>11. \A x : PortLast(x)' <=> PortLast(x)
  <2> SUFFICES ASSUME NEW x PROVE PortLast(x)' <=> PortLast(x)
    OBVIOUS
  <2>1. StateGiven(x.key)' = StateGiven(x.key)
    BY <1>5
  <2> QED
    BY <1>6, <2>1 DEF PortLast, Wins
<1>12. \A n \in ItemsOf(out'.nodes) : NodeLast(n)'
  BY <1>1, <1>2, <1>4, NodeByMention
<1> QED
  BY <1>4, <1>10, <1>11, <1>12 DEF LastInv, LastSoFar

LEMMA PortByRecord ==
  ASSUME LastInv, FinalizePort, NEW r, r = Record
  PROVE  LastSoFar'
<1>1. /\ input' = input /\ loop = "ports" /\ r = input.ports[i] /\ i \in DOMAIN input.ports
      /\ Been("ports")' = Been("ports") \cup {i} /\ i \in Nat
      /\ \A k \in Been("ports") : k \in Nat /\ k < i
      /\ Been("nodes")' = Been("nodes") /\ Been("infos")' = Been("infos")
  BY BeenByIteration DEF LastInv, FinalInv, FinalizePort, Iterate, Loops, Record
<1>2. r \in Port /\ r.guid \in Text /\ r.guid # "" /\ out.ports \in Seq(PortInIndex)
  <2>1. input.ports \in Seq(Port) /\ out.ports \in Seq(PortInIndex)
    BY DEF LastInv, FinalInv, FinalTypeOK, Parsed, Merged
  <2>2. r \in Port
    BY <1>1, <2>1, ElementOfList
  <2> QED
    BY <2>1, <2>2 DEF FinalizePort, Port
<1>3. out' = [out EXCEPT !.nodes = ensureNode(@, r.guid), !.ports = PutPort(@, r)]
  BY DEF FinalizePort, PutPort
<1>4. /\ out'.nodes = ensureNode(out.nodes, r.guid) /\ out'.ports = PutPort(out.ports, r)
      /\ out'.infos = out.infos
  BY <1>3 DEF LastInv, FinalInv, FinalTypeOK, Merged
<1>5. ASSUME NEW g
      PROVE  /\ StateGiven(g)' = IF g = PortKey(r) /\ r.state # 0 THEN StateGiven(g) \cup {i}
                                                                  ELSE StateGiven(g)
             /\ SerialGiven(g)' = SerialGiven(g)
  BY <1>1, <1>2 DEF SerialGiven, StateGiven
<1>6. Serials' = Serials /\ States' = States /\ States[i] = r.state
  BY <1>1 DEF Serials, States
<1>7. \A g : \A j \in StateGiven(g) : j \in Nat /\ j < i
  BY <1>1 DEF StateGiven
<1>8. ASSUME NEW n \in PortInIndex, PortLast(n)
      PROVE  PortLast(IF n.key = PortKey(r) THEN mergePort(n, r) ELSE n)'
  <2>1. CASE n.key # PortKey(r)
    BY <1>5, <1>6, <1>8, <2>1 DEF PortLast, Wins
  <2>2. CASE n.key = PortKey(r)
    <3> DEFINE t == mergePort(n, r)
    <3>1. t.key = n.key /\ t.state = IF r.state # 0 THEN r.state ELSE n.state
      BY <1>2, <1>8, MergedPort
    <3> HIDE DEF t
    <3>2. Wins(n.state, StateGiven(n.key), States, 0)
      BY <1>8 DEF PortLast
    <3>3. Wins(States[i], StateGiven(n.key) \cup {i}, States, 0)
      BY <1>1, <1>7, <3>2, WinsByRecord
    <3>4. Wins(t.state, StateGiven(t.key), States, 0)'
      BY <1>5, <1>6, <2>2, <3>1, <3>2, <3>3 DEF Wins
    <3> QED
      BY <2>2, <3>4 DEF PortLast, t
  <2> QED
    BY <2>1, <2>2
<1>9. ASSUME PortKey(r) \notin PortKeys(out.ports)
      PROVE  PortLast(Indexed(r))'
  <2>1. PICK p \in PortInIndex : p = Indexed(r)
    BY <1>2, IndexedPort
  <2>2. p.key = PortKey(r) /\ p.state = r.state
    BY <1>2, <2>1, IndexedPort
  <2>3. StateGiven(p.key) = {}
    BY <1>9, <2>2, NothingGiven DEF LastInv
  <2>4. StateGiven(p.key)' = IF r.state # 0 THEN {i} ELSE {}
    BY <1>5, <2>2, <2>3
  <2>5. \A j \in {i} : j <= i
    BY <1>1
  <2>6. PortLast(p)'
    BY <1>6, <2>2, <2>4, <2>5 DEF PortLast, Wins
  <2> QED
    BY <2>1, <2>6 DEF PortLast
<1>10. ASSUME NEW n \in ItemsOf(out'.ports)
       PROVE  PortLast(n)'
  <2>1. n \in ItemsOf(PutPort(out.ports, r))
    BY <1>4, <1>10
  <2>2. CASE n = Indexed(r) /\ PortKey(r) \notin PortKeys(out.ports)
    BY <1>9, <2>2
  <2>3. ASSUME NEW m \in ItemsOf(out.ports),
               n = IF m.key = PortKey(r) THEN mergePort(m, r) ELSE m
        PROVE  PortLast(n)'
    <3>1. PortLast(m)
      BY DEF LastInv, LastSoFar
    <3>2. PICK k \in DOMAIN out.ports : m = out.ports[k]
      BY DEF ItemsOf
    <3>3. m \in PortInIndex
      BY <1>2, <3>2, ElementOfList
    <3> QED
      BY <1>8, <2>3, <3>1, <3>3
  <2> QED
    BY <1>2, <2>1, <2>2, <2>3, PutPortItems
<1>11. \A x : InfoLast(x)' <=> InfoLast(x)
  <2> SUFFICES ASSUME NEW x PROVE InfoLast(x)' <=> InfoLast(x)
    OBVIOUS
  <2>1. SerialGiven(x.guid)' = SerialGiven(x.guid)
    BY <1>5
  <2> QED
    BY <1>6, <2>1 DEF InfoLast, Wins
<1>12. \A n \in ItemsOf(out'.nodes) : NodeLast(n)'
  BY <1>1, <1>2, <1>4, NodeByMention
<1> QED
  BY <1>4, <1>10, <1>11, <1>12 DEF LastInv, LastSoFar

\* A record without a GUID and the end of a loop give nothing.
LEMMA SkipGivesNothing ==
  ASSUME LastInv, SkipRecord \/ NextLoop
  PROVE  LastSoFar'
<1>1. out' = out /\ input' = input
  BY DEF SkipRecord, NextLoop, Iterate
<1>2. /\ \A g : g # "" => /\ KindGiven(g)' = KindGiven(g) /\ DescGiven(g)' = DescGiven(g)
                          /\ SerialGiven(g)' = SerialGiven(g)
      /\ \A key : StateGiven(key)' = StateGiven(key)
  <2>1. CASE NextLoop
    <3>1. \A l \in Loops : Been(l)' = Been(l)
      BY <2>1, BeenByNextLoop DEF LastInv, FinalInv
    <3> QED
      BY <1>1, <3>1 DEF KindGiven, DescGiven, SerialGiven, StateGiven, Loops
  <2>2. CASE SkipRecord
    <3>1. PICK l \in Loops : Iterate(l) /\ input[l][i].guid = ""
      BY <2>2 DEF SkipRecord, Iterate, Record
    <3>2. /\ Been(l)' = Been(l) \cup {i}
          /\ \A m \in Loops : m # l => Been(m)' = Been(m)
      BY <3>1, BeenByIteration DEF LastInv, FinalInv
    <3>3. \A m \in Loops : Been(m)' = Been(m) \/ (m = l /\ Been(m)' = Been(m) \cup {i})
      BY <3>2
    <3>4. \A g : g # "" => KindGiven(g)' = KindGiven(g) /\ DescGiven(g)' = DescGiven(g)
      BY <1>1, <3>1, <3>3 DEF KindGiven, DescGiven, Loops
    <3>5. \A g : g # "" => SerialGiven(g)' = SerialGiven(g)
      BY <1>1, <3>1, <3>3 DEF SerialGiven, Loops
    <3>6. \A key : StateGiven(key)' = StateGiven(key)
      BY <1>1, <3>1, <3>3 DEF StateGiven, Loops
    <3> QED
      BY <3>4, <3>5, <3>6
  <2> QED
    BY <2>1, <2>2
<1>3. /\ \A n \in ItemsOf(out.nodes) : n.guid # ""
      /\ \A x \in ItemsOf(out.infos) : x.guid # ""
  <2>1. MergedAndClosed
    BY DEF LastInv, FinalInv
  <2>2. \A n \in ItemsOf(out.nodes) : n.guid # ""
    BY <2>1 DEF MergedAndClosed, GUIDs
  <2>3. \A x \in ItemsOf(out.infos) : x.guid \in GUIDs(out.nodes)
    BY <2>1 DEF MergedAndClosed, GUIDs
  <2>4. \A x \in ItemsOf(out.infos) : x.guid # ""
    BY <2>1, <2>3 DEF MergedAndClosed
  <2> QED
    BY <2>2, <2>4
<1>4. Kinds' = Kinds /\ Descs' = Descs /\ Serials' = Serials /\ States' = States
  BY <1>1 DEF Kinds, Descs, Serials, States
<1>5. ASSUME NEW n \in ItemsOf(out.nodes)
      PROVE  NodeLast(n)'
  <2>1. NodeLast(n) /\ KindGiven(n.guid)' = KindGiven(n.guid) /\ DescGiven(n.guid)' = DescGiven(n.guid)
    BY <1>2, <1>3 DEF LastInv, LastSoFar
  <2> QED
    BY <1>4, <2>1 DEF NodeLast, Wins
<1>6. ASSUME NEW x \in ItemsOf(out.infos)
      PROVE  InfoLast(x)'
  <2>1. InfoLast(x) /\ SerialGiven(x.guid)' = SerialGiven(x.guid)
    BY <1>2, <1>3 DEF LastInv, LastSoFar
  <2> QED
    BY <1>4, <2>1 DEF InfoLast, Wins
<1>7. ASSUME NEW p \in ItemsOf(out.ports)
      PROVE  PortLast(p)'
  <2>1. PortLast(p) /\ StateGiven(p.key)' = StateGiven(p.key)
    BY <1>2 DEF LastInv, LastSoFar
  <2> QED
    BY <1>4, <2>1 DEF PortLast, Wins
<1> QED
  BY <1>1, <1>5, <1>6, <1>7 DEF LastSoFar

LEMMA LastInvStart == Start => LastInv
<1> SUFFICES ASSUME Start PROVE LastInv
  OBVIOUS
<1>1. ItemsOf(out.nodes) = {} /\ ItemsOf(out.infos) = {} /\ ItemsOf(out.ports) = {}
  BY DEF Start, ItemsOf
<1> QED
  BY <1>1, FinalInvStart DEF LastInv, LastSoFar

LEMMA LastInvNext == LastInv /\ [Next]_vars => LastInv'
<1> SUFFICES ASSUME LastInv, [Next]_vars
             PROVE  LastInv'
  OBVIOUS
<1>1. FinalInv'
  BY FinalInvNext DEF LastInv
<1>2. LastSoFar'
  <2>1. CASE SkipRecord \/ NextLoop
    BY <2>1, SkipGivesNothing
  <2>2. CASE FinalizeNode
    BY <2>2, NodeByRecord
  <2>3. CASE FinalizeInfo
    BY <2>3, InfoByRecord
  <2>4. CASE FinalizePort
    BY <2>4, PortByRecord
  <2>5. CASE UNCHANGED vars
    <3>1. out' = out /\ input' = input /\ \A l : Been(l)' = Been(l)
      BY <2>5 DEF vars, Been, Past
    <3>2. Kinds' = Kinds /\ Descs' = Descs /\ Serials' = Serials /\ States' = States
      BY <3>1 DEF Kinds, Descs, Serials, States
    <3>3. \A g : /\ KindGiven(g)' = KindGiven(g) /\ DescGiven(g)' = DescGiven(g)
                 /\ SerialGiven(g)' = SerialGiven(g) /\ StateGiven(g)' = StateGiven(g)
      BY <3>1 DEF KindGiven, DescGiven, SerialGiven, StateGiven
    <3>4. \A n : NodeLast(n)' <=> NodeLast(n)
      BY <3>2, <3>3 DEF NodeLast, Wins
    <3>5. \A x : InfoLast(x)' <=> InfoLast(x)
      BY <3>2, <3>3 DEF InfoLast, Wins
    <3>6. \A p : PortLast(p)' <=> PortLast(p)
      BY <3>2, <3>3 DEF PortLast, Wins
    <3> QED
      BY <3>1, <3>4, <3>5, <3>6 DEF LastInv, LastSoFar
  <2> QED
    BY <2>1, <2>2, <2>3, <2>4, <2>5 DEF Next, Returned
<1> QED
  BY <1>1, <1>2 DEF LastInv

\* At the end the loops have been over everything.
LEMMA LastInvImplies == LastInv => LastValueWins
<1> SUFFICES ASSUME LastInv, loop = "end"
             PROVE  LastValueWins
  BY DEF LastValueWins
<1>1. /\ \A l \in Loops : Been(l) = DOMAIN input[l]
      /\ DOMAIN input.nodes \subseteq Nat /\ DOMAIN input.infos \subseteq Nat
      /\ DOMAIN input.ports \subseteq Nat
  <2>1. \A l \in Loops : Past(l)
    BY DEF Past, Loops
  <2>2. input.nodes \in Seq(Node) /\ input.infos \in Seq(Info) /\ input.ports \in Seq(Port)
    BY DEF LastInv, FinalInv, FinalTypeOK, Parsed
  <2> QED
    BY <2>1, <2>2 DEF Been
<1>2. ASSUME NEW n \in ItemsOf(out.nodes)
      PROVE  LET Same(r) == r.guid = n.guid
                 KindIn(r) == r.kind
                 Desc(r) == r.desc
             IN /\ n.kind = LastOf(input.nodes, Same, KindIn, {"", "unknown"}, "unknown")
                /\ n.desc = LastOf(input.nodes, Same, Desc, {""}, "")
  <2>1. n.kind = LastOf(input.nodes, LAMBDA r : r.guid = n.guid, LAMBDA r : r.kind,
                        {"", "unknown"}, "unknown")
    <3> DEFINE G == {k \in DOMAIN input.nodes :
                       input.nodes[k].guid = n.guid /\ input.nodes[k].kind \notin {"", "unknown"}}
               last == CHOOSE k \in G : \A j \in G : j <= k
    <3>1. G \in SUBSET Nat /\ KindGiven(n.guid) = G
      BY <1>1 DEF KindGiven, Loops
    <3>2. Wins(n.kind, G, Kinds, "unknown")
      BY <3>1 DEF LastInv, LastSoFar, NodeLast
    <3> HIDE DEF G
    <3>3. IF G = {} THEN n.kind = "unknown" ELSE last \in G /\ n.kind = Kinds[last]
      BY <3>1, <3>2, WinsIsLast
    <3> HIDE DEF last
    <3>4. n.kind = IF G = {} THEN "unknown" ELSE input.nodes[last].kind
      BY <3>3 DEF Kinds, G
    <3> QED
      BY <3>4 DEF LastOf, G, last
  <2>2. n.desc = LastOf(input.nodes, LAMBDA r : r.guid = n.guid, LAMBDA r : r.desc,
                        {""}, "")
    <3> DEFINE G == {k \in DOMAIN input.nodes :
                       input.nodes[k].guid = n.guid /\ input.nodes[k].desc \notin {""}}
               last == CHOOSE k \in G : \A j \in G : j <= k
    <3>1. G \in SUBSET Nat /\ DescGiven(n.guid) = G
      BY <1>1 DEF DescGiven, Loops
    <3>2. Wins(n.desc, G, Descs, "")
      BY <3>1 DEF LastInv, LastSoFar, NodeLast
    <3> HIDE DEF G
    <3>3. IF G = {} THEN n.desc = "" ELSE last \in G /\ n.desc = Descs[last]
      <4>1. PICK none : none = ""
        OBVIOUS
      <4>2. Wins(n.desc, G, Descs, none)
        BY <3>2, <4>1
      <4>3. IF G = {} THEN n.desc = none ELSE last \in G /\ n.desc = Descs[last]
        BY <3>1, <4>2, WinsIsLast
      <4> QED
        BY <4>1, <4>3
    <3> HIDE DEF last
    <3>4. n.desc = IF G = {} THEN "" ELSE input.nodes[last].desc
      BY <3>3 DEF Descs, G
    <3> QED
      BY <3>4 DEF LastOf, G, last
  <2> QED
    BY <2>1, <2>2
<1>3. ASSUME NEW x \in ItemsOf(out.infos)
      PROVE  LET Same(r) == r.guid = x.guid
                 Serial(r) == r.serial
             IN x.serial = LastOf(input.infos, Same, Serial, {""}, "")
  <2>1. x.serial = LastOf(input.infos, LAMBDA r : r.guid = x.guid, LAMBDA r : r.serial,
                        {""}, "")
    <3> DEFINE G == {k \in DOMAIN input.infos :
                       input.infos[k].guid = x.guid /\ input.infos[k].serial \notin {""}}
               last == CHOOSE k \in G : \A j \in G : j <= k
    <3>1. G \in SUBSET Nat /\ SerialGiven(x.guid) = G
      BY <1>1 DEF SerialGiven, Loops
    <3>2. Wins(x.serial, G, Serials, "")
      BY <3>1 DEF LastInv, LastSoFar, InfoLast
    <3> HIDE DEF G
    <3>3. IF G = {} THEN x.serial = "" ELSE last \in G /\ x.serial = Serials[last]
      <4>1. PICK none : none = ""
        OBVIOUS
      <4>2. Wins(x.serial, G, Serials, none)
        BY <3>2, <4>1
      <4>3. IF G = {} THEN x.serial = none ELSE last \in G /\ x.serial = Serials[last]
        BY <3>1, <4>2, WinsIsLast
      <4> QED
        BY <4>1, <4>3
    <3> HIDE DEF last
    <3>4. x.serial = IF G = {} THEN "" ELSE input.infos[last].serial
      BY <3>3 DEF Serials, G
    <3> QED
      BY <3>4 DEF LastOf, G, last
  <2> QED
    BY <2>1
<1>4. ASSUME NEW p \in ItemsOf(out.ports)
      PROVE  LET Same(r) == r.guid # "" /\ PortKey(r) = p.key
                 State(r) == r.state
             IN p.state = LastOf(input.ports, Same, State, {0}, 0)
  <2>1. p.state = LastOf(input.ports, LAMBDA r : r.guid # "" /\ PortKey(r) = p.key,
                         LAMBDA r : r.state, {0}, 0)
    <3> DEFINE G == {k \in DOMAIN input.ports :
                       /\ (input.ports[k].guid # "" /\ PortKey(input.ports[k]) = p.key)
                       /\ input.ports[k].state \notin {0}}
               last == CHOOSE k \in G : \A j \in G : j <= k
    <3>1. G \in SUBSET Nat /\ StateGiven(p.key) = G
      BY <1>1 DEF StateGiven, Loops
    <3>2. Wins(p.state, G, States, 0)
      BY <3>1 DEF LastInv, LastSoFar, PortLast
    <3> HIDE DEF G
    <3>3. IF G = {} THEN p.state = 0 ELSE last \in G /\ p.state = States[last]
      BY <3>1, <3>2, WinsIsLast
    <3> HIDE DEF last
    <3>4. p.state = IF G = {} THEN 0 ELSE input.ports[last].state
      BY <3>3 DEF States, G
    <3> QED
      BY <3>4 DEF LastOf, G, last
  <2> QED
    BY <2>1
<1> QED
  BY <1>2, <1>3, <1>4 DEF LastValueWins

\* In whatever order complete and partial records of a node, an info or a key of
\* portIndex come, each column has the last value that any of them gave; ports
\* that are different and have one key share it.
THEOREM LastValueCorrect == Spec => []LastValueWins
<1>1. Spec => []LastInv
  BY InitIsStart, LastInvStart, LastInvNext, PTL DEF Spec
<1> QED
  BY <1>1, LastInvImplies, PTL

(***************************************************************************)
(* SourceReader, for all limits and all that may be found on the disk.     *)
(***************************************************************************)

SourceOK ==
  /\ source.kind \in Kind
  /\ source.entries \in Seq(SourceEntry)
  /\ next \in 1 .. Len(source.entries) + 1
  /\ reading = "read" => source.kind \notin {"missing", "unreadable"}
  /\ reading = "ok" => next = Len(source.entries) + 1

\* Nothing but what addFile has admitted is in memory.
Admitted ==
  source.kind # "plain" =>
    /\ limits.files = Len(files) /\ limits.files <= maxFiles
    /\ limits.total <= maxTotalBytes
    /\ source.kind # "dir" \/ (\A k \in DOMAIN source.entries : AsListed(source.entries[k])) =>
         held = limits.total

\* The files before `next`, and only they, have been read, in order.
ReadInOrder ==
  /\ {files[k] : k \in DOMAIN files} = FilesUpTo(next - 1)
  /\ \A j, k \in DOMAIN files : j < k => files[j] < files[k]
  /\ \A k \in 1 .. next - 1 :
       source.entries[k].sound \/ (source.entries[k].dir /\ source.kind = "zip")

SourceInv == SourceTypeOK /\ SourceOK /\ Admitted /\ ReadInOrder

LEMMA SourceInvImplies == SourceInv => SourceTypeOK /\ WithinLimits /\ AllOrNothing
<1> SUFFICES ASSUME SourceInv PROVE SourceTypeOK /\ WithinLimits /\ AllOrNothing
  OBVIOUS
<1>1. WithinLimits
  BY LimitsAssumption DEF SourceInv, SourceTypeOK, Admitted, WithinLimits
<1>2. AllOrNothing
  <2> SUFFICES ASSUME reading = "ok"
               PROVE  /\ {files[k] : k \in DOMAIN files} = FilesUpTo(Len(source.entries))
                      /\ \A j, k \in DOMAIN files : j < k => files[j] < files[k]
                      /\ \A k \in DOMAIN source.entries :
                           source.entries[k].sound \/ (source.entries[k].dir /\ source.kind = "zip")
    BY DEF AllOrNothing
  <2>1. next = Len(source.entries) + 1 /\ Len(source.entries) \in Nat
    BY DEF SourceInv, SourceOK
  <2>2. next - 1 = Len(source.entries)
    BY <2>1
  <2>3. DOMAIN source.entries = 1 .. next - 1
    BY <2>2 DEF SourceInv, SourceOK
  <2> QED
    BY <2>2, <2>3 DEF SourceInv, ReadInOrder
<1> QED
  BY <1>1, <1>2 DEF SourceInv

LEMMA SourceInitSound == SourceInit => SourceInv
<1> SUFFICES ASSUME SourceInit PROVE SourceInv
  OBVIOUS
<1>1. source.kind \in Kind /\ source.entries \in Seq(SourceEntry)
  BY DiskAssumption DEF SourceInit
<1>2. SourceTypeOK /\ SourceOK
  BY <1>1, LimitsAssumption DEF SourceInit, SourceTypeOK, SourceOK
<1>3. Admitted
  BY LimitsAssumption DEF SourceInit, Admitted
<1>4. ReadInOrder
  BY DEF SourceInit, ReadInOrder, FilesUpTo
<1> QED
  BY <1>2, <1>3, <1>4 DEF SourceInv

\* Steps that end the reading, or have not begun it, leave the counts alone.
LEMMA EndedSound ==
  ASSUME SourceInv, NEW how \in Ends, Ended(how),
         how = "ok" => next > Len(source.entries)
  PROVE  SourceInv'
<1>1. reading' = how /\ UNCHANGED <<request, path, source, next, limits, files, held>>
  BY DEF Ended
<1>2. SourceTypeOK' /\ SourceOK'
  BY <1>1 DEF SourceInv, SourceTypeOK, SourceOK, Ends
<1>3. Admitted' /\ ReadInOrder'
  BY <1>1 DEF SourceInv, Admitted, ReadInOrder, FilesUpTo, AsListed
<1> QED
  BY <1>2, <1>3 DEF SourceInv

LEMMA ReadFileSound ==
  ASSUME SourceInv, ReadFile
  PROVE  SourceInv'
<1>1. /\ reading = "read" /\ next \in DOMAIN source.entries /\ ~ Entry.dir
      /\ Entry \in SourceEntry /\ Entry = source.entries[next]
  BY DEF ReadFile, AtEntry, Entry, SourceInv, SourceOK
<1>2. /\ files' = Append(files, next) /\ held' = held + Entry.size /\ next' = next + 1
      /\ UNCHANGED <<source, reading>>
      /\ limits' = IF source.kind = "plain" THEN limits ELSE addFile
  BY DEF ReadFile
<1>3. next \in Nat /\ files \in Seq(Nat) /\ held \in Nat /\ limits \in [files : Nat, total : Nat]
  BY DEF SourceInv, SourceTypeOK
<1>4. Counted \in Nat /\ Entry.size \in Nat
  BY <1>1 DEF Counted, SourceEntry
<1>5. SourceTypeOK'
  <2>1. addFile \in [files : Nat, total : Nat]
    BY <1>3, <1>4 DEF addFile
  <2>2. limits' \in [files : Nat, total : Nat] /\ files' \in Seq(Nat) /\ held' \in Nat /\ next' \in Nat
    BY <1>2, <1>3, <1>4, <2>1
  <2> QED
    BY <1>1, <1>2, <2>2 DEF SourceTypeOK
<1>6. SourceOK'
  BY <1>1, <1>2, <1>3 DEF SourceInv, SourceOK
<1>7. Admitted'
  <2> SUFFICES ASSUME source.kind # "plain" PROVE Admitted'
    BY <1>2 DEF Admitted
  <2>1. /\ limits'.files = limits.files + 1 /\ limits'.total = limits.total + Counted
        /\ limits.files + 1 <= maxFiles /\ limits.total + Counted <= maxTotalBytes
    BY <1>2, <1>3, <1>4, LimitsAssumption DEF addFile, ReadFile, OverLimit
  <2>2. Len(files') = Len(files) + 1
    BY <1>2, <1>3
  <2>3. ASSUME source.kind # "dir" \/ \A k \in DOMAIN source.entries : AsListed(source.entries[k])
        PROVE  Counted = Entry.size
    BY <1>1, <2>3 DEF Counted, AsListed, ReadFile, Broken, Archive, Kind, SourceInv, SourceOK
  <2> QED
    BY <1>2, <1>3, <1>4, <2>1, <2>2, <2>3 DEF SourceInv, Admitted, AsListed
<1>8. ReadInOrder'
  <2>1. FilesUpTo(next - 1)' = FilesUpTo(next - 1) \cup {next}
    <3>1. next \in Nat \ {0}
      BY <1>1, <1>3 DEF SourceInv, SourceOK
    <3>2. 1 .. next = (1 .. next - 1) \cup {next} /\ (next + 1) - 1 = next
      BY <3>1
    <3> QED
      BY <1>1, <1>2, <3>1, <3>2 DEF FilesUpTo
  <2>2. \A k \in DOMAIN files : files[k] < next
    <3> SUFFICES ASSUME NEW k \in DOMAIN files PROVE files[k] < next
      OBVIOUS
    <3>1. files[k] \in FilesUpTo(next - 1)
      BY DEF SourceInv, ReadInOrder
    <3> QED
      BY <1>3, <3>1 DEF FilesUpTo
  <2>3. /\ DOMAIN files' = DOMAIN files \cup {Len(files) + 1}
        /\ \A k \in DOMAIN files : files'[k] = files[k] /\ k < Len(files) + 1
        /\ files'[Len(files) + 1] = next
    BY <1>2, <1>3
  <2>4. {files'[k] : k \in DOMAIN files'} = {files[k] : k \in DOMAIN files} \cup {next}
    BY <2>3
  <2>5. Entry.sound
    BY <1>1 DEF ReadFile, Broken
  <2>6. ASSUME NEW k \in 1 .. next' - 1
        PROVE  source.entries[k].sound \/ (source.entries[k].dir /\ source.kind = "zip")
    <3>1. k = next \/ k \in 1 .. next - 1
      BY <1>2, <1>3
    <3> QED
      BY <1>1, <2>5, <3>1 DEF SourceInv, ReadInOrder
  <2>7. \A j, k \in DOMAIN files' : j < k => files'[j] < files'[k]
    BY <1>3, <2>2, <2>3 DEF SourceInv, ReadInOrder
  <2> QED
    BY <1>2, <2>1, <2>4, <2>6, <2>7 DEF SourceInv, ReadInOrder
<1> QED
  BY <1>5, <1>6, <1>7, <1>8 DEF SourceInv

LEMMA SkipDirectorySound ==
  ASSUME SourceInv, SkipDirectory
  PROVE  SourceInv'
<1>1. /\ next \in DOMAIN source.entries /\ source.entries[next].dir /\ next \in Nat
      /\ next' = next + 1 /\ reading = "read"
      /\ UNCHANGED <<source, limits, files, held, reading>>
  BY DEF SkipDirectory, AtEntry, Entry, SourceInv, SourceOK, SourceTypeOK
<1>2. SourceTypeOK' /\ SourceOK'
  BY <1>1 DEF SourceInv, SourceTypeOK, SourceOK
<1>3. Admitted'
  BY <1>1 DEF SourceInv, Admitted, AsListed
<1>4. FilesUpTo(next - 1)' = FilesUpTo(next - 1)
  BY <1>1 DEF FilesUpTo
<1>5. ASSUME NEW k \in 1 .. next' - 1
      PROVE  source.entries[k].sound \/ (source.entries[k].dir /\ source.kind = "zip")
  <2>1. k = next \/ k \in 1 .. next - 1
    BY <1>1
  <2> QED
    BY <1>1, <2>1 DEF SkipDirectory, Entry, SourceInv, ReadInOrder
<1> QED
  BY <1>1, <1>2, <1>3, <1>4, <1>5 DEF SourceInv, ReadInOrder

LEMMA SourceStepSound ==
  ASSUME SourceInv, [SourceNext]_sourceVars
  PROVE  SourceInv'
<1>1. CASE UNCHANGED <<source, next, limits, files, held>> /\ reading' \in {reading, "open", "read"}
           /\ (reading' = "read" => source.kind \notin {"missing", "unreadable"})
  <2>1. SourceTypeOK' /\ SourceOK'
    BY <1>1 DEF SourceInv, SourceTypeOK, SourceOK, Ends
  <2>2. Admitted' /\ ReadInOrder'
    BY <1>1 DEF SourceInv, Admitted, ReadInOrder, FilesUpTo, AsListed
  <2> QED
    BY <2>1, <2>2 DEF SourceInv
<1>2. CASE UNCHANGED sourceVars
  BY <1>1, <1>2 DEF sourceVars, SourceInv, SourceOK
<1>3. CASE ResolvePath
  BY <1>1, <1>3, EndedSound DEF ResolvePath, Ends
<1>4. CASE Open
  BY <1>1, <1>4, EndedSound DEF Open, Ends, SourceInv, SourceOK
<1>5. CASE RefuseFile
  BY <1>5, EndedSound DEF RefuseFile, Ends
<1>6. CASE CancelReading
  BY <1>6, EndedSound DEF CancelReading, Ends
<1>7. CASE EndOfSource
  BY <1>7, EndedSound DEF EndOfSource, Ends
<1> QED
  BY <1>2, <1>3, <1>4, <1>5, <1>6, <1>7, ReadFileSound, SkipDirectorySound DEF SourceNext

LEMMA SourceInvariant == SourceSpec => []SourceInv
BY SourceInitSound, SourceStepSound, PTL DEF SourceSpec

-----------------------------------------------------------------------------
\* The counters, the list of what was read and the place in the source keep
\* their types, whatever the source is.
THEOREM SourceTypeCorrect == SourceSpec => []SourceTypeOK
BY SourceInvariant, SourceInvImplies, PTL

\* Whatever the limits are and whatever the headers of an archive claim, the
\* contents in memory keep within the number of files and the total of bytes.
THEOREM LimitsCorrect == SourceSpec => []WithinLimits
BY SourceInvariant, SourceInvImplies, PTL

\* A source of any length is read as a whole and in order, or not at all.
THEOREM WholeSourceRead == SourceSpec => []AllOrNothing
BY SourceInvariant, SourceInvImplies, PTL

-----------------------------------------------------------------------------
(***************************************************************************)
(* Why a source is refused.  The total that addFile has counted is the     *)
(* recursive function TotalUpTo; that the function exists, and that it     *)
(* does not depend on how far it is computed, is proved by induction.      *)
(***************************************************************************)
LEMMA Least ==
  ASSUME NEW T \in SUBSET Nat, T # {}
  PROVE  \E x \in T : \A y \in T : x <= y
<1> DEFINE R == OpToRel(<, Nat)
<1>1. IsWellFoundedOn(R, Nat)
  BY NatLessThanWellFounded
<1>2. \A x, y \in Nat : y < x => <<y, x>> \in R
  BY DEF OpToRel
<1> HIDE DEF R
<1>3. PICK x \in T : \A y \in T : ~ (<<y, x>> \in R)
  BY <1>1, WFMin
<1>4. ASSUME NEW y \in T PROVE x <= y
  <2>1. y \in Nat /\ x \in Nat
    OBVIOUS
  <2>2. ~ (y < x)
    BY <1>2, <1>3, <2>1
  <2> QED
    BY <2>1, <2>2
<1> QED
  BY <1>4

LEMMA ByInduction ==
  ASSUME NEW S \in SUBSET Nat, 0 \in S, \A n \in S : n + 1 \in S
  PROVE  S = Nat
<1> SUFFICES ASSUME S # Nat PROVE FALSE
  OBVIOUS
<1>1. PICK x \in Nat \ S : \A y \in Nat \ S : x <= y
  <2>1. Nat \ S # {} /\ Nat \ S \in SUBSET Nat
    OBVIOUS
  <2> QED
    BY <2>1, Least
<1>2. x # 0 /\ x - 1 \in Nat
  BY <1>1
<1>3. x - 1 \in S
  BY <1>1, <1>2
<1> QED
  BY <1>1, <1>2, <1>3

\* The body of TotalUpTo's recursion.
TotalOf(s, f, k) == IF k = 0 THEN 0 ELSE f[k - 1] + SizeAt(s, k)

LEMMA TotalExists ==
  ASSUME NEW s, NEW N \in Nat
  PROVE  \E f : f = [k \in 0 .. N |-> TotalOf(s, f, k)]
<1> DEFINE S == {m \in Nat : \E f : f = [k \in 0 .. m |-> TotalOf(s, f, k)]}
<1>1. 0 \in S
  <2> DEFINE f == [k \in 0 .. 0 |-> 0]
  <2>1. f = [k \in 0 .. 0 |-> TotalOf(s, f, k)]
    BY DEF TotalOf
  <2> QED
    BY <2>1
<1>2. ASSUME NEW m \in S PROVE m + 1 \in S
  <2>1. PICK f : f = [k \in 0 .. m |-> TotalOf(s, f, k)]
    OBVIOUS
  <2> DEFINE h == [k \in 0 .. m + 1 |-> IF k = m + 1 THEN TotalOf(s, f, k) ELSE f[k]]
  <2>2. m \in Nat
    OBVIOUS
  <2>3. ASSUME NEW k \in 0 .. m + 1 PROVE h[k] = TotalOf(s, h, k)
    <3>1. \A j \in 0 .. m : h[j] = f[j]
      BY <2>2
    <3>2. CASE k = m + 1
      <4>1. h[k] = TotalOf(s, f, k)
        BY <3>2
      <4>2. k # 0 /\ k - 1 \in 0 .. m
        BY <2>2, <3>2
      <4> HIDE DEF h
      <4> QED
        BY <3>1, <4>1, <4>2 DEF TotalOf
    <3>3. CASE k # m + 1
      <4>1. k \in 0 .. m /\ (k # 0 => k - 1 \in 0 .. m)
        BY <2>2, <3>3
      <4>2. h[k] = f[k] /\ f[k] = TotalOf(s, f, k)
        BY <2>1, <3>1, <4>1
      <4> HIDE DEF h
      <4> QED
        BY <3>1, <4>1, <4>2 DEF TotalOf
    <3> QED
      BY <3>2, <3>3
  <2>4. h = [k \in 0 .. m + 1 |-> TotalOf(s, h, k)]
    <3>1. h = [k \in 0 .. m + 1 |-> h[k]]
      OBVIOUS
    <3> HIDE DEF h
    <3> QED
      BY <2>3, <3>1
  <2> HIDE DEF h
  <2>5. m + 1 \in Nat /\ \E g : g = [k \in 0 .. m + 1 |-> TotalOf(s, g, k)]
    BY <2>2, <2>4
  <2> QED
    BY <2>5
<1>3. S \in SUBSET Nat
  OBVIOUS
<1> HIDE DEF S
<1>4. S = Nat
  BY <1>1, <1>2, <1>3, ByInduction
<1> QED
  BY <1>4 DEF S

LEMMA TotalOfSource ==
  ASSUME NEW s, NEW n \in Nat
  PROVE  \E f : /\ f[0] = 0
                /\ \A k \in 1 .. n : f[k] = f[k - 1] + SizeAt(s, k)
                /\ TotalUpTo(s, n) = f[n]
<1> DEFINE total == CHOOSE f : f = [k \in 0 .. n |-> TotalOf(s, f, k)]
<1>1. total = [k \in 0 .. n |-> TotalOf(s, total, k)]
  BY TotalExists
<1>2. TotalUpTo(s, n) = total[n]
  BY DEF TotalUpTo, TotalOf
<1> HIDE DEF total
<1>3. \A k \in 0 .. n : total[k] = TotalOf(s, total, k)
  BY <1>1
<1>4. total[0] = 0 /\ \A k \in 1 .. n : total[k] = total[k - 1] + SizeAt(s, k)
  BY <1>3 DEF TotalOf
<1> QED
  BY <1>2, <1>4

LEMMA TotalOfNothing == ASSUME NEW s PROVE TotalUpTo(s, 0) = 0
BY TotalOfSource

LEMMA TotalOfOneMore ==
  ASSUME NEW s, NEW n \in Nat
  PROVE  TotalUpTo(s, n + 1) = TotalUpTo(s, n) + SizeAt(s, n + 1)
<1>1. PICK f : /\ f[0] = 0
               /\ \A k \in 1 .. n : f[k] = f[k - 1] + SizeAt(s, k)
               /\ TotalUpTo(s, n) = f[n]
  BY TotalOfSource
<1>2. PICK g : /\ g[0] = 0
               /\ \A k \in 1 .. n + 1 : g[k] = g[k - 1] + SizeAt(s, k)
               /\ TotalUpTo(s, n + 1) = g[n + 1]
  <2>1. n + 1 \in Nat
    OBVIOUS
  <2> QED
    BY <2>1, TotalOfSource
<1> DEFINE S == {m \in Nat : m <= n => f[m] = g[m]}
<1>3. 0 \in S
  BY <1>1, <1>2
<1>4. ASSUME NEW m \in S PROVE m + 1 \in S
  <2> SUFFICES ASSUME m + 1 <= n PROVE f[m + 1] = g[m + 1]
    OBVIOUS
  <2>1. m + 1 \in 1 .. n /\ m + 1 \in 1 .. n + 1 /\ (m + 1) - 1 = m /\ m <= n
    OBVIOUS
  <2>2. f[m] = g[m]
    BY <2>1
  <2>3. f[m + 1] = f[m] + SizeAt(s, m + 1) /\ g[m + 1] = g[m] + SizeAt(s, m + 1)
    BY <1>1, <1>2, <2>1
  <2> QED
    BY <2>2, <2>3
<1>5. S \in SUBSET Nat
  OBVIOUS
<1> HIDE DEF S
<1>6. S = Nat
  BY <1>3, <1>4, <1>5, ByInduction
<1>7. f[n] = g[n]
  BY <1>6 DEF S
<1>8. n + 1 \in 1 .. n + 1 /\ (n + 1) - 1 = n
  OBVIOUS
<1> QED
  BY <1>1, <1>2, <1>7, <1>8

\* What addFile has counted is the size of all that came before `next`; and
\* nothing has been resolved before resolvePath is called.
Counting ==
  /\ reading = "resolve" => path = <<>>
  /\ source.kind # "plain" => limits.total = TotalUpTo(source, next - 1)

RefusalInv == SourceInv /\ Counting /\ RefusalIsJustified

LEMMA RefusalInitSound == SourceInit => RefusalInv
<1> SUFFICES ASSUME SourceInit PROVE RefusalInv
  OBVIOUS
<1>1. next - 1 = 0
  BY DEF SourceInit
<1>2. Counting
  BY <1>1, TotalOfNothing DEF Counting, SourceInit
<1> QED
  BY <1>2, SourceInitSound DEF RefusalInv, RefusalIsJustified, SourceInit

LEMMA RefusalUnmoved ==
  ASSUME RefusalInv, UNCHANGED <<source, next, limits>>,
         reading' # "resolve" \/ UNCHANGED <<path, reading>>
  PROVE  Counting'
BY DEF RefusalInv, Counting

LEMMA RefuseFileJustified ==
  ASSUME RefusalInv, RefuseFile
  PROVE  RefusalInv'
<1>1. AtEntry /\ UNCHANGED <<request, path, source, next, limits, files, held>> /\ reading' # "resolve"
  BY DEF RefuseFile, Ended
<1>2. SourceInv'
  BY EndedSound DEF RefuseFile, Ends, RefusalInv
<1>3. Counting'
  BY <1>1, RefusalUnmoved
<1>4. ASSUME reading' = "ErrBadArguments" PROVE RefusalIsJustified'
  <2>1. OverLimit \/ TooLarge
    BY <1>4 DEF RefuseFile, Ended
  <2>2. /\ next \in Nat /\ next - 1 \in Nat /\ (next - 1) + 1 = next
        /\ next \in DOMAIN source.entries /\ ~ source.entries[next].dir
        /\ limits.files \in Nat /\ limits.total \in Nat
    BY <1>4 DEF RefuseFile, Ended, AtEntry, Entry, RefusalInv, SourceInv, SourceOK, SourceTypeOK
  <2>3. source.kind # "plain" => /\ TotalUpTo(source, next) = limits.total + Counted
                                 /\ limits.files = Len(files)
    BY <2>2, TotalOfOneMore DEF RefusalInv, Counting, SourceInv, Admitted, SizeAt, Counted, Entry
  <2>4. Len(files) \in Nat
    BY DEF RefusalInv, SourceInv, SourceTypeOK
  <2>5. \/ \E size \in {Entry.stated, Entry.stat, Entry.size} : size > maxFileSize
        \/ source.kind # "plain" /\ Len(files) >= maxFiles
        \/ source.kind # "plain" /\ TotalUpTo(source, next) > maxTotalBytes
    BY <2>1, <2>2, <2>3, <2>4, LimitsAssumption DEF OverLimit, TooLarge, Counted
  <2> QED
    BY <1>1, <2>5 DEF RefusalIsJustified, Entry
<1>5. RefusalIsJustified'
  BY <1>4 DEF RefusalIsJustified
<1> QED
  BY <1>2, <1>3, <1>5 DEF RefusalInv

LEMMA RefusalStepSound ==
  ASSUME RefusalInv, [SourceNext]_sourceVars
  PROVE  RefusalInv'
<1>1. SourceInv'
  BY SourceStepSound DEF RefusalInv
<1>2. CASE UNCHANGED sourceVars
  BY <1>1, <1>2 DEF sourceVars, RefusalInv, Counting, RefusalIsJustified
<1>3. CASE ResolvePath
  <2>1. Counting'
    BY <1>3, RefusalUnmoved DEF ResolvePath, Ended
  <2>2. RefusalIsJustified'
    BY <1>3 DEF ResolvePath, Ended, RefusalInv, Counting, RefusalIsJustified
  <2> QED
    BY <1>1, <2>1, <2>2 DEF RefusalInv
<1>4. CASE Open
  BY <1>1, <1>4, RefusalUnmoved DEF Open, Ended, RefusalInv, RefusalIsJustified
<1>5. CASE RefuseFile
  BY <1>5, RefuseFileJustified
<1>6. CASE CancelReading
  BY <1>1, <1>6, RefusalUnmoved DEF CancelReading, Ended, RefusalInv, RefusalIsJustified
<1>7. CASE EndOfSource
  BY <1>1, <1>7, RefusalUnmoved DEF EndOfSource, Ended, RefusalInv, RefusalIsJustified
<1>8. ASSUME AtEntry
      PROVE  /\ next \in Nat /\ next - 1 \in Nat /\ (next - 1) + 1 = next
             /\ (next + 1) - 1 = next
             /\ limits \in [files : Nat, total : Nat] /\ reading = "read"
             /\ TotalUpTo(source, next) = TotalUpTo(source, next - 1) + SizeAt(source, next)
  <2>1. next \in Nat /\ next - 1 \in Nat
    BY <1>8 DEF AtEntry, RefusalInv, SourceInv, SourceOK, SourceTypeOK
  <2> QED
    BY <1>8, <2>1, TotalOfOneMore DEF AtEntry, RefusalInv, SourceInv, SourceTypeOK
<1>9. CASE SkipDirectory
  <2>1. AtEntry /\ next' = next + 1 /\ UNCHANGED <<path, source, limits, reading>>
        /\ SizeAt(source, next) = 0
    BY <1>9 DEF SkipDirectory, SizeAt, Entry
  <2>2. Counting'
    BY <1>8, <2>1 DEF RefusalInv, Counting
  <2> QED
    BY <1>1, <1>8, <2>1, <2>2 DEF RefusalInv, RefusalIsJustified
<1>10. CASE ReadFile
  <2>1. /\ AtEntry /\ next' = next + 1 /\ UNCHANGED <<path, source, reading>>
        /\ SizeAt(source, next) = Counted
        /\ limits' = IF source.kind = "plain" THEN limits ELSE addFile
    BY <1>10 DEF ReadFile, SizeAt, Counted, Entry
  <2>2. Counting'
    BY <1>8, <2>1 DEF RefusalInv, Counting, addFile
  <2> QED
    BY <1>1, <1>8, <2>1, <2>2 DEF RefusalInv, RefusalIsJustified
<1> QED
  BY <1>2, <1>3, <1>4, <1>5, <1>6, <1>7, <1>9, <1>10 DEF SourceNext

\* A source is refused for its size only when one of the limits is exceeded by
\* it: what addFile has counted is what there was, for sources of any length.
THEOREM RefusalsCorrect == SourceSpec => []RefusalIsJustified
<1>1. RefusalInv => RefusalIsJustified
  BY DEF RefusalInv
<1> QED
  BY <1>1, RefusalInitSound, RefusalStepSound, PTL DEF SourceSpec

-----------------------------------------------------------------------------
(***************************************************************************)
(* Where a path leads.  Clean is a recursive function as well.             *)
(***************************************************************************)
\* The body of Clean's recursion.
CleanOf(segs, abs, f, k) ==
  IF k = 0 THEN <<>>
  ELSE IF segs[k] = ".." THEN Up(f[k - 1], abs)
  ELSE Append(f[k - 1], segs[k])

LEMMA CleanExists ==
  ASSUME NEW segs, NEW abs, NEW N \in Nat
  PROVE  \E f : f = [k \in 0 .. N |-> CleanOf(segs, abs, f, k)]
<1> DEFINE S == {m \in Nat : \E f : f = [k \in 0 .. m |-> CleanOf(segs, abs, f, k)]}
<1>1. 0 \in S
  <2> DEFINE f == [k \in 0 .. 0 |-> <<>>]
  <2>1. f = [k \in 0 .. 0 |-> CleanOf(segs, abs, f, k)]
    BY DEF CleanOf
  <2> QED
    BY <2>1
<1>2. ASSUME NEW m \in S PROVE m + 1 \in S
  <2>1. PICK f : f = [k \in 0 .. m |-> CleanOf(segs, abs, f, k)]
    OBVIOUS
  <2> DEFINE h == [k \in 0 .. m + 1 |-> IF k = m + 1 THEN CleanOf(segs, abs, f, k) ELSE f[k]]
  <2>2. m \in Nat
    OBVIOUS
  <2>3. ASSUME NEW k \in 0 .. m + 1 PROVE h[k] = CleanOf(segs, abs, h, k)
    <3>1. \A j \in 0 .. m : h[j] = f[j]
      BY <2>2
    <3>2. CASE k = m + 1
      <4>1. h[k] = CleanOf(segs, abs, f, k)
        BY <3>2
      <4>2. k # 0 /\ k - 1 \in 0 .. m
        BY <2>2, <3>2
      <4> HIDE DEF h
      <4> QED
        BY <3>1, <4>1, <4>2 DEF CleanOf
    <3>3. CASE k # m + 1
      <4>1. k \in 0 .. m /\ (k # 0 => k - 1 \in 0 .. m)
        BY <2>2, <3>3
      <4>2. h[k] = f[k] /\ f[k] = CleanOf(segs, abs, f, k)
        BY <2>1, <3>1, <4>1
      <4> HIDE DEF h
      <4> QED
        BY <3>1, <4>1, <4>2 DEF CleanOf
    <3> QED
      BY <3>2, <3>3
  <2>4. h = [k \in 0 .. m + 1 |-> CleanOf(segs, abs, h, k)]
    <3>1. h = [k \in 0 .. m + 1 |-> h[k]]
      OBVIOUS
    <3> HIDE DEF h
    <3> QED
      BY <2>3, <3>1
  <2> HIDE DEF h
  <2>5. m + 1 \in Nat /\ \E g : g = [k \in 0 .. m + 1 |-> CleanOf(segs, abs, g, k)]
    BY <2>2, <2>4
  <2> QED
    BY <2>5
<1>3. S \in SUBSET Nat
  OBVIOUS
<1> HIDE DEF S
<1>4. S = Nat
  BY <1>1, <1>2, <1>3, ByInduction
<1> QED
  BY <1>4 DEF S

LEMMA CleanSteps ==
  ASSUME NEW segs, Len(segs) \in Nat, NEW abs
  PROVE  \E f : /\ f[0] = <<>>
                /\ \A k \in 0 .. Len(segs) - 1 :
                     f[k + 1] = IF segs[k + 1] = ".." THEN Up(f[k], abs)
                                ELSE Append(f[k], segs[k + 1])
                /\ Clean(segs, abs) = f[Len(segs)]
<1> DEFINE done == CHOOSE f : f = [k \in 0 .. Len(segs) |-> CleanOf(segs, abs, f, k)]
<1>1. done = [k \in 0 .. Len(segs) |-> CleanOf(segs, abs, done, k)]
  BY CleanExists
<1>2. Clean(segs, abs) = done[Len(segs)]
  BY DEF Clean, CleanOf
<1> HIDE DEF done
<1>3. \A k \in 0 .. Len(segs) : done[k] = CleanOf(segs, abs, done, k)
  BY <1>1
<1>4. done[0] = <<>>
  BY <1>3 DEF CleanOf
<1>5. ASSUME NEW k \in 0 .. Len(segs) - 1
      PROVE  done[k + 1] = IF segs[k + 1] = ".." THEN Up(done[k], abs)
                           ELSE Append(done[k], segs[k + 1])
  <2>1. k + 1 \in 0 .. Len(segs) /\ k + 1 # 0 /\ (k + 1) - 1 = k
    OBVIOUS
  <2> QED
    BY <1>3, <2>1 DEF CleanOf
<1> QED
  BY <1>2, <1>4, <1>5

PathElement == STRING \cup {".."}

\* No element of a path leads up.
Straight(segs) == segs \in Seq(PathElement) /\ \A k \in DOMAIN segs : segs[k] # ".."

LEMMA StraightEmpty == Straight(<<>>) /\ Len(<<>>) = 0 /\ <<>> \in Seq(PathElement)
BY EmptySeq DEF Straight

LEMMA StraightGrows ==
  ASSUME NEW segs, Straight(segs), NEW e \in PathElement, e # ".."
  PROVE  Straight(Append(segs, e)) /\ Len(Append(segs, e)) = Len(segs) + 1
BY DEF Straight

LEMMA StraightShrinks ==
  ASSUME NEW segs, Straight(segs), NEW abs, segs # <<>>
  PROVE  Straight(Up(segs, abs)) /\ Len(Up(segs, abs)) = Len(segs) - 1
<1>1. /\ segs \in Seq(PathElement) /\ Len(segs) \in Nat /\ Len(segs) # 0
      /\ segs[Len(segs)] # ".."
  BY EmptySeq DEF Straight
<1>2. Up(segs, abs) = SubSeq(segs, 1, Len(segs) - 1)
  BY <1>1 DEF Up
<1>3. /\ SubSeq(segs, 1, Len(segs) - 1) \in Seq(PathElement)
      /\ Len(SubSeq(segs, 1, Len(segs) - 1)) = Len(segs) - 1
      /\ \A k \in 1 .. Len(segs) - 1 : SubSeq(segs, 1, Len(segs) - 1)[k] = segs[k]
  <2>1. \A k \in 1 .. Len(segs) - 1 : segs[k] \in PathElement
    BY <1>1
  <2>2. 1 \in Int /\ Len(segs) - 1 \in Int
    BY <1>1
  <2>3. /\ SubSeq(segs, 1, Len(segs) - 1) \in Seq(PathElement)
        /\ Len(SubSeq(segs, 1, Len(segs) - 1)) =
             IF 1 <= Len(segs) - 1 THEN (Len(segs) - 1) - 1 + 1 ELSE 0
        /\ \A k \in 1 .. (Len(segs) - 1) - 1 + 1 :
             SubSeq(segs, 1, Len(segs) - 1)[k] = segs[1 + k - 1]
    BY <2>1, <2>2, SubSeqProperties
  <2> DEFINE p == SubSeq(segs, 1, Len(segs) - 1)
             n == Len(segs) - 1
  <2>4. n \in Nat
    BY <1>1
  <2> HIDE DEF p, n
  <2>5. /\ p \in Seq(PathElement) /\ Len(p) = (IF 1 <= n THEN n - 1 + 1 ELSE 0)
        /\ \A k \in 1 .. n - 1 + 1 : p[k] = segs[1 + k - 1]
    BY <2>3 DEF p, n
  <2>6. Len(p) = n
    BY <2>4, <2>5
  <2>7. ASSUME NEW k \in 1 .. n PROVE p[k] = segs[k]
    <3>1. k \in 1 .. n - 1 + 1 /\ 1 + k - 1 = k
      BY <2>4
    <3> QED
      BY <2>5, <3>1
  <2> QED
    BY <2>5, <2>6, <2>7 DEF p, n
<1> QED
  BY <1>1, <1>2, <1>3 DEF Straight

LEMMA StraightJoined ==
  ASSUME NEW s, Straight(s), NEW t, Straight(t)
  PROVE  /\ Straight(s \o t) /\ Len(s \o t) = Len(s) + Len(t)
         /\ \A k \in 1 .. Len(s) : (s \o t)[k] = s[k]
<1>1. s \in Seq(PathElement) /\ t \in Seq(PathElement) /\ Len(s) \in Nat /\ Len(t) \in Nat
  BY DEF Straight
<1>2. /\ s \o t \in Seq(PathElement) /\ Len(s \o t) = Len(s) + Len(t)
      /\ \A k \in 1 .. Len(s) + Len(t) : (s \o t)[k] = IF k <= Len(s) THEN s[k] ELSE t[k - Len(s)]
  BY <1>1, ConcatProperties
<1>3. \A k \in 1 .. Len(s) + Len(t) : (s \o t)[k] # ".."
  BY <1>1, <1>2 DEF Straight
<1> QED
  BY <1>1, <1>2, <1>3 DEF Straight

LEMMA StraightTail ==
  ASSUME NEW segs, Straight(segs), segs # <<>>
  PROVE  Straight(Tail(segs))
BY EmptySeq DEF Straight

\* An absolute path has no ".." left once it is clean.
LEMMA CleanIsStraight ==
  ASSUME NEW segs \in Seq(PathElement), NEW abs, abs
  PROVE  Straight(Clean(segs, abs))
<1>1. Len(segs) \in Nat
  OBVIOUS
<1>2. PICK f : /\ f[0] = <<>>
               /\ \A k \in 0 .. Len(segs) - 1 :
                    f[k + 1] = IF segs[k + 1] = ".." THEN Up(f[k], abs)
                               ELSE Append(f[k], segs[k + 1])
               /\ Clean(segs, abs) = f[Len(segs)]
  BY <1>1, CleanSteps
<1> DEFINE S == {m \in Nat : m <= Len(segs) => Straight(f[m])}
<1>3. 0 \in S
  BY <1>2, StraightEmpty
<1>4. ASSUME NEW m \in S PROVE m + 1 \in S
  <2> SUFFICES ASSUME m + 1 <= Len(segs) PROVE Straight(f[m + 1])
    OBVIOUS
  <2>1. m \in 0 .. Len(segs) - 1 /\ m + 1 \in DOMAIN segs /\ segs[m + 1] \in PathElement
    BY <1>1
  <2>2. Straight(f[m])
    BY <2>1
  <2>3. f[m + 1] = IF segs[m + 1] = ".." THEN Up(f[m], abs) ELSE Append(f[m], segs[m + 1])
    BY <1>2, <2>1
  <2>4. CASE segs[m + 1] # ".."
    BY <2>1, <2>2, <2>3, <2>4, StraightGrows
  <2>5. CASE segs[m + 1] = ".." /\ f[m] # <<>>
    BY <2>2, <2>3, <2>5, StraightShrinks
  <2>6. CASE segs[m + 1] = ".." /\ f[m] = <<>>
    BY <2>2, <2>3, <2>6 DEF Up
  <2> QED
    BY <2>4, <2>5, <2>6
<1>5. S \in SUBSET Nat
  OBVIOUS
<1> HIDE DEF S
<1>6. S = Nat
  BY <1>3, <1>4, <1>5, ByInduction
<1>7. Straight(f[Len(segs)])
  BY <1>1, <1>6 DEF S
<1> QED
  BY <1>2, <1>7

\* Whatever is cleaned is a path.
LEMMA CleanIsPath ==
  ASSUME NEW segs \in Seq(PathElement), NEW abs
  PROVE  Clean(segs, abs) \in Seq(PathElement)
<1>1. Len(segs) \in Nat
  OBVIOUS
<1>2. PICK f : /\ f[0] = <<>>
               /\ \A k \in 0 .. Len(segs) - 1 :
                    f[k + 1] = IF segs[k + 1] = ".." THEN Up(f[k], abs)
                               ELSE Append(f[k], segs[k + 1])
               /\ Clean(segs, abs) = f[Len(segs)]
  BY <1>1, CleanSteps
<1> DEFINE S == {m \in Nat : m <= Len(segs) => f[m] \in Seq(PathElement)}
<1>3. 0 \in S
  BY <1>2, StraightEmpty
<1>4. ASSUME NEW m \in S PROVE m + 1 \in S
  <2> SUFFICES ASSUME m + 1 <= Len(segs) PROVE f[m + 1] \in Seq(PathElement)
    OBVIOUS
  <2>1. /\ m \in 0 .. Len(segs) - 1 /\ segs[m + 1] \in PathElement
        /\ f[m] \in Seq(PathElement) /\ ".." \in PathElement
    BY <1>1 DEF PathElement
  <2>2. f[m] # <<>> => SubSeq(f[m], 1, Len(f[m]) - 1) \in Seq(PathElement)
    BY <2>1, EmptySeq
  <2>3. Up(f[m], abs) \in Seq(PathElement)
    BY <2>1, <2>2 DEF Up
  <2>4. Append(f[m], segs[m + 1]) \in Seq(PathElement)
    BY <2>1
  <2>5. f[m + 1] = IF segs[m + 1] = ".." THEN Up(f[m], abs) ELSE Append(f[m], segs[m + 1])
    BY <1>2, <2>1
  <2> QED
    BY <2>3, <2>4, <2>5
<1>5. S \in SUBSET Nat
  OBVIOUS
<1> HIDE DEF S
<1>6. S = Nat
  BY <1>3, <1>4, <1>5, ByInduction
<1> QED
  BY <1>1, <1>2, <1>6 DEF S

\* A straight path is clean.
LEMMA CleanKeepsStraight ==
  ASSUME NEW segs, Straight(segs), NEW abs
  PROVE  Clean(segs, abs) = segs
<1>1. segs \in Seq(PathElement) /\ Len(segs) \in Nat
  BY DEF Straight
<1>2. PICK f : /\ f[0] = <<>>
               /\ \A k \in 0 .. Len(segs) - 1 :
                    f[k + 1] = IF segs[k + 1] = ".." THEN Up(f[k], abs)
                               ELSE Append(f[k], segs[k + 1])
               /\ Clean(segs, abs) = f[Len(segs)]
  BY <1>1, CleanSteps
<1> DEFINE Same(m) == /\ f[m] \in Seq(PathElement) /\ Len(f[m]) = m
                      /\ \A j \in 1 .. m : f[m][j] = segs[j]
           S == {m \in Nat : m <= Len(segs) => Same(m)}
<1>3. 0 \in S
  <2>1. f[0] \in Seq(PathElement) /\ Len(f[0]) = 0
    BY <1>2, StraightEmpty
  <2> QED
    BY <2>1
<1>4. ASSUME NEW m \in S PROVE m + 1 \in S
  <2> SUFFICES ASSUME m + 1 <= Len(segs) PROVE Same(m + 1)
    OBVIOUS
  <2>1. /\ m \in 0 .. Len(segs) - 1 /\ m + 1 \in DOMAIN segs /\ segs[m + 1] \in PathElement
        /\ Same(m) /\ m \in Nat
    BY <1>1
  <2>2. f[m + 1] = Append(f[m], segs[m + 1])
    BY <1>2, <2>1 DEF Straight
  <2> QED
    BY <2>1, <2>2
<1>5. S \in SUBSET Nat
  OBVIOUS
<1> HIDE DEF S
<1>6. S = Nat
  BY <1>3, <1>4, <1>5, ByInduction
<1>7. Same(Len(segs))
  BY <1>1, <1>6 DEF S
<1>8. f[Len(segs)] = segs
  BY <1>1, <1>7, SeqEqual
<1> QED
  BY <1>2, <1>8

-----------------------------------------------------------------------------
\* A path that never climbs loses one element for every "..".
Ups(segs, n) == {k \in 1 .. n : segs[k] = ".."}

LEMMA UpsGrow ==
  ASSUME NEW segs, NEW n \in Nat
  PROVE  /\ Cardinality(Ups(segs, n)) \in Nat
         /\ Cardinality(Ups(segs, n + 1)) =
              IF segs[n + 1] = ".." THEN Cardinality(Ups(segs, n)) + 1
              ELSE Cardinality(Ups(segs, n))
<1>1. IsFiniteSet(1 .. n)
  BY FS_Interval
<1>2. IsFiniteSet(Ups(segs, n))
  BY <1>1, FS_Subset DEF Ups
<1>3. CASE segs[n + 1] = ".."
  <2>1. Ups(segs, n + 1) = Ups(segs, n) \cup {n + 1} /\ n + 1 \notin Ups(segs, n)
    BY <1>3 DEF Ups
  <2> QED
    BY <1>2, <1>3, <2>1, FS_AddElement, FS_CardinalityType
<1>4. CASE segs[n + 1] # ".."
  <2>1. Ups(segs, n + 1) = Ups(segs, n)
    BY <1>4 DEF Ups
  <2> QED
    BY <1>2, <1>4, <2>1, FS_CardinalityType
<1> QED
  BY <1>3, <1>4

LEMMA DescendsStraight ==
  ASSUME NEW segs \in Seq(PathElement), Descends(segs), NEW abs
  PROVE  Straight(Clean(segs, abs))
<1>1. Len(segs) \in Nat
  OBVIOUS
<1>2. PICK f : /\ f[0] = <<>>
               /\ \A k \in 0 .. Len(segs) - 1 :
                    f[k + 1] = IF segs[k + 1] = ".." THEN Up(f[k], abs)
                               ELSE Append(f[k], segs[k + 1])
               /\ Clean(segs, abs) = f[Len(segs)]
  BY <1>1, CleanSteps
<1> DEFINE Deep(m) == Straight(f[m]) /\ Len(f[m]) = m - 2 * Cardinality(Ups(segs, m))
           S == {m \in Nat : m <= Len(segs) => Deep(m)}
<1>3. 0 \in S
  <2>1. Ups(segs, 0) = {}
    BY DEF Ups
  <2>2. Cardinality(Ups(segs, 0)) = 0
    BY <2>1, FS_EmptySet
  <2> QED
    BY <1>2, <2>2, StraightEmpty
<1>4. ASSUME NEW m \in S PROVE m + 1 \in S
  <2> SUFFICES ASSUME m + 1 <= Len(segs) PROVE Deep(m + 1)
    OBVIOUS
  <2>1. /\ m \in 0 .. Len(segs) - 1 /\ m + 1 \in DOMAIN segs /\ segs[m + 1] \in PathElement
        /\ Straight(f[m]) /\ Len(f[m]) = m - 2 * Cardinality(Ups(segs, m)) /\ m \in Nat
    BY <1>1
  <2>2. f[m + 1] = IF segs[m + 1] = ".." THEN Up(f[m], abs) ELSE Append(f[m], segs[m + 1])
    BY <1>2, <2>1
  <2>3. CASE segs[m + 1] # ".."
    <3>1. Cardinality(Ups(segs, m)) \in Nat /\ Cardinality(Ups(segs, m + 1)) = Cardinality(Ups(segs, m))
      BY <2>1, <2>3, UpsGrow
    <3>2. Straight(f[m + 1]) /\ Len(f[m + 1]) = Len(f[m]) + 1
      BY <2>1, <2>2, <2>3, StraightGrows
    <3> QED
      BY <2>1, <3>1, <3>2
  <2>4. CASE segs[m + 1] = ".."
    <3>1. 2 * Cardinality(Ups(segs, m + 1)) <= m + 1
      BY <2>1 DEF Descends, Ups
    <3>2. /\ Cardinality(Ups(segs, m)) \in Nat
          /\ Cardinality(Ups(segs, m + 1)) = Cardinality(Ups(segs, m)) + 1
      BY <2>1, <2>4, UpsGrow
    <3>3. Len(f[m]) # 0
      BY <2>1, <3>1, <3>2
    <3>4. f[m] # <<>>
      BY <3>3
    <3>5. Straight(f[m + 1]) /\ Len(f[m + 1]) = Len(f[m]) - 1
      BY <2>1, <2>2, <2>4, <3>4, StraightShrinks
    <3> QED
      BY <2>1, <3>2, <3>5
  <2> QED
    BY <2>3, <2>4
<1>5. S \in SUBSET Nat
  OBVIOUS
<1> HIDE DEF S
<1>6. S = Nat
  BY <1>3, <1>4, <1>5, ByInduction
<1> QED
  BY <1>1, <1>2, <1>6 DEF S

-----------------------------------------------------------------------------
LEMMA DataDirStraight == Straight(dataDir)
<1>1. dataDir \in Seq(STRING) /\ \A k \in DOMAIN dataDir : dataDir[k] # ".."
  BY DataDirAssumption
<1>2. dataDir \in Seq(PathElement)
  BY <1>1 DEF PathElement
<1> QED
  BY <1>1, <1>2 DEF Straight

\* What resolvePath makes of a request has no ".." in it.
LEMMA CandidateStraight ==
  ASSUME NEW r \in Request
  PROVE  Straight(Candidate(r))
<1>1. r.segs \in Seq(PathElement) /\ r.abs \in BOOLEAN /\ dataDir \in Seq(PathElement)
  BY DataDirStraight DEF Request, PathElement, Straight
<1> DEFINE segs == Clean(r.segs, r.abs)
<1>2. segs \in Seq(PathElement)
  BY <1>1, CleanIsPath
<1>3. CASE ~ r.abs
  <2>1. dataDir \o segs \in Seq(PathElement)
    BY <1>1, <1>2
  <2> HIDE DEF segs
  <2>2. Candidate(r) = Clean(dataDir \o segs, TRUE)
    BY <1>3 DEF Candidate, segs
  <2> QED
    BY <2>1, <2>2, CleanIsStraight
<1>4. CASE r.abs
  <2>1. Straight(segs)
    BY <1>1, <1>4, CleanIsStraight
  <2>2. segs # <<>> => Straight(Tail(segs))
    BY <2>1, StraightTail
  <2> HIDE DEF segs
  <2>3. Candidate(r) = IF segs # <<>> /\ segs[1] = "data" THEN dataDir \o Tail(segs) ELSE segs
    BY <1>4 DEF Candidate, segs
  <2> QED
    BY <2>1, <2>2, <2>3, DataDirStraight, StraightJoined
<1> QED
  BY <1>1, <1>3, <1>4

\* A relative path that never climbs leads below the data directory.
LEMMA CandidateDescends ==
  ASSUME NEW r \in Request, ~ r.abs, Descends(r.segs)
  PROVE  /\ Candidate(r) = dataDir \o Clean(r.segs, FALSE)
         /\ IsBelow(Candidate(r), dataDir)
<1> DEFINE segs == Clean(r.segs, FALSE)
<1>1. r.segs \in Seq(PathElement) /\ r.abs = FALSE
  BY DEF Request, PathElement
<1>2. Straight(segs)
  BY <1>1, DescendsStraight
<1>3. Candidate(r) = Clean(dataDir \o segs, TRUE)
  BY <1>1 DEF Candidate
<1> HIDE DEF segs
<1>4. /\ Straight(dataDir \o segs) /\ Len(dataDir \o segs) = Len(dataDir) + Len(segs)
      /\ \A k \in 1 .. Len(dataDir) : (dataDir \o segs)[k] = dataDir[k]
  BY <1>2, DataDirStraight, StraightJoined
<1>5. Candidate(r) = dataDir \o segs
  BY <1>3, <1>4, CleanKeepsStraight
<1>6. dataDir \in Seq(PathElement) /\ segs \in Seq(PathElement)
  BY <1>2, DataDirStraight DEF Straight
<1>7. SubSeq(dataDir \o segs, 1, Len(dataDir)) = dataDir
  <2>1. /\ SubSeq(dataDir \o segs, 1, Len(dataDir)) \in Seq(PathElement)
        /\ Len(SubSeq(dataDir \o segs, 1, Len(dataDir))) = Len(dataDir)
        /\ \A k \in 1 .. Len(dataDir) :
             SubSeq(dataDir \o segs, 1, Len(dataDir))[k] = (dataDir \o segs)[k]
    BY <1>4, <1>6 DEF Straight
  <2> QED
    BY <1>4, <1>6, <2>1, SeqEqual
<1>8. IsBelow(dataDir \o segs, dataDir)
  BY <1>4, <1>6, <1>7 DEF IsBelow
<1> QED
  BY <1>5, <1>8 DEF segs

PathInv ==
  /\ request \in Request
  /\ reading = "resolve" => path = <<>>
  /\ path # <<>> => path = Candidate(request) /\ IsBelow(path, dataDir)
  /\ ~ request.blank /\ ~ request.abs /\ Descends(request.segs) =>
       reading = "resolve" \/ path = dataDir \o Clean(request.segs, FALSE)

LEMMA PathInvImplies == PathInv => PathStaysInside
<1> SUFFICES ASSUME PathInv, path # <<>>
             PROVE  /\ Len(path) >= Len(dataDir)
                    /\ \A k \in DOMAIN path :
                         path[k] # ".." /\ (k <= Len(dataDir) => path[k] = dataDir[k])
  BY DEF PathInv, PathStaysInside
<1>1. Straight(path) /\ IsBelow(path, dataDir)
  BY CandidateStraight DEF PathInv
<1>2. /\ path \in Seq(PathElement) /\ dataDir \in Seq(PathElement)
      /\ \A k \in DOMAIN path : path[k] # ".."
  BY <1>1, DataDirStraight DEF Straight
<1>3. Len(dataDir) <= Len(path) /\ SubSeq(path, 1, Len(dataDir)) = dataDir
  BY <1>1 DEF IsBelow
<1>4. ASSUME NEW k \in DOMAIN path, k <= Len(dataDir) PROVE path[k] = dataDir[k]
  <2>1. k \in 1 .. Len(dataDir) /\ Len(dataDir) \in 0 .. Len(path)
    BY <1>2, <1>3, <1>4
  <2>2. SubSeq(path, 1, Len(dataDir))[k] = path[k]
    BY <1>2, <2>1
  <2> QED
    BY <1>3, <2>2
<1> QED
  BY <1>2, <1>3, <1>4

LEMMA PathInitSound == SourceInit => PathInv
BY DiskAssumption DEF SourceInit, PathInv

LEMMA PathStepSound ==
  ASSUME PathInv, [SourceNext]_sourceVars
  PROVE  PathInv'
<1>1. CASE UNCHANGED <<request, path>> /\ (reading' = "resolve" => reading = "resolve")
           /\ reading # "resolve"
  BY <1>1 DEF PathInv
<1>2. CASE UNCHANGED sourceVars
  BY <1>2 DEF PathInv, sourceVars
<1>3. CASE ResolvePath
  <2>1. request \in Request /\ path = <<>>
    BY <1>3 DEF ResolvePath, PathInv
  <2>2. CASE request.blank \/ ~ IsBelow(Candidate(request), dataDir)
    <3>1. UNCHANGED <<request, path>> /\ reading' = "ErrBadArguments"
      BY <1>3, <2>2 DEF ResolvePath, Ended
    <3>2. ~ (~ request.blank /\ ~ request.abs /\ Descends(request.segs))
      BY <2>1, <2>2, CandidateDescends
    <3> QED
      BY <2>1, <3>1, <3>2 DEF PathInv
  <2>3. CASE ~ request.blank /\ IsBelow(Candidate(request), dataDir)
    <3>1. path' = Candidate(request) /\ UNCHANGED request /\ reading' = "open"
      BY <1>3, <2>3 DEF ResolvePath
    <3>2. ~ request.abs /\ Descends(request.segs) =>
            Candidate(request) = dataDir \o Clean(request.segs, FALSE)
      BY <2>1, CandidateDescends
    <3> QED
      BY <2>1, <2>3, <3>1, <3>2 DEF PathInv
  <2> QED
    BY <2>2, <2>3
<1>4. CASE Open
  BY <1>1, <1>4 DEF Open, Ended
<1>5. CASE SkipDirectory
  BY <1>1, <1>5 DEF SkipDirectory, AtEntry
<1>6. CASE RefuseFile
  BY <1>1, <1>6 DEF RefuseFile, AtEntry, Ended
<1>7. CASE ReadFile
  BY <1>1, <1>7 DEF ReadFile, AtEntry
<1>8. CASE CancelReading
  BY <1>1, <1>8 DEF CancelReading, Ended
<1>9. CASE EndOfSource
  BY <1>1, <1>9 DEF EndOfSource, Ended
<1> QED
  BY <1>2, <1>3, <1>4, <1>5, <1>6, <1>7, <1>8, <1>9 DEF SourceNext

\* For every data directory and every requested path: what is opened lies below
\* the data directory, and a relative path that never climbs above its start is
\* never refused and leads where it says.
THEOREM PathsCorrect == SourceSpec => []PathStaysInside
BY PathInitSound, PathStepSound, PathInvImplies, PTL DEF SourceSpec

-----------------------------------------------------------------------------
(***************************************************************************)
(* From the content of a file to records: what NonEmpty and FlattenSeq,    *)
(* which are recursive functions, leave of a sequence.                     *)
(***************************************************************************)
\* A record as a file has it, and with the names it is classified under.
RawRecord == UNION {[D -> STRING] : D \in SUBSET STRING}
Item == [name : SUBSET STRING, raw : RawRecord]

LEMMA Greatest ==
  ASSUME NEW n \in Nat, NEW T \in SUBSET (1 .. n), T # {}
  PROVE  \E x \in T : \A y \in T : y <= x
<1> DEFINE U == {n - x : x \in T}
<1>1. U \in SUBSET Nat /\ U # {}
  <2>1. \A x \in T : n - x \in Nat
    OBVIOUS
  <2> QED
    BY <2>1
<1>2. PICK u \in U : \A v \in U : u <= v
  BY <1>1, Least
<1>3. PICK x \in T : u = n - x
  OBVIOUS
<1>4. ASSUME NEW y \in T PROVE y <= x
  <2>1. n - x <= n - y
    BY <1>2, <1>3
  <2> QED
    BY <2>1
<1> QED
  BY <1>4

\* The body of NonEmpty's recursion.
KeptOf(recs, f, k) ==
  IF k = 0 THEN <<>>
  ELSE IF DOMAIN recs[k] = {} THEN f[k - 1]
  ELSE Append(f[k - 1], recs[k])

LEMMA KeptExists ==
  ASSUME NEW recs, NEW N \in Nat
  PROVE  \E f : f = [k \in 0 .. N |-> KeptOf(recs, f, k)]
<1> DEFINE S == {m \in Nat : \E f : f = [k \in 0 .. m |-> KeptOf(recs, f, k)]}
<1>1. 0 \in S
  <2> DEFINE f == [k \in 0 .. 0 |-> <<>>]
  <2>1. f = [k \in 0 .. 0 |-> KeptOf(recs, f, k)]
    BY DEF KeptOf
  <2> QED
    BY <2>1
<1>2. ASSUME NEW m \in S PROVE m + 1 \in S
  <2>1. PICK f : f = [k \in 0 .. m |-> KeptOf(recs, f, k)]
    OBVIOUS
  <2> DEFINE h == [k \in 0 .. m + 1 |-> IF k = m + 1 THEN KeptOf(recs, f, k) ELSE f[k]]
  <2>2. m \in Nat
    OBVIOUS
  <2>3. ASSUME NEW k \in 0 .. m + 1 PROVE h[k] = KeptOf(recs, h, k)
    <3>1. \A j \in 0 .. m : h[j] = f[j]
      BY <2>2
    <3>2. CASE k = m + 1
      <4>1. h[k] = KeptOf(recs, f, k)
        BY <3>2
      <4>2. k # 0 /\ k - 1 \in 0 .. m
        BY <2>2, <3>2
      <4> HIDE DEF h
      <4> QED
        BY <3>1, <4>1, <4>2 DEF KeptOf
    <3>3. CASE k # m + 1
      <4>1. k \in 0 .. m /\ (k # 0 => k - 1 \in 0 .. m)
        BY <2>2, <3>3
      <4>2. h[k] = f[k] /\ f[k] = KeptOf(recs, f, k)
        BY <2>1, <3>1, <4>1
      <4> HIDE DEF h
      <4> QED
        BY <3>1, <4>1, <4>2 DEF KeptOf
    <3> QED
      BY <3>2, <3>3
  <2>4. h = [k \in 0 .. m + 1 |-> KeptOf(recs, h, k)]
    <3>1. h = [k \in 0 .. m + 1 |-> h[k]]
      OBVIOUS
    <3> HIDE DEF h
    <3> QED
      BY <2>3, <3>1
  <2> HIDE DEF h
  <2>5. m + 1 \in Nat /\ \E g : g = [k \in 0 .. m + 1 |-> KeptOf(recs, g, k)]
    BY <2>2, <2>4
  <2> QED
    BY <2>5
<1>3. S \in SUBSET Nat
  OBVIOUS
<1> HIDE DEF S
<1>4. S = Nat
  BY <1>1, <1>2, <1>3, ByInduction
<1> QED
  BY <1>4 DEF S

\* What NonEmpty keeps is a sequence, and what it drops has no column.
LEMMA NonEmptyKept ==
  ASSUME NEW T, NEW recs \in Seq(T), \A x \in T : DOMAIN x # {} => x \in RawRecord
  PROVE  NonEmpty(recs) \in Seq(RawRecord)
<1> DEFINE kept == CHOOSE f : f = [k \in 0 .. Len(recs) |-> KeptOf(recs, f, k)]
<1>1. Len(recs) \in Nat
  OBVIOUS
<1>2. kept = [k \in 0 .. Len(recs) |-> KeptOf(recs, kept, k)]
  BY <1>1, KeptExists
<1>3. NonEmpty(recs) = kept[Len(recs)]
  BY DEF NonEmpty, KeptOf
<1> HIDE DEF kept
<1>4. \A k \in 0 .. Len(recs) : kept[k] = KeptOf(recs, kept, k)
  BY <1>2
<1> DEFINE S == {m \in Nat : m <= Len(recs) => kept[m] \in Seq(RawRecord)}
<1>5. 0 \in S
  <2>1. kept[0] = <<>>
    BY <1>1, <1>4 DEF KeptOf
  <2> QED
    BY <2>1, EmptySeq
<1>6. ASSUME NEW m \in S PROVE m + 1 \in S
  <2> SUFFICES ASSUME m + 1 <= Len(recs) PROVE kept[m + 1] \in Seq(RawRecord)
    OBVIOUS
  <2>1. /\ m + 1 \in 0 .. Len(recs) /\ m + 1 \in DOMAIN recs /\ m + 1 # 0 /\ (m + 1) - 1 = m
        /\ kept[m] \in Seq(RawRecord)
    BY <1>1
  <2>2. kept[m + 1] = IF DOMAIN recs[m + 1] = {} THEN kept[m] ELSE Append(kept[m], recs[m + 1])
    BY <1>4, <2>1 DEF KeptOf
  <2>3. recs[m + 1] \in T
    BY <2>1
  <2>4. ASSUME DOMAIN recs[m + 1] # {} PROVE Append(kept[m], recs[m + 1]) \in Seq(RawRecord)
    <3>1. recs[m + 1] \in RawRecord
      BY <2>3, <2>4
    <3> HIDE DEF RawRecord
    <3> QED
      BY <2>1, <3>1, AppendProperties
  <2> QED
    BY <2>1, <2>2, <2>4
<1>7. S \in SUBSET Nat
  OBVIOUS
<1> HIDE DEF S
<1>8. S = Nat
  BY <1>5, <1>6, <1>7, ByInduction
<1>9. kept[Len(recs)] \in Seq(RawRecord)
  BY <1>1, <1>8 DEF S
<1> QED
  BY <1>3, <1>9

\* The body of FlattenSeq's recursion.
JoinedOf(seqs, f, k) == IF k = 1 THEN seqs[k] ELSE f[k - 1] \o seqs[k]

LEMMA JoinedExists ==
  ASSUME NEW seqs, NEW N \in Nat
  PROVE  \E f : f = [k \in 1 .. N |-> JoinedOf(seqs, f, k)]
<1> DEFINE S == {m \in Nat : \E f : f = [k \in 1 .. m |-> JoinedOf(seqs, f, k)]}
<1>1. 0 \in S
  <2> DEFINE f == [k \in 1 .. 0 |-> <<>>]
  <2>1. f = [k \in 1 .. 0 |-> JoinedOf(seqs, f, k)]
    OBVIOUS
  <2> QED
    BY <2>1
<1>2. ASSUME NEW m \in S PROVE m + 1 \in S
  <2>1. PICK f : f = [k \in 1 .. m |-> JoinedOf(seqs, f, k)]
    OBVIOUS
  <2> DEFINE h == [k \in 1 .. m + 1 |-> IF k = m + 1 THEN JoinedOf(seqs, f, k) ELSE f[k]]
  <2>2. m \in Nat
    OBVIOUS
  <2>3. ASSUME NEW k \in 1 .. m + 1 PROVE h[k] = JoinedOf(seqs, h, k)
    <3>1. \A j \in 1 .. m : h[j] = f[j]
      BY <2>2
    <3>2. CASE k = m + 1
      <4>1. h[k] = JoinedOf(seqs, f, k)
        BY <3>2
      <4>2. k # 1 => k - 1 \in 1 .. m
        BY <2>2, <3>2
      <4> HIDE DEF h
      <4> QED
        BY <3>1, <4>1, <4>2 DEF JoinedOf
    <3>3. CASE k # m + 1
      <4>1. k \in 1 .. m /\ (k # 1 => k - 1 \in 1 .. m)
        BY <2>2, <3>3
      <4>2. h[k] = f[k] /\ f[k] = JoinedOf(seqs, f, k)
        BY <2>1, <3>1, <4>1
      <4> HIDE DEF h
      <4> QED
        BY <3>1, <4>1, <4>2 DEF JoinedOf
    <3> QED
      BY <3>2, <3>3
  <2>4. h = [k \in 1 .. m + 1 |-> JoinedOf(seqs, h, k)]
    <3>1. h = [k \in 1 .. m + 1 |-> h[k]]
      OBVIOUS
    <3> HIDE DEF h
    <3> QED
      BY <2>3, <3>1
  <2> HIDE DEF h
  <2>5. m + 1 \in Nat /\ \E g : g = [k \in 1 .. m + 1 |-> JoinedOf(seqs, g, k)]
    BY <2>2, <2>4
  <2> QED
    BY <2>5
<1>3. S \in SUBSET Nat
  OBVIOUS
<1> HIDE DEF S
<1>4. S = Nat
  BY <1>1, <1>2, <1>3, ByInduction
<1> QED
  BY <1>4 DEF S

LEMMA JoinedIsSeq ==
  ASSUME NEW T, NEW seqs \in Seq(Seq(T))
  PROVE  Concat!FlattenSeq(seqs) \in Seq(T)
<1>1. Len(seqs) \in Nat
  OBVIOUS
<1>2. CASE Len(seqs) = 0
  <2>1. seqs = <<>>
    BY <1>2, EmptySeq
  <2>2. Concat!FlattenSeq(seqs) = <<>>
    BY <1>2, <2>1 DEF Concat!FlattenSeq
  <2> QED
    BY <2>2, EmptySeq
<1>3. CASE Len(seqs) # 0
  <2> DEFINE flatten == CHOOSE f : f = [k \in 1 .. Len(seqs) |-> JoinedOf(seqs, f, k)]
  <2>1. flatten = [k \in 1 .. Len(seqs) |-> JoinedOf(seqs, flatten, k)]
    BY <1>1, JoinedExists
  <2>2. Concat!FlattenSeq(seqs) = flatten[Len(seqs)]
    BY <1>3 DEF Concat!FlattenSeq, JoinedOf
  <2> HIDE DEF flatten
  <2>3. \A k \in 1 .. Len(seqs) : flatten[k] = JoinedOf(seqs, flatten, k)
    BY <2>1
  <2> DEFINE S == {m \in Nat : m + 1 <= Len(seqs) => flatten[m + 1] \in Seq(T)}
  <2>4. 0 \in S
    <3>1. 0 + 1 = 1 /\ 1 \in 1 .. Len(seqs) /\ seqs[1] \in Seq(T)
      BY <1>1, <1>3
    <3> QED
      BY <2>3, <3>1 DEF JoinedOf
  <2>5. ASSUME NEW m \in S PROVE m + 1 \in S
    <3> SUFFICES ASSUME m + 1 + 1 <= Len(seqs) PROVE flatten[m + 1 + 1] \in Seq(T)
      OBVIOUS
    <3>1. /\ m + 1 + 1 \in 1 .. Len(seqs) /\ m + 1 + 1 # 1 /\ (m + 1 + 1) - 1 = m + 1
          /\ flatten[m + 1] \in Seq(T) /\ seqs[m + 1 + 1] \in Seq(T)
      BY <1>1
    <3>2. flatten[m + 1 + 1] = flatten[m + 1] \o seqs[m + 1 + 1]
      BY <2>3, <3>1 DEF JoinedOf
    <3> QED
      BY <3>1, <3>2, ConcatProperties
  <2>6. S \in SUBSET Nat
    OBVIOUS
  <2> HIDE DEF S
  <2>7. S = Nat
    BY <2>4, <2>5, <2>6, ByInduction
  <2>8. Len(seqs) - 1 \in S /\ (Len(seqs) - 1) + 1 = Len(seqs)
    BY <1>1, <1>3, <2>7
  <2>9. flatten[Len(seqs)] \in Seq(T)
    BY <1>1, <2>8 DEF S
  <2> QED
    BY <2>2, <2>9
<1> QED
  BY <1>2, <1>3

-----------------------------------------------------------------------------
\* A row of a table.
LEMMA RowIsRecord ==
  ASSUME NEW header \in Seq(STRING), NEW row \in Seq(STRING)
  PROVE  rowToRecord(header, row) \in RawRecord
<1> DEFINE given == {k \in DOMAIN header \cap DOMAIN row : header[k] # ""}
           Last(c) == CHOOSE k \in given : /\ header[k] = c
                                           /\ \A j \in given : header[j] = c => j <= k
           D == {header[k] : k \in given}
<1>1. rowToRecord(header, row) = [c \in D |-> row[Last(c)]]
  BY DEF rowToRecord
<1>2. Len(row) \in Nat /\ DOMAIN row = 1 .. Len(row)
  OBVIOUS
<1>3. given \subseteq DOMAIN header /\ given \subseteq DOMAIN row
  OBVIOUS
<1> HIDE DEF given
<1>4. D \subseteq STRING
  BY <1>3
<1>5. ASSUME NEW c \in D PROVE row[Last(c)] \in STRING
  <2> DEFINE U == {k \in given : header[k] = c}
  <2>1. U \in SUBSET (1 .. Len(row)) /\ U # {}
    BY <1>2, <1>3
  <2>2. PICK k \in U : \A j \in U : j <= k
    BY <1>2, <2>1, Greatest
  <2>3. Last(c) \in given
    BY <2>2
  <2> HIDE DEF Last
  <2> QED
    BY <1>3, <2>3
<1> HIDE DEF Last, D
<1>6. [c \in D |-> row[Last(c)]] \in [D -> STRING]
  BY <1>5
<1> QED
  BY <1>1, <1>4, <1>6 DEF RawRecord

LEMMA TableIsRecords ==
  ASSUME NEW table \in [name : SUBSET STRING, header : Seq(STRING), rows : Seq(Seq(STRING))]
  PROVE  TableRecords(table) \in Seq(RawRecord)
<1> DEFINE recs == [k \in DOMAIN table.rows |-> rowToRecord(table.header, table.rows[k])]
<1>1. /\ table.header \in Seq(STRING) /\ Len(table.rows) \in Nat
      /\ DOMAIN table.rows = 1 .. Len(table.rows)
      /\ \A k \in DOMAIN table.rows : table.rows[k] \in Seq(STRING)
  OBVIOUS
<1>2. \A k \in 1 .. Len(table.rows) : rowToRecord(table.header, table.rows[k]) \in RawRecord
  BY <1>1, RowIsRecord
<1> HIDE DEF RawRecord
<1>3. recs \in Seq(RawRecord)
  BY <1>1, <1>2, IsASeq
<1> HIDE DEF recs
<1>4. NonEmpty(recs) \in Seq(RawRecord)
  BY <1>3, NonEmptyKept
<1> QED
  BY <1>4 DEF TableRecords, recs

LEMMA LinesAreRecords ==
  ASSUME NEW lines \in Seq([type : {"flush", "malformed"}]
                           \cup [type : {"pair"}, key : STRING, value : STRING])
  PROVE  KeyValueRecords(lines) \in Seq(RawRecord)
<1> DEFINE n == Len(lines)
           ends == {0, n + 1} \cup {k \in 1 .. n : lines[k].type = "flush"}
           Pairs(e) == {k \in 1 .. n : lines[k].type = "pair" /\ k < e
                                         /\ ~ \E d \in ends : k < d /\ d < e}
           RecordOf(e) == [key \in {lines[k].key : k \in Pairs(e)} |->
                             lines[CHOOSE k \in Pairs(e) : /\ lines[k].key = key
                                     /\ \A j \in Pairs(e) : lines[j].key = key => j <= k].value]
           recs == [e \in 1 .. n + 1 |-> IF e \in ends THEN RecordOf(e) ELSE <<>>]
<1>1. n \in Nat /\ DOMAIN lines = 1 .. n
  OBVIOUS
<1>2. ASSUME NEW k \in 1 .. n, lines[k].type = "pair"
      PROVE  lines[k].key \in STRING /\ lines[k].value \in STRING
  <2>1. lines[k] \in [type : {"flush", "malformed"}]
                     \cup [type : {"pair"}, key : STRING, value : STRING]
    BY <1>1
  <2> QED
    BY <1>2, <2>1
<1>3. KeyValueRecords(lines) = NonEmpty(recs)
  BY DEF KeyValueRecords
<1>4. ASSUME NEW e PROVE RecordOf(e) \in RawRecord
  <2> DEFINE K == {lines[k].key : k \in Pairs(e)}
             Last(key) == CHOOSE k \in Pairs(e) : /\ lines[k].key = key
                            /\ \A j \in Pairs(e) : lines[j].key = key => j <= k
  <2>1. \A k \in Pairs(e) : k \in 1 .. n /\ lines[k].type = "pair"
    OBVIOUS
  <2> HIDE DEF Pairs
  <2>2. K \subseteq STRING
    BY <1>2, <2>1
  <2>3. ASSUME NEW key \in K PROVE lines[Last(key)].value \in STRING
    <3> DEFINE U == {k \in Pairs(e) : lines[k].key = key}
    <3>1. U \in SUBSET (1 .. n) /\ U # {}
      BY <2>1
    <3>2. PICK k \in U : \A j \in U : j <= k
      BY <1>1, <3>1, Greatest
    <3>3. Last(key) \in Pairs(e)
      BY <3>2
    <3> HIDE DEF Last
    <3> QED
      BY <1>2, <2>1, <3>3
  <2>4. RecordOf(e) = [key \in K |-> lines[Last(key)].value]
    OBVIOUS
  <2> HIDE DEF Last, K, RecordOf
  <2>5. [key \in K |-> lines[Last(key)].value] \in [K -> STRING]
    BY <2>3
  <2> QED
    BY <2>2, <2>4, <2>5 DEF RawRecord
<1> HIDE DEF RecordOf, Pairs, ends, n
<1> DEFINE T == RawRecord \cup {<<>>}
<1>5. recs \in Seq(T)
  <2>1. \A e \in 1 .. n + 1 : recs[e] \in T
    BY <1>4
  <2>2. recs \in [1 .. n + 1 -> T]
    BY <1>4
  <2>3. n + 1 \in Nat
    BY <1>1
  <2> QED
    BY <2>2, <2>3, IsASeq
<1>6. \A x \in T : DOMAIN x # {} => x \in RawRecord
  OBVIOUS
<1> HIDE DEF recs, T
<1> QED
  BY <1>3, <1>5, <1>6, NonEmptyKept

LEMMA NamedIsItems ==
  ASSUME NEW names \in SUBSET STRING, NEW recs \in Seq(RawRecord)
  PROVE  [k \in DOMAIN recs |-> [name |-> names, raw |-> recs[k]]] \in Seq(Item)
<1> HIDE DEF RawRecord
<1>1. Len(recs) \in Nat /\ DOMAIN recs = 1 .. Len(recs)
  OBVIOUS
<1>2. \A k \in 1 .. Len(recs) : [name |-> names, raw |-> recs[k]] \in Item
  BY <1>1 DEF Item
<1> HIDE DEF Item
<1>3. [k \in DOMAIN recs |-> [name |-> names, raw |-> recs[k]]] \in [1 .. Len(recs) -> Item]
  BY <1>1, <1>2
<1> QED
  BY <1>1, <1>3, IsASeq

\* The records of a file are a sequence of records.
LEMMA RecordsOfFile ==
  ASSUME NEW f \in File, f.format \in {"lines", "tables"}
  PROVE  RecordsOf(f) \in Seq(Item)
<1>1. CASE f.format = "lines"
  <2>1. KeyValueRecords(f.lines) \in Seq(RawRecord) /\ f.name \in SUBSET STRING
    BY <1>1, FileAssumption, LinesAreRecords
  <2>2. RecordsOf(f) = [k \in DOMAIN KeyValueRecords(f.lines) |->
                          [name |-> f.name, raw |-> KeyValueRecords(f.lines)[k]]]
    BY <1>1 DEF RecordsOf
  <2> HIDE DEF RawRecord, Item
  <2> QED
    BY <2>1, <2>2, NamedIsItems
<1>2. CASE f.format = "tables"
  <2> DEFINE Table == [name : SUBSET STRING, header : Seq(STRING), rows : Seq(Seq(STRING))]
             Of(k) == LET recs == TableRecords(f.tables[k])
                      IN [j \in DOMAIN recs |->
                            [name |-> f.name \cup f.tables[k].name, raw |-> recs[j]]]
  <2>1. f.tables \in Seq(Table) /\ f.name \subseteq STRING
    BY <1>2, FileAssumption
  <2>2. Len(f.tables) \in Nat /\ DOMAIN f.tables = 1 .. Len(f.tables)
    BY <2>1
  <2>3. ASSUME NEW k \in DOMAIN f.tables PROVE Of(k) \in Seq(Item)
    <3>1. f.tables[k] \in Table
      <4> HIDE DEF Table
      <4> QED
        BY <2>1, ElementOfList
    <3>2. TableRecords(f.tables[k]) \in Seq(RawRecord)
      BY <3>1, TableIsRecords
    <3>3. f.name \cup f.tables[k].name \in SUBSET STRING
      BY <2>1, <3>1
    <3> HIDE DEF RawRecord, Item
    <3> QED
      BY <3>2, <3>3, NamedIsItems
  <2>4. RecordsOf(f) = Concat!FlattenSeq([k \in DOMAIN f.tables |-> Of(k)])
    BY <1>2 DEF RecordsOf
  <2> HIDE DEF Of, Table
  <2>5. [k \in DOMAIN f.tables |-> Of(k)] \in Seq(Seq(Item))
    <3> HIDE DEF Item
    <3>1. [k \in DOMAIN f.tables |-> Of(k)] \in [1 .. Len(f.tables) -> Seq(Item)]
      BY <2>2, <2>3
    <3> QED
      BY <2>2, <3>1, IsASeq
  <2> QED
    BY <2>4, <2>5, JoinedIsSeq
<1> QED
  BY <1>1, <1>2

-----------------------------------------------------------------------------
(***************************************************************************)
(* From a raw record to an entity.                                         *)
(***************************************************************************)
LEMMA NormalIsRecord ==
  ASSUME NEW raw \in RawRecord, NEW rec \in normalizeRecord(raw)
  PROVE  /\ \A key \in DOMAIN rec : rec[key] \in STRING /\ rec[key] \in ValuesOf(raw, key)
         /\ \A key : key \in DOMAIN rec <=> ValuesOf(raw, key) # {}
<1>1. \A c \in DOMAIN raw : raw[c] \in STRING
  BY DEF RawRecord
<1>2. DOMAIN rec = {normalizeKey(c) : c \in DOMAIN raw}
  BY DEF normalizeRecord
<1>3. \A key \in DOMAIN rec : \E c \in DOMAIN raw : normalizeKey(c) = key /\ rec[key] = raw[c]
  BY <1>2 DEF normalizeRecord
<1>4. \A key \in DOMAIN rec : rec[key] \in STRING /\ rec[key] \in ValuesOf(raw, key)
  BY <1>1, <1>3 DEF ValuesOf
<1>5. \A key : key \in DOMAIN rec <=> ValuesOf(raw, key) # {}
  BY <1>2 DEF ValuesOf
<1> QED
  BY <1>4, <1>5

\* get returns the value of the first alternative that is there.
LEMMA GetFirst ==
  ASSUME NEW rec, NEW n \in Nat, NEW keys, DOMAIN keys = 1 .. n,
         NEW k \in 1 .. n, keys[k] \in DOMAIN rec,
         \A j \in 1 .. n : j < k => keys[j] \notin DOMAIN rec
  PROVE  get(rec, keys) = rec[keys[k]]
<1> DEFINE present == {j \in DOMAIN keys : keys[j] \in DOMAIN rec}
           first == CHOOSE j \in present : \A l \in present : j <= l
<1>1. k \in present /\ \A l \in present : k <= l
  OBVIOUS
<1>2. first \in present /\ \A l \in present : first <= l
  BY <1>1
<1>3. get(rec, keys) = rec[keys[first]]
  BY <1>1 DEF get
<1>4. present \subseteq 1 .. n
  OBVIOUS
<1> HIDE DEF first, present
<1>5. first = k
  <2>1. first \in 1 .. n
    BY <1>2, <1>4
  <2>2. first <= k /\ k <= first
    BY <1>1, <1>2
  <2> QED
    BY <2>1, <2>2
<1> QED
  BY <1>3, <1>5

LEMMA GetNothing ==
  ASSUME NEW rec, NEW keys, \A j \in DOMAIN keys : keys[j] \notin DOMAIN rec
  PROVE  get(rec, keys) = ""
<1>1. {j \in DOMAIN keys : keys[j] \in DOMAIN rec} = {}
  OBVIOUS
<1> QED
  BY <1>1, Zenon DEF get

LEMMA GetText ==
  ASSUME NEW rec, \A key \in DOMAIN rec : rec[key] \in STRING,
         NEW n \in Nat, NEW keys, DOMAIN keys = 1 .. n
  PROVE  get(rec, keys) \in Text
<1> DEFINE present == {j \in DOMAIN keys : keys[j] \in DOMAIN rec}
<1>1. CASE present = {}
  <2>1. get(rec, keys) = ""
    BY <1>1, GetNothing
  <2> QED
    BY <2>1, Zenon DEF Text
<1>2. CASE present # {}
  <2>1. present \in SUBSET Nat
    OBVIOUS
  <2>2. PICK k \in present : \A j \in present : k <= j
    BY <1>2, <2>1, Least
  <2>3. get(rec, keys) = rec[keys[k]]
    <3>1. k \in 1 .. n /\ keys[k] \in DOMAIN rec
      OBVIOUS
    <3>2. \A j \in 1 .. n : j < k => keys[j] \notin DOMAIN rec
      BY <2>2
    <3> QED
      BY <3>1, <3>2, GetFirst
  <2>4. rec[keys[k]] \in STRING
    OBVIOUS
  <2> QED
    BY <2>3, <2>4 DEF Text
<1> QED
  BY <1>1, <1>2

LEMMA NumberIsInt ==
  ASSUME NEW rec, NEW keys, ~ IsMalformed(rec, keys)
  PROVE  parseOptionalInt32(rec, keys) \in Int
<1>1. get(rec, keys) \in DOMAIN Number \/ get(rec, keys) = ""
  BY Zenon DEF IsMalformed
<1>2. CASE get(rec, keys) = ""
  <2>1. parseOptionalInt32(rec, keys) = 0
    BY <1>2, Zenon DEF parseOptionalInt32
  <2> QED
    BY <2>1
<1>3. CASE get(rec, keys) # ""
  <2>1. parseOptionalInt32(rec, keys) = Number[get(rec, keys)]
    BY <1>3, Zenon DEF parseOptionalInt32
  <2> QED
    BY <1>1, <1>3, <2>1, TextAssumption
<1> QED
  BY <1>2, <1>3

LEMMA KindIsGiven ==
  ASSUME NEW kind \in Text, NEW desc, NEW type
  PROVE  deriveNodeKind(kind, desc, type) \in Text \ {""}
<1>1. CASE kind # ""
  <2>1. deriveNodeKind(kind, desc, type) = Lookup(Lower, kind)
    BY <1>1, Zenon DEF deriveNodeKind
  <2>2. kind \in DOMAIN Lower => Lower[kind] \in STRING /\ Lower[kind] # ""
    BY TextAssumption
  <2> QED
    BY <1>1, <2>1, <2>2 DEF Lookup, Text
<1>2. CASE kind = ""
  <2>1. deriveNodeKind(kind, desc, type) \in {"switch", "host", "unknown"}
    BY <1>2 DEF deriveNodeKind
  <2> QED
    BY <2>1 DEF Text
<1> QED
  BY <1>1, <1>2

LEMMA EntityOfRecord ==
  ASSUME NEW raw \in RawRecord, NEW rec \in normalizeRecord(raw)
  PROVE  /\ ToNode(rec) \in Node
         /\ ToInfo(rec) \in Info
         /\ (\A c \in ColumnsOf("port") : ~ IsMalformed(rec, c)) => ToPort(rec) \in Port
<1>1. \A key \in DOMAIN rec : rec[key] \in STRING
  BY NormalIsRecord
<1>2. /\ get(rec, <<"nodeguid", "nodeid", "node">>) \in Text
      /\ get(rec, <<"portguid", "portid">>) \in Text
      /\ get(rec, <<"serialnumber", "serial", "sn">>) \in Text
      /\ get(rec, <<"nodedesc", "description", "desc", "name">>) \in Text
      /\ get(rec, <<"nodeguid", "nodeid", "node", "guid">>) \in Text
      /\ get(rec, <<"nodekind", "kind">>) \in Text
  <2>1. /\ DOMAIN <<"nodeguid", "nodeid", "node">> = 1 .. 3
        /\ DOMAIN <<"portguid", "portid">> = 1 .. 2
        /\ DOMAIN <<"serialnumber", "serial", "sn">> = 1 .. 3
        /\ DOMAIN <<"nodedesc", "description", "desc", "name">> = 1 .. 4
        /\ DOMAIN <<"nodeguid", "nodeid", "node", "guid">> = 1 .. 4
        /\ DOMAIN <<"nodekind", "kind">> = 1 .. 2
    OBVIOUS
  <2>2. 2 \in Nat /\ 3 \in Nat /\ 4 \in Nat
    OBVIOUS
  <2> QED
    BY <1>1, <2>1, <2>2, GetText
<1>3. ToNode(rec) \in Node
  BY <1>2, KindIsGiven DEF ToNode, Node
<1>4. ToInfo(rec) \in Info
  BY <1>2 DEF ToInfo, Info
<1>5. ASSUME \A c \in ColumnsOf("port") : ~ IsMalformed(rec, c)
      PROVE  ToPort(rec) \in Port
  <2>1. PortNumKeys \in ColumnsOf("port") /\ PortStateKeys \in ColumnsOf("port")
    BY DEF ColumnsOf, PortColumns
  <2>2. /\ parseOptionalInt32(rec, PortNumKeys) \in Int
        /\ parseOptionalInt32(rec, PortStateKeys) \in Int
    BY <1>5, <2>1, NumberIsInt
  <2> QED
    BY <1>2, <2>2 DEF ToPort, Port
<1> QED
  BY <1>3, <1>4, <1>5

-----------------------------------------------------------------------------
(***************************************************************************)
(* The whole of Engine.Parse.                                              *)
(***************************************************************************)
\* The source has not been read, or not all of its records are converted.
Busy == reading # "ok" \/ pending # <<>> \/ file <= Len(files)

\* What became of a record is in the input of the merge.
Converted(r) ==
  \E rec \in normalizeRecord(r.raw) :
    /\ \A c \in ColumnsOf(classifyRecord(r.name, rec)) : ~ IsMalformed(rec, c)
    /\ classifyRecord(r.name, rec) = "port" => ToPort(rec) \in ItemsOf(input.ports)
    /\ classifyRecord(r.name, rec) = "info" => ToInfo(rec) \in ItemsOf(input.infos)
    /\ classifyRecord(r.name, rec) = "node" => ToNode(rec) \in ItemsOf(input.nodes)

HasRecords(f) == f.format \in {"lines", "tables"}

\* The records of the files before `file` are converted, or the next to be.
FilesInTurn ==
  \A k \in DOMAIN files : k < file /\ HasRecords(Content(k)) =>
    \A r \in ItemsOf(RecordsOf(Content(k))) : r \in ItemsOf(pending) \/ Converted(r)

\* The merge begins when all is converted, and ends before Parse returns it.
InStages ==
  /\ pending \in Seq(Item)
  /\ file \in Nat \ {0}
  /\ reading # "ok" => file = 1 /\ pending = <<>>
  /\ Busy => Start
  /\ result = "ok" => loop = "end" /\ ~ Busy

\* What Parse calls malformed, and the records it is still to convert, is in the
\* files.
RefusedForReason ==
  /\ ItemsOf(pending) \subseteq AllRecords
  /\ result = "ErrParse" =>
       /\ reading = "ok"
       /\ \/ \E k \in DOMAIN files : Unreadable(Content(k))
          \/ loop = "end" /\ out.nodes = <<>>
          \/ \E r \in AllRecords : \E column \in ReadOf(r) :
               TextsOf(r.raw, column) \ NumberTexts # {}

EngineInv == SourceInv /\ LastInv /\ InStages /\ FilesInTurn

LEMMA StartsSound == Start' => LastInv'
BY LastInvStart, PTL

LEMMA ContentIsFile ==
  ASSUME SourceInv, NEW k \in DOMAIN files
  PROVE  Content(k) \in File
<1>1. /\ files[k] \in FilesUpTo(next - 1) /\ next \in 1 .. Len(source.entries) + 1
      /\ source.entries \in Seq(SourceEntry)
  BY DEF SourceInv, ReadInOrder, SourceOK
<1>2. files[k] \in DOMAIN source.entries
  BY <1>1 DEF FilesUpTo
<1>3. source.entries[files[k]] \in SourceEntry
  BY <1>1, <1>2, ElementOfList
<1> QED
  BY <1>3 DEF Content, SourceEntry

LEMMA EngineInitSound == EngineInit => EngineInv
<1> SUFFICES ASSUME EngineInit PROVE EngineInv
  OBVIOUS
<1>1. Start
  BY EmptySeq DEF EngineInit, Start, Parsed
<1>2. SourceInv /\ LastInv
  BY <1>1, SourceInitSound, LastInvStart DEF EngineInit
<1>3. pending = <<>> /\ file = 1 /\ reading = "resolve" /\ files = <<>>
  BY DEF EngineInit, SourceInit
<1>4. InStages
  <2>1. result = "ok" => FALSE
    BY Zenon DEF EngineInit
  <2>2. pending \in Seq(Item)
    BY <1>3, EmptySeq
  <2> QED
    BY <1>1, <1>3, <2>1, <2>2 DEF InStages
<1>5. FilesInTurn
  BY <1>3 DEF FilesInTurn
<1> QED
  BY <1>2, <1>4, <1>5 DEF EngineInv

LEMMA ConvertedStays ==
  ASSUME \A l \in Loops : ItemsOf(input[l]) \subseteq ItemsOf(input'[l]),
         NEW r, Converted(r)
  PROVE  Converted(r)'
BY DEF Converted, Loops

LEMMA ReadSourceSound ==
  ASSUME EngineInv, ReadSource
  PROVE  EngineInv'
<1>1. SourceNext /\ UNCHANGED <<vars, parseVars>>
  BY DEF ReadSource
<1>2. SourceInv'
  BY <1>1, SourceStepSound DEF EngineInv
<1>3. LastInv'
  BY <1>1, LastInvNext DEF EngineInv
<1>4. reading # "ok"
  BY <1>1 DEF SourceNext, ResolvePath, Open, SkipDirectory, RefuseFile, ReadFile, CancelReading,
              EndOfSource, AtEntry
<1>5. /\ file = 1 /\ pending = <<>> /\ Start /\ result # "ok"
      /\ UNCHANGED <<input, loop, i, out, file, pending, result>>
  BY <1>1, <1>4 DEF EngineInv, InStages, Busy, vars, parseVars
<1>6. InStages'
  BY <1>5 DEF EngineInv, InStages, Start
<1>7. FilesInTurn'
  <2>1. \A k \in DOMAIN files' : ~ (k < 1)
    BY <1>2 DEF SourceInv, SourceTypeOK
  <2> QED
    BY <1>5, <2>1 DEF FilesInTurn
<1> QED
  BY <1>2, <1>3, <1>6, <1>7 DEF EngineInv

\* The end changes nothing but the result.
LEMMA FinishSound ==
  ASSUME EngineInv, NEW r, Finish(r), r = "ok" => loop = "end" /\ ~ Busy
  PROVE  EngineInv'
<1>1. UNCHANGED <<sourceVars, vars, file, pending>> /\ result' = r
  BY DEF Finish
<1>2. SourceInv' /\ LastInv'
  BY <1>1, SourceStepSound, LastInvNext DEF EngineInv
<1>3. UNCHANGED <<reading, source, files, input, loop, i, out>>
  BY <1>1 DEF sourceVars, vars
<1>4. InStages'
  BY <1>1, <1>3 DEF EngineInv, InStages, Busy, Start
<1>5. FilesInTurn'
  BY <1>1, <1>3 DEF EngineInv, FilesInTurn, Content, Converted
<1> QED
  BY <1>2, <1>4, <1>5 DEF EngineInv

LEMMA ParseFileSound ==
  ASSUME EngineInv, ParseFile
  PROVE  EngineInv'
<1>1. /\ reading = "ok" /\ pending = <<>> /\ file <= Len(files) /\ file \in Nat \ {0}
      /\ file' = file + 1 /\ UNCHANGED <<sourceVars, vars, result>>
      /\ ~ Unreadable(Content(file))
      /\ pending' = IF Content(file).format = "blank" THEN <<>> ELSE RecordsOf(Content(file))
  BY DEF ParseFile, AtFile, Parsing, EngineInv, InStages
<1>2. UNCHANGED <<reading, source, files, input, loop, i, out, result>>
  BY <1>1 DEF sourceVars, vars
<1>3. SourceInv' /\ LastInv'
  BY <1>1, SourceStepSound, LastInvNext DEF EngineInv
<1>4. file \in DOMAIN files
  BY <1>1 DEF EngineInv, SourceInv, SourceTypeOK
<1>5. Content(file) \in File
  BY <1>4, ContentIsFile DEF EngineInv
<1>6. /\ HasRecords(Content(file)) => pending' = RecordsOf(Content(file))
      /\ HasRecords(Content(file)) \/ pending' = <<>>
  BY <1>1, <1>5, FileAssumption DEF Unreadable, HasRecords
<1>7. pending' \in Seq(Item)
  BY <1>5, <1>6, RecordsOfFile, EmptySeq DEF HasRecords
<1>8. Start /\ result # "ok"
  BY <1>1 DEF EngineInv, InStages, Busy
<1>9. InStages'
  BY <1>1, <1>2, <1>7, <1>8 DEF InStages, Start
<1>10. FilesInTurn'
  <2> SUFFICES ASSUME NEW k \in DOMAIN files, k < file + 1, HasRecords(Content(k)),
                      NEW r \in ItemsOf(RecordsOf(Content(k)))
               PROVE  r \in ItemsOf(pending') \/ Converted(r)'
    BY <1>1, <1>2 DEF FilesInTurn, Content
  <2>1. CASE k < file
    <3>1. r \notin ItemsOf(pending)
      BY <1>1 DEF ItemsOf
    <3>2. Converted(r)
      BY <2>1, <3>1 DEF EngineInv, FilesInTurn
    <3> QED
      BY <1>2, <3>2 DEF Converted
  <2>2. CASE k = file
    BY <1>6, <2>2
  <2>3. k \in Nat
    BY DEF EngineInv, SourceInv, SourceTypeOK
  <2> QED
    BY <1>1, <2>1, <2>2, <2>3
<1> QED
  BY <1>3, <1>9, <1>10 DEF EngineInv

\* One more record of a class.
LEMMA AddedToList ==
  ASSUME NEW T, NEW s \in Seq(T), NEW x \in T
  PROVE  /\ Append(s, x) \in Seq(T)
         /\ ItemsOf(s) \subseteq ItemsOf(Append(s, x)) /\ x \in ItemsOf(Append(s, x))
<1>1. Append(s, x) \in Seq(T)
  BY AppendProperties
<1>2. /\ Len(s) \in Nat /\ DOMAIN s = 1 .. Len(s) /\ DOMAIN Append(s, x) = 1 .. Len(s) + 1
      /\ \A k \in 1 .. Len(s) : Append(s, x)[k] = s[k]
      /\ Append(s, x)[Len(s) + 1] = x
  OBVIOUS
<1> QED
  BY <1>1, <1>2 DEF ItemsOf

LEMMA ParseRecordSound ==
  ASSUME EngineInv, ParseRecord
  PROVE  EngineInv'
<1>1. /\ reading = "ok" /\ pending # <<>> /\ pending' = Tail(pending)
      /\ UNCHANGED <<sourceVars, loop, i, out, file, result>>
  BY DEF ParseRecord, Parsing
<1>2. UNCHANGED <<reading, source, files>>
  BY <1>1 DEF sourceVars
<1>3. PICK rec \in normalizeRecord(pending[1].raw) :
        LET class == classifyRecord(pending[1].name, rec)
        IN /\ \A c \in ColumnsOf(class) : ~ IsMalformed(rec, c)
           /\ input' = CASE class = "port" -> [input EXCEPT !.ports = Append(@, ToPort(rec))]
                         [] class = "info" -> [input EXCEPT !.infos = Append(@, ToInfo(rec))]
                         [] class = "node" -> [input EXCEPT !.nodes = Append(@, ToNode(rec))]
                         [] OTHER -> input
  BY DEF ParseRecord
<1> DEFINE class == classifyRecord(pending[1].name, rec)
<1>4. pending \in Seq(Item) /\ Start /\ result # "ok" /\ file \in Nat \ {0}
  BY <1>1 DEF EngineInv, InStages, Busy
<1>5. /\ pending[1] \in Item /\ Tail(pending) \in Seq(Item)
      /\ \A r \in ItemsOf(pending) : r = pending[1] \/ r \in ItemsOf(Tail(pending))
  <2> HIDE DEF Item
  <2>1. /\ Len(pending) \in Nat \ {0} /\ DOMAIN pending = 1 .. Len(pending)
        /\ Tail(pending) \in Seq(Item) /\ DOMAIN Tail(pending) = 1 .. Len(pending) - 1
        /\ \A k \in 1 .. Len(pending) - 1 : Tail(pending)[k] = pending[k + 1]
    BY <1>1, <1>4, EmptySeq
  <2>2. ASSUME NEW k \in 1 .. Len(pending), k # 1
        PROVE  k - 1 \in DOMAIN Tail(pending) /\ Tail(pending)[k - 1] = pending[k]
    BY <2>1, <2>2
  <2>3. pending[1] \in Item
    BY <1>4, <2>1, ElementOfList
  <2>4. ASSUME NEW r \in ItemsOf(pending), r # pending[1] PROVE r \in ItemsOf(Tail(pending))
    <3>1. PICK k \in 1 .. Len(pending) : r = pending[k]
      BY <2>1 DEF ItemsOf
    <3>2. k # 1
      BY <2>4, <3>1
    <3>3. k - 1 \in DOMAIN Tail(pending) /\ Tail(pending)[k - 1] = r
      BY <2>2, <3>1, <3>2
    <3> QED
      BY <3>3 DEF ItemsOf
  <2> QED
    BY <2>1, <2>3, <2>4
<1>6. /\ ToNode(rec) \in Node /\ ToInfo(rec) \in Info
      /\ class = "port" => ToPort(rec) \in Port
  <2>1. pending[1].raw \in RawRecord
    BY <1>5 DEF Item
  <2> HIDE DEF RawRecord
  <2> QED
    BY <1>3, <2>1, EntityOfRecord
<1>7. input \in Parsed
  BY <1>4 DEF Start
<1>8. /\ input' \in Parsed
      /\ \A l \in Loops : ItemsOf(input[l]) \subseteq ItemsOf(input'[l])
      /\ class = "port" => ToPort(rec) \in ItemsOf(input'.ports)
      /\ class = "info" => ToInfo(rec) \in ItemsOf(input'.infos)
      /\ class = "node" => ToNode(rec) \in ItemsOf(input'.nodes)
  <2>1. input.nodes \in Seq(Node) /\ input.infos \in Seq(Info) /\ input.ports \in Seq(Port)
    BY <1>7 DEF Parsed
  <2> HIDE DEF class
  <2>2. CASE class = "port"
    <3>1. input' = [input EXCEPT !.ports = Append(@, ToPort(rec))]
      BY <1>3, <2>2 DEF class
    <3>2. /\ input' = [nodes |-> input.nodes, infos |-> input.infos,
                       ports |-> Append(input.ports, ToPort(rec))]
      BY <1>7, <3>1 DEF Parsed
    <3>3. /\ Append(input.ports, ToPort(rec)) \in Seq(Port)
          /\ ItemsOf(input.ports) \subseteq ItemsOf(Append(input.ports, ToPort(rec)))
          /\ ToPort(rec) \in ItemsOf(Append(input.ports, ToPort(rec)))
      BY <1>6, <2>1, <2>2, AddedToList
    <3> QED
      BY <2>1, <2>2, <3>2, <3>3 DEF Parsed, Loops
  <2>3. CASE class = "info"
    <3>1. input' = [input EXCEPT !.infos = Append(@, ToInfo(rec))]
      BY <1>3, <2>3 DEF class
    <3>2. /\ input' = [nodes |-> input.nodes, infos |-> Append(input.infos, ToInfo(rec)),
                       ports |-> input.ports]
      BY <1>7, <3>1 DEF Parsed
    <3>3. /\ Append(input.infos, ToInfo(rec)) \in Seq(Info)
          /\ ItemsOf(input.infos) \subseteq ItemsOf(Append(input.infos, ToInfo(rec)))
          /\ ToInfo(rec) \in ItemsOf(Append(input.infos, ToInfo(rec)))
      BY <1>6, <2>1, AddedToList
    <3> QED
      BY <2>1, <2>3, <3>2, <3>3 DEF Parsed, Loops
  <2>4. CASE class = "node"
    <3>1. input' = [input EXCEPT !.nodes = Append(@, ToNode(rec))]
      BY <1>3, <2>4 DEF class
    <3>2. /\ input' = [nodes |-> Append(input.nodes, ToNode(rec)), infos |-> input.infos,
                       ports |-> input.ports]
      BY <1>7, <3>1 DEF Parsed
    <3>3. /\ Append(input.nodes, ToNode(rec)) \in Seq(Node)
          /\ ItemsOf(input.nodes) \subseteq ItemsOf(Append(input.nodes, ToNode(rec)))
          /\ ToNode(rec) \in ItemsOf(Append(input.nodes, ToNode(rec)))
      BY <1>6, <2>1, AddedToList
    <3> QED
      BY <2>1, <2>4, <3>2, <3>3 DEF Parsed, Loops
  <2>5. CASE class \notin {"port", "info", "node"}
    <3>1. input' = input
      BY <1>3, <2>5 DEF class
    <3> QED
      BY <1>7, <2>5, <3>1
  <2> QED
    BY <2>2, <2>3, <2>4, <2>5
<1>9. Start'
  BY <1>1, <1>4, <1>8 DEF Start
<1>10. SourceInv' /\ LastInv'
  BY <1>1, <1>9, SourceStepSound, StartsSound DEF EngineInv
<1>11. InStages'
  BY <1>1, <1>2, <1>4, <1>5, <1>9 DEF InStages
<1>12. PICK x : x = pending[1]
  OBVIOUS
<1>13. Converted(x)'
  BY <1>3, <1>8, <1>12 DEF Converted
<1>14. FilesInTurn'
  <2> SUFFICES ASSUME NEW k \in DOMAIN files, k < file, HasRecords(Content(k)),
                      NEW r \in ItemsOf(RecordsOf(Content(k)))
               PROVE  r \in ItemsOf(pending') \/ Converted(r)'
    BY <1>1, <1>2 DEF FilesInTurn, Content
  <2>1. CASE Converted(r)
    BY <1>8, <2>1, ConvertedStays
  <2>2. CASE r \in ItemsOf(pending)
    BY <1>1, <1>5, <1>12, <1>13, <2>2
  <2> QED
    BY <2>1, <2>2 DEF EngineInv, FilesInTurn
<1> QED
  BY <1>10, <1>11, <1>14 DEF EngineInv

LEMMA NotBusy ==
  ASSUME EngineInv, AllParsed
  PROVE  ~ Busy
<1>1. files \in Seq(Nat) /\ file \in Nat
  BY DEF EngineInv, InStages, SourceInv, SourceTypeOK
<1>2. Len(files) \in Nat
  BY <1>1
<1>3. reading = "ok" /\ pending = <<>> /\ file > Len(files)
  BY DEF AllParsed, Parsing
<1> QED
  BY <1>1, <1>2, <1>3 DEF Busy

LEMMA MergeStepSound ==
  ASSUME EngineInv, MergeStep
  PROVE  EngineInv'
<1>1. ~ Busy /\ loop # "end" /\ Next /\ UNCHANGED <<sourceVars, parseVars>>
  BY NotBusy DEF MergeStep
<1>2. UNCHANGED <<reading, source, files, file, pending, result>>
  BY <1>1 DEF sourceVars, parseVars
<1>3. input' = input
  BY <1>1 DEF Next, SkipRecord, FinalizeNode, FinalizeInfo, FinalizePort, NextLoop, Returned,
              Iterate, vars
<1>4. SourceInv' /\ LastInv'
  BY <1>1, SourceStepSound, LastInvNext DEF EngineInv
<1>5. InStages'
  BY <1>1, <1>2 DEF EngineInv, InStages, Busy
<1>6. FilesInTurn'
  BY <1>2, <1>3 DEF EngineInv, FilesInTurn, Content, Converted
<1> QED
  BY <1>4, <1>5, <1>6 DEF EngineInv

LEMMA EngineStepSound ==
  ASSUME EngineInv, [EngineNext]_engineVars
  PROVE  EngineInv'
<1>1. CASE UNCHANGED engineVars
  <2>1. SourceInv' /\ LastInv'
    BY <1>1, SourceStepSound, LastInvNext DEF EngineInv, engineVars
  <2>2. UNCHANGED <<reading, source, files, file, pending, result, input, loop, i, out>>
    BY <1>1 DEF engineVars, sourceVars, parseVars, vars
  <2> QED
    BY <2>1, <2>2 DEF EngineInv, InStages, Busy, Start, FilesInTurn, Content, Converted
<1>2. CASE ReadSource
  BY <1>2, ReadSourceSound
<1>3. CASE ReadFailed
  BY <1>3, FinishSound DEF ReadFailed
<1>4. CASE ParseFile
  BY <1>4, ParseFileSound
<1>5. CASE RejectFile \/ CancelParsing \/ RejectRecord
  <2>1. Finish("ErrParse") \/ Finish("canceled")
    BY <1>5 DEF RejectFile, CancelParsing, RejectRecord
  <2> QED
    BY <2>1, FinishSound
<1>6. CASE ParseRecord
  BY <1>6, ParseRecordSound
<1>7. CASE MergeStep
  BY <1>7, MergeStepSound
<1>8. CASE ReturnParsed
  <2>1. loop = "end" /\ ~ Busy
    BY <1>8, NotBusy DEF ReturnParsed
  <2> QED
    BY <1>8, <2>1, FinishSound DEF ReturnParsed
<1>9. CASE Answered
  BY <1>1, <1>9 DEF Answered
<1> QED
  BY <1>1, <1>2, <1>3, <1>4, <1>5, <1>6, <1>7, <1>8, <1>9 DEF EngineNext

LEMMA EngineInvariant == EngineSpec => []EngineInv
BY EngineInitSound, EngineStepSound, PTL DEF EngineSpec

-----------------------------------------------------------------------------
LEMMA RecordIsRaw ==
  ASSUME EngineInv, NEW r \in AllRecords
  PROVE  r.raw \in RawRecord
<1>1. PICK k \in DOMAIN files : HasRecords(Content(k)) /\ r \in ItemsOf(RecordsOf(Content(k)))
  BY DEF AllRecords, HasRecords
<1>2. RecordsOf(Content(k)) \in Seq(Item)
  BY <1>1, ContentIsFile, RecordsOfFile DEF EngineInv, HasRecords
<1>3. PICK j \in DOMAIN RecordsOf(Content(k)) : r = RecordsOf(Content(k))[j]
  BY <1>1, Zenon DEF ItemsOf
<1>4. r \in Item
  <2> HIDE DEF Item
  <2> QED
    BY <1>2, <1>3, ElementOfList
<1> QED
  BY <1>4 DEF Item

LEMMA AllConverted ==
  ASSUME EngineInv, result = "ok", NEW r \in AllRecords
  PROVE  r.raw \in RawRecord /\ Converted(r)
<1>1. PICK k \in DOMAIN files : HasRecords(Content(k)) /\ r \in ItemsOf(RecordsOf(Content(k)))
  BY DEF AllRecords, HasRecords
<1>2. pending = <<>> /\ Len(files) < file /\ files \in Seq(Nat) /\ file \in Nat
  BY DEF EngineInv, InStages, Busy, SourceInv, SourceTypeOK
<1>3. k < file /\ ItemsOf(pending) = {}
  BY <1>2 DEF ItemsOf
<1>4. Converted(r)
  BY <1>1, <1>3 DEF EngineInv, FilesInTurn
<1> QED
  BY <1>4, RecordIsRaw

LEMMA FirstOfTuple ==
  ASSUME NEW rec, NEW n \in Nat, NEW keys, DOMAIN keys = 1 .. n, 1 \in 1 .. n,
         keys[1] \in DOMAIN rec
  PROVE  get(rec, keys) = rec[keys[1]]
BY GetFirst

LEMMA SecondOfTuple ==
  ASSUME NEW rec, NEW n \in Nat, NEW keys, DOMAIN keys = 1 .. n, 2 \in 1 .. n,
         keys[1] \notin DOMAIN rec, keys[2] \in DOMAIN rec
  PROVE  get(rec, keys) = rec[keys[2]]
<1>1. \A j \in 1 .. n : j < 2 => keys[j] \notin DOMAIN rec
  <2>1. \A j \in 1 .. n : j < 2 => j = 1
    OBVIOUS
  <2> QED
    BY <2>1
<1> QED
  BY <1>1, GetFirst

\* A record that says which node it is about has that GUID in its entity.
LEMMA NamedByGUID ==
  ASSUME NEW rec,
         "nodeguid" \in DOMAIN rec \/ "nodeid" \in DOMAIN rec
  PROVE  LET g == IF "nodeguid" \in DOMAIN rec THEN rec["nodeguid"] ELSE rec["nodeid"]
         IN ToNode(rec).guid = g /\ ToInfo(rec).guid = g /\ ToPort(rec).guid = g
<1> DEFINE three == <<"nodeguid", "nodeid", "node">>
           four == <<"nodeguid", "nodeid", "node", "guid">>
<1>1. /\ DOMAIN three = 1 .. 3 /\ three[1] = "nodeguid" /\ three[2] = "nodeid"
      /\ DOMAIN four = 1 .. 4 /\ four[1] = "nodeguid" /\ four[2] = "nodeid"
      /\ 3 \in Nat /\ 4 \in Nat /\ 1 \in 1 .. 3 /\ 2 \in 1 .. 3 /\ 1 \in 1 .. 4 /\ 2 \in 1 .. 4
  OBVIOUS
<1>2. /\ ToNode(rec).guid = get(rec, four)
      /\ ToInfo(rec).guid = get(rec, three) /\ ToPort(rec).guid = get(rec, three)
  BY DEF ToNode, ToInfo, ToPort
<1> HIDE DEF three, four
<1>3. CASE "nodeguid" \in DOMAIN rec
  <2>1. get(rec, three) = rec[three[1]]
    BY <1>1, <1>3, FirstOfTuple
  <2>2. get(rec, four) = rec[four[1]]
    BY <1>1, <1>3, FirstOfTuple
  <2> QED
    BY <1>1, <1>2, <1>3, <2>1, <2>2
<1>4. CASE "nodeguid" \notin DOMAIN rec
  <2>1. /\ three[1] \notin DOMAIN rec /\ three[2] \in DOMAIN rec
        /\ four[1] \notin DOMAIN rec /\ four[2] \in DOMAIN rec
    BY <1>1, <1>4
  <2>2. get(rec, three) = rec[three[2]]
    BY <1>1, <2>1, SecondOfTuple
  <2>3. get(rec, four) = rec[four[2]]
    BY <1>1, <2>1, SecondOfTuple
  <2> QED
    BY <1>1, <1>2, <1>4, <2>2, <2>3
<1> QED
  BY <1>3, <1>4

LEMMA ClassOfNamed ==
  ASSUME NEW name, NEW rec, "nodeguid" \in DOMAIN rec \/ "nodeid" \in DOMAIN rec
  PROVE  classifyRecord(name, rec) \in {"port", "info", "node"}
<1>1. hasAny(rec, {"nodeguid", "nodeid", "guid"})
  BY DEF hasAny
<1> QED
  BY <1>1 DEF classifyRecord

LEMMA GUIDsSurviveMerge == EngineInv => GUIDsSurvive
<1> SUFFICES ASSUME EngineInv, result = "ok", NEW r \in AllRecords
             PROVE  LET named == IF ValuesOf(r.raw, "nodeguid") # {}
                                   THEN ValuesOf(r.raw, "nodeguid")
                                   ELSE ValuesOf(r.raw, "nodeid")
                    IN named # {} /\ "" \notin named => named \cap GUIDs(out.nodes) # {}
  BY Zenon DEF GUIDsSurvive
<1> DEFINE named == IF ValuesOf(r.raw, "nodeguid") # {} THEN ValuesOf(r.raw, "nodeguid")
                    ELSE ValuesOf(r.raw, "nodeid")
<1> SUFFICES ASSUME named # {}, "" \notin named PROVE named \cap GUIDs(out.nodes) # {}
  OBVIOUS
<1>1. r.raw \in RawRecord /\ Converted(r)
  BY AllConverted
<1>2. PICK rec \in normalizeRecord(r.raw) :
        /\ classifyRecord(r.name, rec) = "port" => ToPort(rec) \in ItemsOf(input.ports)
        /\ classifyRecord(r.name, rec) = "info" => ToInfo(rec) \in ItemsOf(input.infos)
        /\ classifyRecord(r.name, rec) = "node" => ToNode(rec) \in ItemsOf(input.nodes)
  BY <1>1 DEF Converted
<1>3. /\ \A key \in DOMAIN rec : rec[key] \in ValuesOf(r.raw, key)
      /\ \A key : key \in DOMAIN rec <=> ValuesOf(r.raw, key) # {}
  BY <1>1, NormalIsRecord
<1> DEFINE g == IF "nodeguid" \in DOMAIN rec THEN rec["nodeguid"] ELSE rec["nodeid"]
<1>4. ("nodeguid" \in DOMAIN rec \/ "nodeid" \in DOMAIN rec) /\ g \in named
  BY <1>3
<1>5. ToNode(rec).guid = g /\ ToInfo(rec).guid = g /\ ToPort(rec).guid = g
  BY <1>4, NamedByGUID
<1>6. classifyRecord(r.name, rec) \in {"port", "info", "node"}
  BY <1>4, ClassOfNamed
<1> HIDE DEF named, g
<1>7. \E l \in Loops : \E x \in ItemsOf(input[l]) : x.guid = g
  BY <1>2, <1>5, <1>6 DEF Loops
<1>8. g # ""
  BY <1>4, Zenon
<1>9. loop = "end" /\ NothingLost
  BY FinalInvImplies DEF EngineInv, InStages, LastInv
<1>10. g \in GUIDs(out.nodes)
  <2>1. PICK l \in Loops : \E x \in ItemsOf(input[l]) : x.guid = g
    BY <1>7
  <2>2. PICK x \in ItemsOf(input[l]) : x.guid = g
    BY <2>1
  <2> DEFINE Named(seq) == {y \in ItemsOf(seq) : y.guid # ""}
  <2>3. x \in Named(input[l])
    BY <1>8, <2>2, Zenon
  <2>4. GUIDs(out.nodes) = {y.guid : y \in UNION {Named(input[m]) : m \in Loops}}
    BY <1>9 DEF NothingLost
  <2> HIDE DEF Named
  <2> QED
    BY <2>2, <2>3, <2>4
<1> QED
  BY <1>4, <1>10

-----------------------------------------------------------------------------
(* The numbers.                                                            *)

LEMMA ColumnsAreTuples ==
  ASSUME NEW name, NEW rec, NEW column \in ColumnsOf(classifyRecord(name, rec))
  PROVE  \E n \in Nat : DOMAIN column = 1 .. n
<1>1. column \in PortColumns \cup NodeColumns
  BY DEF ColumnsOf
<1>2. ASSUME column \in PortColumns
      PROVE  DOMAIN column \in {1 .. 1, 1 .. 2, 1 .. 3}
  BY <1>2 DEF PortColumns, PortNumKeys, PortStateKeys
<1>3. ASSUME column \in NodeColumns
      PROVE  DOMAIN column \in {1 .. 1, 1 .. 2, 1 .. 3}
  BY <1>3 DEF NodeColumns, NodeTypeKeys
<1>4. 1 \in Nat /\ 2 \in Nat /\ 3 \in Nat
  OBVIOUS
<1> QED
  BY <1>1, <1>2, <1>3, <1>4

\* The class of a record is a matter of its keys.
LEMMA ClassByKeys ==
  ASSUME NEW name, NEW rec, NEW other, DOMAIN rec = DOMAIN other
  PROVE  classifyRecord(name, rec) = classifyRecord(name, other)
<1>1. \A keys : hasAny(rec, keys) <=> hasAny(other, keys)
  BY DEF hasAny
<1> QED
  BY <1>1, Zenon DEF classifyRecord

LEMMA ReadOfRecord ==
  ASSUME NEW r, NEW rec \in normalizeRecord(r.raw)
  PROVE  ReadOf(r) = ColumnsOf(classifyRecord(r.name, rec))
<1> DEFINE keys == {normalizeKey(c) : c \in DOMAIN r.raw}
<1>1. DOMAIN rec = keys
  BY DEF normalizeRecord
<1> HIDE DEF keys
<1>2. DOMAIN [key \in keys |-> ""] = DOMAIN rec
  BY <1>1
<1>3. classifyRecord(r.name, [key \in keys |-> ""]) = classifyRecord(r.name, rec)
  BY <1>2, ClassByKeys
<1> QED
  BY <1>3, Zenon DEF ReadOf, keys

\* What get returns is one of the texts of the column.
LEMMA GetIsText ==
  ASSUME NEW raw \in RawRecord, NEW rec \in normalizeRecord(raw),
         NEW n \in Nat, NEW column, DOMAIN column = 1 .. n
  PROVE  /\ TextsOf(raw, column) = {} => get(rec, column) = ""
         /\ TextsOf(raw, column) # {} => get(rec, column) \in TextsOf(raw, column)
<1> DEFINE present == {k \in DOMAIN column : ValuesOf(raw, column[k]) # {}}
           first == CHOOSE k \in present : \A j \in present : k <= j
<1>1. /\ \A key \in DOMAIN rec : rec[key] \in ValuesOf(raw, key)
      /\ \A key : key \in DOMAIN rec <=> ValuesOf(raw, key) # {}
  BY NormalIsRecord
<1>2. \A k \in 1 .. n : k \in present <=> column[k] \in DOMAIN rec
  BY <1>1
<1>3. CASE present = {}
  <2>1. get(rec, column) = ""
    BY <1>2, <1>3, GetNothing
  <2>2. TextsOf(raw, column) = {}
    BY <1>3, Zenon DEF TextsOf
  <2> QED
    BY <2>1, <2>2
<1>4. CASE present # {}
  <2>1. present \subseteq 1 .. n /\ present \in SUBSET Nat
    OBVIOUS
  <2>2. TextsOf(raw, column) = ValuesOf(raw, column[first])
    BY <1>4, Zenon DEF TextsOf
  <2> HIDE DEF present
  <2>3. \E k \in present : \A j \in present : k <= j
    BY <1>4, <2>1, Least
  <2>4. first \in present /\ \A j \in present : first <= j
    BY <2>3
  <2> HIDE DEF first
  <2>5. first \in 1 .. n /\ column[first] \in DOMAIN rec
    BY <1>2, <2>1, <2>4
  <2>6. \A j \in 1 .. n : j < first => column[j] \notin DOMAIN rec
    BY <1>2, <2>4, <2>5
  <2>7. get(rec, column) = rec[column[first]]
    BY <2>5, <2>6, GetFirst
  <2>8. get(rec, column) \in ValuesOf(raw, column[first])
    BY <1>1, <2>5, <2>7
  <2> QED
    BY <2>2, <2>8
<1> QED
  BY <1>3, <1>4

\* A record whose conversion fails has a text that is no number.
LEMMA MalformedText ==
  ASSUME EngineInv, NEW r \in AllRecords, NEW rec \in normalizeRecord(r.raw),
         NEW column \in ColumnsOf(classifyRecord(r.name, rec)), IsMalformed(rec, column)
  PROVE  column \in ReadOf(r) /\ TextsOf(r.raw, column) \ NumberTexts # {}
<1>1. r.raw \in RawRecord
  BY RecordIsRaw
<1>2. column \in ReadOf(r)
  BY ReadOfRecord
<1>3. PICK n \in Nat : DOMAIN column = 1 .. n
  BY ColumnsAreTuples
<1>4. get(rec, column) \notin NumberTexts
  BY Zenon DEF IsMalformed, NumberTexts
<1>5. get(rec, column) # ""
  BY <1>4, Zenon DEF NumberTexts
<1>6. get(rec, column) \in TextsOf(r.raw, column)
  BY <1>1, <1>3, <1>5, GetIsText
<1> QED
  BY <1>2, <1>4, <1>6

LEMMA TailItems ==
  ASSUME NEW T, NEW s \in Seq(T), s # <<>>
  PROVE  ItemsOf(Tail(s)) \subseteq ItemsOf(s)
<1>1. /\ Len(s) \in Nat \ {0} /\ DOMAIN s = 1 .. Len(s) /\ DOMAIN Tail(s) = 1 .. Len(s) - 1
      /\ \A k \in 1 .. Len(s) - 1 : Tail(s)[k] = s[k + 1]
  BY EmptySeq
<1>2. \A k \in 1 .. Len(s) - 1 : k + 1 \in 1 .. Len(s)
  BY <1>1
<1> QED
  BY <1>1, <1>2 DEF ItemsOf

LEMMA ReasonInit == EngineInit => RefusedForReason
<1> SUFFICES ASSUME EngineInit PROVE RefusedForReason
  OBVIOUS
<1>1. pending = <<>>
  BY DEF EngineInit
<1>2. result = "ErrParse" => FALSE
  BY Zenon DEF EngineInit
<1> QED
  BY <1>1, <1>2 DEF RefusedForReason, ItemsOf

\* A step that leaves the files and the result of the merge alone.
LEMMA ReasonStays ==
  ASSUME RefusedForReason, UNCHANGED <<reading, source, files>>,
         ItemsOf(pending') \subseteq ItemsOf(pending) \cup AllRecords,
         result' = "ErrParse" => result = "ErrParse" /\ UNCHANGED <<loop, out>>
  PROVE  RefusedForReason'
<1>1. AllRecords' = AllRecords /\ \A k \in DOMAIN files : Content(k)' = Content(k)
  BY DEF AllRecords, Content
<1> QED
  BY <1>1 DEF RefusedForReason, Content

LEMMA ReasonNext ==
  ASSUME EngineInv, RefusedForReason, [EngineNext]_engineVars
  PROVE  RefusedForReason'
<1>1. CASE UNCHANGED engineVars
  <2>1. UNCHANGED <<reading, source, files, pending, result, loop, out>>
    BY <1>1 DEF engineVars, sourceVars, parseVars, vars
  <2> QED
    BY <2>1, ReasonStays
<1>2. CASE ReadSource
  <2>1. reading # "ok" /\ UNCHANGED <<pending, result>>
    BY <1>2 DEF ReadSource, parseVars, SourceNext, ResolvePath, Open, SkipDirectory, RefuseFile,
                ReadFile, CancelReading, EndOfSource, AtEntry
  <2>2. pending' = <<>> /\ result' # "ErrParse"
    BY <2>1 DEF EngineInv, InStages, RefusedForReason
  <2> QED
    BY <2>2 DEF RefusedForReason, ItemsOf
<1>3. CASE ReadFailed \/ CancelParsing
  <2>1. UNCHANGED <<reading, source, files, pending>> /\ result' # "ErrParse"
    BY <1>3 DEF ReadFailed, CancelParsing, Finish, sourceVars, Ends
  <2> QED
    BY <2>1, ReasonStays
<1>4. CASE ParseFile
  <2>1. /\ reading = "ok" /\ result = "" /\ file <= Len(files) /\ file \in Nat \ {0}
        /\ UNCHANGED <<sourceVars, vars, result>> /\ ~ Unreadable(Content(file))
        /\ pending' = IF Content(file).format = "blank" THEN <<>> ELSE RecordsOf(Content(file))
    BY <1>4 DEF ParseFile, AtFile, Parsing, EngineInv, InStages
  <2>2. file \in DOMAIN files /\ UNCHANGED <<reading, source, files>> /\ result' # "ErrParse"
    <3>1. files \in Seq(Nat)
      BY DEF EngineInv, SourceInv, SourceTypeOK
    <3>2. file \in DOMAIN files
      <4>1. file <= Len(files) /\ file \in Nat \ {0}
        BY <2>1
      <4> QED
        BY <3>1, <4>1
    <3>3. UNCHANGED <<reading, source, files>>
      BY <2>1 DEF sourceVars
    <3>4. result' # "ErrParse"
      BY <2>1, Zenon
    <3> QED
      BY <3>2, <3>3, <3>4
  <2>3. Content(file).format \in {"blank", "broken", "lines", "tables"}
    BY <2>2, ContentIsFile, FileAssumption DEF EngineInv
  <2>4. ItemsOf(pending') \subseteq AllRecords
    <3>1. CASE Content(file).format = "blank"
      <4>1. pending' = <<>>
        BY <2>1, <3>1
      <4> QED
        BY <4>1 DEF ItemsOf
    <3>2. CASE Content(file).format \in {"lines", "tables"}
      <4>1. pending' = RecordsOf(Content(file))
        BY <2>1, <3>2
      <4>2. ItemsOf(RecordsOf(Content(file))) \subseteq AllRecords
        BY <2>2, <3>2 DEF AllRecords
      <4> QED
        BY <4>1, <4>2
    <3>3. Content(file).format # "broken"
      BY <2>1 DEF Unreadable
    <3> QED
      BY <2>3, <3>1, <3>2, <3>3
  <2> QED
    BY <2>2, <2>4, ReasonStays
<1>5. CASE RejectFile
  <2>1. /\ reading = "ok" /\ UNCHANGED <<reading, source, files, pending>>
        /\ file \in DOMAIN files /\ Unreadable(Content(file))
    <3>1. files \in Seq(Nat) /\ file \in Nat \ {0}
      BY DEF EngineInv, InStages, SourceInv, SourceTypeOK
    <3>2. /\ reading = "ok" /\ file <= Len(files) /\ Unreadable(Content(file))
          /\ UNCHANGED <<reading, source, files, pending>>
      BY <1>5 DEF RejectFile, AtFile, Parsing, Finish, sourceVars
    <3> QED
      BY <3>1, <3>2
  <2> QED
    BY <2>1 DEF RefusedForReason, AllRecords, Content
<1>6. CASE ParseRecord
  <2>1. /\ pending # <<>> /\ pending' = Tail(pending) /\ UNCHANGED <<reading, source, files>>
        /\ result' = "" /\ pending \in Seq(Item)
    BY <1>6 DEF ParseRecord, Parsing, sourceVars, EngineInv, InStages
  <2>2. ItemsOf(pending') \subseteq ItemsOf(pending)
    BY <2>1, TailItems
  <2>3. result' # "ErrParse"
    BY <2>1, Zenon
  <2> QED
    BY <2>1, <2>2, <2>3, ReasonStays
<1>7. CASE RejectRecord
  <2>1. /\ reading = "ok" /\ UNCHANGED <<reading, source, files, pending>>
        /\ pending # <<>> /\ pending \in Seq(Item)
    BY <1>7 DEF RejectRecord, Parsing, Finish, sourceVars, EngineInv, InStages
  <2>2. PICK r : r = pending[1]
    OBVIOUS
  <2>3. r \in AllRecords
    <3>1. 1 \in DOMAIN pending
      BY <2>1, EmptySeq
    <3> QED
      BY <2>2, <3>1 DEF RefusedForReason, ItemsOf
  <2>4. PICK rec \in normalizeRecord(r.raw) :
          \E c \in ColumnsOf(classifyRecord(r.name, rec)) : IsMalformed(rec, c)
    BY <1>7, <2>2 DEF RejectRecord
  <2>5. \E column \in ReadOf(r) : TextsOf(r.raw, column) \ NumberTexts # {}
    BY <2>3, <2>4, MalformedText
  <2> QED
    BY <2>1, <2>3, <2>5 DEF RefusedForReason, AllRecords, Content
<1>8. CASE MergeStep
  <2>1. UNCHANGED <<reading, source, files, pending, result>> /\ result = ""
    BY <1>8 DEF MergeStep, AllParsed, Parsing, sourceVars, parseVars
  <2>2. result' # "ErrParse"
    BY <2>1, Zenon
  <2> QED
    BY <2>1, <2>2, ReasonStays
<1>9. CASE ReturnParsed
  <2>1. /\ UNCHANGED <<reading, source, files, pending, loop, out>>
        /\ reading = "ok" /\ loop = "end"
        /\ result' = IF out.nodes = <<>> THEN "ErrParse" ELSE "ok"
    BY <1>9 DEF ReturnParsed, AllParsed, Parsing, Finish, sourceVars, vars
  <2>2. result' = "ErrParse" => out.nodes = <<>>
    BY <2>1
  <2> QED
    BY <2>1, <2>2 DEF RefusedForReason, AllRecords, Content
<1>10. CASE Answered
  BY <1>1, <1>10 DEF Answered
<1> QED
  BY <1>1, <1>2, <1>3, <1>4, <1>5, <1>6, <1>7, <1>8, <1>9, <1>10 DEF EngineNext

LEMMA ReasonInvariant == EngineSpec => []RefusedForReason
BY EngineInvariant, ReasonInit, ReasonNext, PTL DEF EngineSpec

LEMMA NumbersChecked == EngineInv /\ RefusedForReason => NumbersAreChecked
<1> SUFFICES ASSUME EngineInv, RefusedForReason PROVE NumbersAreChecked
  OBVIOUS
<1>1. ASSUME result = "ok", NEW r \in AllRecords, NEW column \in ReadOf(r),
             TextsOf(r.raw, column) # {}
      PROVE  TextsOf(r.raw, column) \cap NumberTexts # {}
  <2>1. r.raw \in RawRecord /\ Converted(r)
    BY <1>1, AllConverted
  <2>2. PICK rec \in normalizeRecord(r.raw) :
          \A c \in ColumnsOf(classifyRecord(r.name, rec)) : ~ IsMalformed(rec, c)
    BY <2>1 DEF Converted
  <2>3. column \in ColumnsOf(classifyRecord(r.name, rec))
    BY <1>1, ReadOfRecord
  <2>4. PICK n \in Nat : DOMAIN column = 1 .. n
    BY <2>3, ColumnsAreTuples
  <2>5. get(rec, column) \in TextsOf(r.raw, column)
    BY <1>1, <2>1, <2>4, GetIsText
  <2>6. get(rec, column) \in NumberTexts
    BY <2>2, <2>3, Zenon DEF IsMalformed, NumberTexts
  <2> QED
    BY <2>5, <2>6
<1> QED
  BY <1>1, Zenon DEF NumbersAreChecked, RefusedForReason

\* Whatever the source, its files and their columns: a record that names a node
\* is not lost on the way from the bytes to the result of Engine.Parse.
THEOREM RecordsSurvive == EngineSpec => []GUIDsSurvive
BY EngineInvariant, GUIDsSurviveMerge, PTL

\* Whatever the source: Engine.Parse accepts none with a record of which a
\* numeric column that is read has only texts that are no numbers, and refuses
\* none as malformed without such a text, an unreadable file or a lack of nodes.
THEOREM MalformedRefused == EngineSpec => []NumbersAreChecked
BY EngineInvariant, ReasonInvariant, NumbersChecked, PTL

\* What is proved of finalizeParsedLog for any records, the exception for ports
\* with one key included, holds for those that the files of a source become.
THEOREM EngineMerges == EngineSpec => [](MergedAndClosed /\ NothingLost /\ LastValueWins)
<1>1. EngineInv => MergedAndClosed /\ NothingLost /\ LastValueWins
  BY FinalInvImplies, LastInvImplies DEF EngineInv, LastInv, FinalInv
<1> QED
  BY <1>1, EngineInvariant, PTL

\* Engine.Parse reads its source as readSource does: every step of it is one of
\* SourceReader or leaves the reader alone.
THEOREM EngineReads == EngineSpec => SourceSpec
<1>1. EngineInit => SourceInit
  BY DEF EngineInit
<1>2. [EngineNext]_engineVars => [SourceNext]_sourceVars
  BY DEF EngineNext, engineVars, ReadSource, ReadFailed, ParseFile, RejectFile, CancelParsing,
         ParseRecord, RejectRecord, MergeStep, ReturnParsed, Answered, Finish
<1> QED
  BY <1>1, <1>2, PTL DEF EngineSpec, SourceSpec
=============================================================================
