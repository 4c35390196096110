--------------------------- MODULE LogReadsProofs ---------------------------
(***************************************************************************)
(* Proofs about LogReads and LogPages, for every number of readers,        *)
(* writers and logs.  The writers are known to the readers only by what    *)
(* LogStoreProofs proves of every step of theirs: a parsed or failed log   *)
(* does not change any more, and a log that is not parsed shows no rows.   *)
(***************************************************************************)
EXTENDS LogPages, LogStoreProofs, WellFoundedInduction, SequenceTheorems

(***************************************************************************)
(* The rows of one node.  OfNode is defined by recursion; what is said of  *)
(* it is proved by induction over the rows, which rests on the order of    *)
(* the natural numbers being well-founded.                                 *)
(***************************************************************************)
LEMMA Least ==
  ASSUME NEW T \in SUBSET Nat, T # {}
  PROVE  \E x \in T : \A y \in T : x <= y
<1> DEFINE R == OpToRel(<, Nat)
<1>1. IsWellFoundedOn(R, Nat)
  BY NatLessThanWellFounded
<1>2. \A x, y \in Nat : y < x => <<y, x>> \in R
  BY DEF OpToRel
<1> HIDE DEF R
<1>3. PICK x \in T : \A y \in T : ~ (<<y, x>> \in R)
  BY <1>1, WFMin
<1>4. ASSUME NEW y \in T PROVE x <= y
  <2>1. y \in Nat /\ x \in Nat
    OBVIOUS
  <2>2. ~ (y < x)
    BY <1>2, <1>3, <2>1
  <2> QED
    BY <2>1, <2>2
<1> QED
  BY <1>4

LEMMA ByInduction ==
  ASSUME NEW S \in SUBSET Nat, 0 \in S, \A n \in S : n + 1 \in S
  PROVE  S = Nat
<1> SUFFICES ASSUME S # Nat PROVE FALSE
  OBVIOUS
<1>1. PICK x \in Nat \ S : \A y \in Nat \ S : x <= y
  <2>1. Nat \ S # {} /\ Nat \ S \in SUBSET Nat
    OBVIOUS
  <2> QED
    BY <2>1, Least
<1>2. x # 0 /\ x - 1 \in Nat
  BY <1>1
<1>3. x - 1 \in S
  BY <1>1, <1>2
<1> QED
  BY <1>1, <1>2, <1>3

\* The body of OfNode's recursion.
KeptOf(seq, g, f, n) ==
  IF n = 0 THEN <<>>
  ELSE IF seq[n].guid = g THEN Append(f[n - 1], seq[n]) ELSE f[n - 1]

LEMMA KeptExists ==
  ASSUME NEW seq, NEW g, NEW N \in Nat
  PROVE  \E f : f = [n \in 0 .. N |-> KeptOf(seq, g, f, n)]
<1> DEFINE S == {m \in Nat : \E f : f = [n \in 0 .. m |-> KeptOf(seq, g, f, n)]}
<1>1. 0 \in S
  <2> DEFINE f == [n \in 0 .. 0 |-> <<>>]
  <2>1. f = [n \in 0 .. 0 |-> KeptOf(seq, g, f, n)]
    BY DEF KeptOf
  <2> QED
    BY <2>1
<1>2. ASSUME NEW m \in S PROVE m + 1 \in S
  <2>1. PICK f : f = [n \in 0 .. m |-> KeptOf(seq, g, f, n)]
    OBVIOUS
  <2> DEFINE h == [n \in 0 .. m + 1 |-> IF n = m + 1 THEN KeptOf(seq, g, f, n) ELSE f[n]]
  <2>2. m \in Nat
    OBVIOUS
  <2>3. ASSUME NEW n \in 0 .. m + 1 PROVE h[n] = KeptOf(seq, g, h, n)
    <3>1. \A k \in 0 .. m : h[k] = f[k]
      BY <2>2
    <3>2. CASE n = m + 1
      <4>1. h[n] = KeptOf(seq, g, f, n)
        BY <3>2
      <4>2. n # 0 /\ n - 1 \in 0 .. m
        BY <2>2, <3>2
      <4> HIDE DEF h
      <4> QED
        BY <3>1, <4>1, <4>2 DEF KeptOf
    <3>3. CASE n # m + 1
      <4>1. n \in 0 .. m /\ (n # 0 => n - 1 \in 0 .. m)
        BY <2>2, <3>3
      <4>2. h[n] = f[n] /\ f[n] = KeptOf(seq, g, f, n)
        BY <2>1, <3>1, <4>1
      <4> HIDE DEF h
      <4> QED
        BY <3>1, <4>1, <4>2 DEF KeptOf
    <3> QED
      BY <3>2, <3>3
  <2>4. h = [n \in 0 .. m + 1 |-> KeptOf(seq, g, h, n)]
    <3>1. h = [n \in 0 .. m + 1 |-> h[n]]
      OBVIOUS
    <3> HIDE DEF h
    <3> QED
      BY <2>3, <3>1
  <2> HIDE DEF h
  <2>5. m + 1 \in Nat /\ \E k : k = [n \in 0 .. m + 1 |-> KeptOf(seq, g, k, n)]
    BY <2>2, <2>4
  <2> QED
    BY <2>5
<1>3. S \in SUBSET Nat
  OBVIOUS
<1> HIDE DEF S
<1>4. S = Nat
  BY <1>1, <1>2, <1>3, ByInduction
<1> QED
  BY <1>4 DEF S

LEMMA OfNodeKept ==
  ASSUME NEW seq \in Seq(Row), NEW g
  PROVE  \E f : /\ f[0] = <<>>
                /\ \A n \in 0 .. Len(seq) - 1 :
                     f[n + 1] = IF seq[n + 1].guid = g THEN Append(f[n], seq[n + 1]) ELSE f[n]
                /\ OfNode(seq, g) = f[Len(seq)]
<1> DEFINE kept == CHOOSE f : f = [n \in 0 .. Len(seq) |-> KeptOf(seq, g, f, n)]
<1>1. Len(seq) \in Nat
  OBVIOUS
<1>2. kept = [n \in 0 .. Len(seq) |-> KeptOf(seq, g, kept, n)]
  BY <1>1, KeptExists
<1>3. OfNode(seq, g) = kept[Len(seq)]
  BY DEF OfNode, KeptOf
<1> HIDE DEF kept
<1>4. \A n \in 0 .. Len(seq) : kept[n] = KeptOf(seq, g, kept, n)
  BY <1>2
<1>5. kept[0] = <<>>
  <2>1. 0 \in 0 .. Len(seq)
    BY <1>1
  <2> QED
    BY <1>4, <2>1 DEF KeptOf
<1>6. ASSUME NEW n \in 0 .. Len(seq) - 1
      PROVE  kept[n + 1] = IF seq[n + 1].guid = g THEN Append(kept[n], seq[n + 1]) ELSE kept[n]
  <2>1. n + 1 \in 0 .. Len(seq) /\ n + 1 # 0 /\ (n + 1) - 1 = n
    BY <1>1
  <2> QED
    BY <1>4, <2>1 DEF KeptOf
<1> QED
  BY <1>3, <1>5, <1>6

LEMMA OfNodeOfNone ==
  ASSUME NEW g PROVE OfNode(<<>>, g) = <<>>
<1>1. <<>> \in Seq(Row) /\ Len(<<>>) = 0
  OBVIOUS
<1>2. PICK f : f[0] = <<>> /\ OfNode(<<>>, g) = f[Len(<<>>)]
  BY <1>1, OfNodeKept, Zenon
<1> QED
  BY <1>1, <1>2, Zenon

LEMMA OfNodeType ==
  ASSUME NEW seq \in Seq(Row), NEW g
  PROVE  OfNode(seq, g) \in Seq(Row)
<1>1. PICK f : /\ f[0] = <<>>
               /\ \A n \in 0 .. Len(seq) - 1 :
                    f[n + 1] = IF seq[n + 1].guid = g THEN Append(f[n], seq[n + 1]) ELSE f[n]
               /\ OfNode(seq, g) = f[Len(seq)]
  BY OfNodeKept
<1> DEFINE S == {n \in Nat : n <= Len(seq) => f[n] \in Seq(Row)}
<1>2. 0 \in S
  <2>1. f[0] = <<>>
    BY <1>1
  <2>2. <<>> \in Seq(Row) /\ Len(<<>>) = 0
    OBVIOUS
  <2> QED
    BY <2>1, <2>2
<1>3. ASSUME NEW n \in S PROVE n + 1 \in S
  <2> SUFFICES ASSUME n + 1 <= Len(seq) PROVE f[n + 1] \in Seq(Row)
    OBVIOUS
  <2>1. n \in 0 .. Len(seq) - 1 /\ f[n] \in Seq(Row) /\ seq[n + 1] \in Row
    OBVIOUS
  <2>2. f[n + 1] = IF seq[n + 1].guid = g THEN Append(f[n], seq[n + 1]) ELSE f[n]
    BY <1>1, <2>1
  <2> QED
    BY <2>1, <2>2
<1>4. S \in SUBSET Nat
  OBVIOUS
<1> HIDE DEF S
<1>5. S = Nat
  BY <1>2, <1>3, <1>4, ByInduction
<1> QED
  BY <1>1, <1>5 DEF S

\* The unique index on the node lets one row at most be found.
LEMMA OfNodeOnce ==
  ASSUME NEW seq \in Seq(Row), NEW g, NEW t \in {"nodes", "infos"}, Distinct(t, seq)
  PROVE  Len(OfNode(seq, g)) <= 1
<1>1. PICK f : /\ f[0] = <<>>
               /\ \A n \in 0 .. Len(seq) - 1 :
                    f[n + 1] = IF seq[n + 1].guid = g THEN Append(f[n], seq[n + 1]) ELSE f[n]
               /\ OfNode(seq, g) = f[Len(seq)]
  BY OfNodeKept
<1> DEFINE S == {n \in Nat : n <= Len(seq) =>
                   /\ f[n] \in Seq(Row) /\ Len(f[n]) <= 1
                   /\ Len(f[n]) = 1 => \E i \in 1 .. n : seq[i].guid = g}
<1>2. 0 \in S
  <2>1. f[0] = <<>>
    BY <1>1
  <2>2. <<>> \in Seq(Row) /\ Len(<<>>) = 0
    OBVIOUS
  <2>3. Len(f[0]) = 0 /\ f[0] \in Seq(Row)
    BY <2>1, <2>2
  <2>4. Len(f[0]) <= 1 /\ Len(f[0]) # 1
    BY <2>3
  <2> QED
    BY <2>3, <2>4
<1>3. ASSUME NEW n \in S PROVE n + 1 \in S
  <2> SUFFICES ASSUME n + 1 <= Len(seq)
               PROVE  /\ f[n + 1] \in Seq(Row) /\ Len(f[n + 1]) <= 1
                      /\ Len(f[n + 1]) = 1 => \E i \in 1 .. n + 1 : seq[i].guid = g
    OBVIOUS
  <2>1. /\ n \in Nat /\ n \in 0 .. Len(seq) - 1 /\ seq[n + 1] \in Row
        /\ f[n] \in Seq(Row) /\ Len(f[n]) <= 1
        /\ Len(f[n]) = 1 => \E i \in 1 .. n : seq[i].guid = g
    OBVIOUS
  <2>2. CASE seq[n + 1].guid # g
    <3>1. f[n + 1] = f[n]
      BY <1>1, <2>1, <2>2
    <3> QED
      BY <2>1, <3>1
  <2>3. CASE seq[n + 1].guid = g
    <3>1. f[n + 1] = Append(f[n], seq[n + 1])
      BY <1>1, <2>1, <2>3
    <3>2. ~ \E i \in 1 .. n : seq[i].guid = g
      BY <2>1, <2>3 DEF Distinct, SameKey
    <3>3. Len(f[n]) = 0
      <4>1. Len(f[n]) \in Nat /\ Len(f[n]) <= 1 /\ Len(f[n]) # 1
        BY <2>1, <3>2
      <4>2. \A k \in Nat : k <= 1 /\ k # 1 => k = 0
        OBVIOUS
      <4> QED
        BY <4>1, <4>2, Zenon
    <3>4. Len(f[n + 1]) = 1 /\ f[n + 1] \in Seq(Row)
      BY <2>1, <3>1, <3>3
    <3> QED
      BY <2>1, <2>3, <3>4
  <2> QED
    BY <2>2, <2>3
<1>4. S \in SUBSET Nat
  OBVIOUS
<1> HIDE DEF S
<1>5. S = Nat
  BY <1>2, <1>3, <1>4, ByInduction
<1> QED
  BY <1>1, <1>5 DEF S

-----------------------------------------------------------------------------
(***************************************************************************)
(* What is true of every reader.                                           *)
(***************************************************************************)
OnItsWay(x) ==
  /\ x.at # "done" => x.answer = "none"
  /\ x.at \notin {"idle", "done"} => x.log \in LogId
  /\ x.at = "log" => x.query \in {"log", "nodes", "ports", "topology"}
  /\ x.at = "nodes" => x.query \in {"nodes", "topology"}
  /\ x.at \in {"node", "info"} => x.query \in OfANode
  /\ x.at = "ports" => x.query \in {"nodePorts", "ports", "topology"}

\* The reader has seen its log.
SeenLog(x) ==
  /\ x.query \in {"nodes", "ports", "topology"}
  /\ x.at \in {"nodes", "ports"} \/ x.answer \in {"ok", "ErrLogNotParsed"}

\* A log that was parsed when it was looked at still is what it was.
LogStillTrue(x) ==
  SeenLog(x) => x.log \in LogId /\ (x.gotLog.status = "parsed" => logs[x.log] = x.gotLog)

\* And so is the snapshot of a topology; of another log it holds nothing.
SnapshotStillTrue(x) ==
  SeenLog(x) /\ x.query = "topology" =>
    x.snapshot = IF x.gotLog.status = "parsed" THEN rows[x.log] ELSE EmptyRows

ReadFromSnapshot(x) ==
  x.query = "topology" =>
    /\ x.at = "ports" => \A t \in {"nodes", "infos"} : x.got[t] = x.snapshot[t]
    /\ x.answer \in {"ok", "ErrLogNotParsed"} => x.got = x.snapshot
    /\ x.answer = "ok" => x.gotLog.status = "parsed"

ListStillTrue(x) ==
  x.query \in {"nodes", "ports"} /\ x.answer = "ok" =>
    \/ x.got[x.query] = rows[x.log][x.query]
    \/ x.got[x.query] = <<>> /\ x.gotLog.status # "parsed"

\* A node that was found is of a parsed log, which keeps it as it is.
NodeStillTrue(x) ==
  x.query \in OfANode /\ (x.at \in {"info", "ports"} \/ x.answer = "ok") =>
    /\ x.log \in LogId
    /\ x.got["nodes"] # <<>>
    /\ x.got["nodes"] = OfNode(rows[x.log]["nodes"], x.guid)
    /\ x.at # "info" => x.got["infos"] = OfNode(rows[x.log]["infos"], x.guid)
    /\ x.query = "nodePorts" /\ x.answer = "ok" =>
         x.got["ports"] = OfNode(rows[x.log]["ports"], x.guid)

\* An error says what the statements returned before it.
Told(x) ==
  /\ x.at = "idle" => x.log = 0
  /\ x.at \in {"idle", "log", "node"} => x.gotLog = NoLog /\ x.got = EmptyRows
  /\ x.at \in {"nodes", "ports"} /\ x.query \notin OfANode => x.gotLog.status # "none"
  /\ x.at = "done" => x.answer # "none" /\ x.query # "none"
  /\ x.answer = "ErrBadArguments" => x.log = 0
  /\ x.answer = "ErrNotFound" => x.gotLog = NoLog /\ x.got = EmptyRows
  /\ x.answer = "ErrLogNotParsed" =>
       x.query = "topology" /\ x.gotLog.status \in {"processing", "failed"}
  /\ x.answer = "ok" /\ x.query \notin OfANode => x.gotLog.status # "none"

ReaderSound(x) ==
  /\ x \in ReadState
  /\ OnItsWay(x) /\ Told(x)
  /\ LogStillTrue(x) /\ SnapshotStillTrue(x)
  /\ ReadFromSnapshot(x) /\ ListStillTrue(x) /\ NodeStillTrue(x)

ReadInv ==
  /\ SafetyInv
  /\ read = [r \in Reader |-> read[r]]
  /\ \A r \in Reader : ReaderSound(read[r])

-----------------------------------------------------------------------------
LEMMA ReadInvImplies ==
  ReadInv => ReadTypeOK /\ TopologyDataIsSnapshot /\ ListsAreAllOrNothing
<1> SUFFICES ASSUME ReadInv
             PROVE  ReadTypeOK /\ TopologyDataIsSnapshot /\ ListsAreAllOrNothing
  OBVIOUS
<1>1. ASSUME NEW r \in Reader, read[r].query = "topology",
             read[r].answer \in {"ok", "ErrLogNotParsed"}
      PROVE  /\ read[r].log \in LogId
             /\ read[r].got = IF read[r].gotLog.status = "parsed" THEN rows[read[r].log] ELSE EmptyRows
             /\ read[r].gotLog.status = "parsed" => logs[read[r].log] = read[r].gotLog
             /\ read[r].answer = "ok" => read[r].gotLog.status = "parsed"
  BY <1>1 DEF ReadInv, ReaderSound, SeenLog, LogStillTrue, SnapshotStillTrue, ReadFromSnapshot
<1>2. DataOfOneState
  <2> SUFFICES ASSUME NEW r \in Reader, read[r].query = "topology",
                      read[r].answer \in {"ok", "ErrLogNotParsed"},
                      read[r].gotLog.status = "parsed"
               PROVE  /\ Len(read[r].got["nodes"]) = read[r].gotLog.nodes
                      /\ Len(read[r].got["ports"]) = read[r].gotLog.ports
                      /\ WellFormed(read[r].got)
    BY <1>1 DEF DataOfOneState
  <2> QED
    BY <1>1 DEF ReadInv, SafetyInv, DataMatchesStatus
<1>3. TopologyOfParsedOnly
  BY <1>1 DEF TopologyOfParsedOnly, Answered
<1>4. ListsAreAllOrNothing
  BY DEF ListsAreAllOrNothing, Answered, ReadInv, ReaderSound, ListStillTrue
<1>5. ReadTypeOK
  <2>1. \A r \in Reader : read[r] \in ReadState
    BY DEF ReadInv, ReaderSound
  <2>2. read = [r \in Reader |-> read[r]]
    BY DEF ReadInv
  <2>3. TypeOK
    BY DEF ReadInv, SafetyInv, TypeInv
  <2>4. read \in [Reader -> ReadState]
    BY <2>1, <2>2, Zenon
  <2> QED
    BY <2>3, <2>4 DEF ReadTypeOK
<1> QED
  BY <1>2, <1>3, <1>4, <1>5 DEF TopologyDataIsSnapshot

LEMMA NotReadingSound ==
  ASSUME NEW g \in GUID PROVE ReaderSound(NotReading(g))
<1>1. EmptyRows \in ParsedLog /\ NoLog \in LogRow
  BY EmptyRowsType, NoLogType
<1>2. NotReading(g) \in ReadState
  BY <1>1 DEF NotReading, ReadState, ParsedLog
<1>3. /\ NotReading(g).at = "idle" /\ NotReading(g).answer = "none"
      /\ NotReading(g).query = "none" /\ NotReading(g).log = 0
      /\ NotReading(g).gotLog = NoLog /\ NotReading(g).got = EmptyRows
  BY DEF NotReading
<1> QED
  BY <1>2, <1>3 DEF ReaderSound, OnItsWay, Told, SeenLog, LogStillTrue, SnapshotStillTrue,
    ReadFromSnapshot, ListStillTrue, NodeStillTrue, OfANode

\* All that a reader has to know of a step of the writers.
LEMMA WritersKeepRows ==
  ASSUME SafetyInv, [Next]_vars, NEW l \in LogId
  PROVE  \/ logs'[l] = logs[l] /\ rows'[l] = rows[l]
         \/ logs[l].status # "parsed" /\ rows[l] = EmptyRows
<1>1. CASE logs[l].status \in Terminal
  BY <1>1, TerminalStep DEF SafetyInv, TypeInv
<1>2. CASE logs[l].status \notin Terminal
  BY <1>2 DEF SafetyInv, DataMatchesStatus, Terminal
<1> QED
  BY <1>1, <1>2

LEMMA WritersKeepReads ==
  ASSUME ReadInv, [Next]_vars, UNCHANGED read
  PROVE  ReadInv'
<1>1. SafetyInv /\ SafetyInv'
  BY SafetyStep DEF ReadInv
<1>2. ASSUME NEW l \in LogId
      PROVE  \/ logs'[l] = logs[l] /\ rows'[l] = rows[l]
             \/ logs[l].status # "parsed" /\ rows[l] = EmptyRows
  BY WritersKeepRows DEF ReadInv
<1>3. ASSUME NEW r \in Reader PROVE ReaderSound(read[r])'
  <2> DEFINE x == read[r]
  <2>1. ReaderSound(x) /\ x \in ReadState /\ x' = x
    BY DEF ReadInv, ReaderSound
  <2>2. LogStillTrue(x)' /\ SnapshotStillTrue(x)'
    BY <1>2, <2>1 DEF ReaderSound, LogStillTrue, SnapshotStillTrue, SeenLog
  <2>3. ListStillTrue(x)'
    <3> SUFFICES ASSUME x.query \in {"nodes", "ports"}, x.answer = "ok"
                 PROVE  \/ x.got[x.query] = rows'[x.log][x.query]
                        \/ x.got[x.query] = <<>> /\ x.gotLog.status # "parsed"
      BY <2>1 DEF ListStillTrue
    <3>1. /\ x.log \in LogId /\ x.query \in Table
          /\ x.gotLog.status = "parsed" => logs[x.log].status = "parsed"
      BY <2>1 DEF ReaderSound, LogStillTrue, SeenLog, Table
    <3> QED
      BY <1>2, <2>1, <3>1 DEF ReaderSound, ListStillTrue, EmptyRows
  <2>4. NodeStillTrue(x)'
    <3> SUFFICES ASSUME x.query \in OfANode, x.at \in {"info", "ports"} \/ x.answer = "ok"
                 PROVE  x.log \in LogId /\ rows'[x.log] = rows[x.log]
      BY <2>1 DEF ReaderSound, NodeStillTrue
    <3>1. x.log \in LogId /\ OfNode(rows[x.log]["nodes"], x.guid) # <<>>
      BY <2>1 DEF ReaderSound, NodeStillTrue
    <3>2. rows[x.log] # EmptyRows
      BY <3>1, OfNodeOfNone DEF EmptyRows, Table
    <3> QED
      BY <1>2, <3>1, <3>2
  <2> QED
    BY <2>1, <2>2, <2>3, <2>4 DEF ReaderSound, OnItsWay, Told, ReadFromSnapshot
<1> QED
  BY <1>1, <1>3 DEF ReadInv

\* A step of one reader keeps the invariant if that reader stays sound.
LEMMA BecomesSound ==
  ASSUME ReadInv, NEW r \in Reader, NEW x, ReaderSound(x), Becomes(r, x), UNCHANGED vars
  PROVE  ReadInv'
<1>1. SafetyInv'
  BY SafetyStep DEF ReadInv
<1>2. read' = [q \in Reader |-> read'[q]]
  BY DEF ReadInv, Becomes
<1>3. UNCHANGED <<logs, rows>>
  BY DEF vars
<1>4. ASSUME NEW q \in Reader PROVE ReaderSound(read[q])'
  <2>1. ReaderSound(read'[q])
    BY DEF ReadInv, Becomes
  <2> QED
    BY <1>3, <2>1 DEF ReaderSound, OnItsWay, Told, SeenLog, LogStillTrue,
      SnapshotStillTrue, ReadFromSnapshot, ListStillTrue, NodeStillTrue
<1> QED
  BY <1>1, <1>2, <1>4 DEF ReadInv

\* An answer that is an error of a statement, or of a check before the first one.
LEMMA FailedReadSound ==
  ASSUME ReadInv, NEW r \in Reader, NEW x \in ReadState,
         NEW a \in {"ErrBadArguments", "ErrNotFound", "dbError", "ErrUnavailable"},
         a = "ErrBadArguments" => x.log = 0,
         a = "ErrNotFound" => x.gotLog = NoLog /\ x.got = EmptyRows,
         x.query # "none", AnswerRead(r, x, a), UNCHANGED vars
  PROVE  ReadInv'
<1> DEFINE y == [x EXCEPT !.at = "done", !.answer = a]
<1>1. /\ y \in ReadState /\ y.at = "done" /\ y.answer = a /\ y.log = x.log
      /\ y.query = x.query /\ y.gotLog = x.gotLog /\ y.got = x.got
  BY DEF ReadState
<1>2. ReaderSound(y)
  BY <1>1 DEF ReaderSound, OnItsWay, Told, SeenLog, LogStillTrue, SnapshotStillTrue,
    ReadFromSnapshot, ListStillTrue, NodeStillTrue
<1>3. Becomes(r, y)
  BY DEF AnswerRead
<1> HIDE DEF y
<1> QED
  BY <1>2, <1>3, BecomesSound

LEMMA AskSound ==
  ASSUME ReadInv, NEW r \in Reader, NEW q \in Query, NEW l \in LogId \cup {0},
         NEW g \in GUID, Ask(r, q, l, g), UNCHANGED vars
  PROVE  ReadInv'
<1> DEFINE x == [read[r] EXCEPT !.query = q, !.log = l, !.guid = g]
           y == [x EXCEPT !.at = IF q \in OfANode THEN "node" ELSE "log"]
<1>1. ReaderSound(read[r]) /\ read[r] \in ReadState /\ read[r].at = "idle"
  BY DEF ReadInv, ReaderSound, Ask
<1>2. /\ x \in ReadState /\ x.answer = "none" /\ x.query = q /\ x.log = l
      /\ x.gotLog = NoLog /\ x.got = EmptyRows /\ x.query # "none"
  BY <1>1 DEF ReadState, ReaderSound, OnItsWay, Told, Query
<1>3. CASE l = 0
  <2>1. AnswerRead(r, x, "ErrBadArguments")
    BY <1>3 DEF Ask
  <2> HIDE DEF x
  <2> QED
    BY <1>2, <1>3, <2>1, FailedReadSound
<1>4. CASE l # 0
  <2>1. /\ y \in ReadState /\ y.answer = "none" /\ y.query = q /\ y.log = l
        /\ y.at = IF q \in OfANode THEN "node" ELSE "log"
        /\ y.gotLog = NoLog /\ y.got = EmptyRows
    BY <1>2 DEF ReadState
  <2>2. ReaderSound(y)
    BY <1>4, <2>1 DEF ReaderSound, OnItsWay, Told, SeenLog, LogStillTrue,
      SnapshotStillTrue, ReadFromSnapshot, ListStillTrue, NodeStillTrue, Query, OfANode
  <2>3. Becomes(r, y)
    BY <1>4 DEF Ask
  <2> HIDE DEF y
  <2> QED
    BY <2>2, <2>3, BecomesSound
<1> QED
  BY <1>3, <1>4

\* What the store's invariant says of a log that is looked at.
LEMMA LogShown ==
  ASSUME ReadInv, NEW l \in LogId
  PROVE  /\ logs[l] \in LogRow /\ rows[l] \in ParsedLog
         /\ logs[l].status # "parsed" => rows[l] = EmptyRows
BY DEF ReadInv, SafetyInv, TypeInv, TypeOK, DataMatchesStatus

LEMMA SelectLogSound ==
  ASSUME ReadInv, NEW r \in Reader, SelectLog(r), UNCHANGED vars
  PROVE  ReadInv'
<1> DEFINE l == read[r].log
           x == [read[r] EXCEPT !.gotLog = logs[l], !.snapshot = rows[l]]
<1>1. ReaderSound(read[r]) /\ read[r] \in ReadState /\ read[r].at = "log"
  BY DEF ReadInv, ReaderSound, SelectLog
<1>2. /\ l \in LogId /\ read[r].answer = "none"
      /\ read[r].query \in {"log", "nodes", "ports", "topology"}
  BY <1>1 DEF ReaderSound, OnItsWay
<1>3. logs[l] \in LogRow /\ rows[l] \in ParsedLog /\ (logs[l].status # "parsed" => rows[l] = EmptyRows)
  BY <1>2, LogShown
<1>4. /\ x \in ReadState /\ x.query = read[r].query /\ x.log = l /\ x.answer = "none"
      /\ x.gotLog = logs[l] /\ x.snapshot = rows[l]
  BY <1>1, <1>2, <1>3 DEF ReadState
<1>5. CASE logs[l].status = "none"
  BY <1>1, <1>2, <1>5, FailedReadSound DEF SelectLog, ReaderSound, Told
<1>6. ASSUME logs[l].status # "none", x.query = "log" PROVE ReadInv'
  <2> DEFINE y == [x EXCEPT !.at = "done", !.answer = "ok"]
  <2>1. /\ y \in ReadState /\ y.query = "log" /\ y.at = "done" /\ y.answer = "ok"
        /\ y.gotLog.status # "none"
    BY <1>4, <1>6 DEF ReadState
  <2>2. ReaderSound(y)
    BY <2>1 DEF ReaderSound, OnItsWay, Told, SeenLog, LogStillTrue, SnapshotStillTrue,
      ReadFromSnapshot, ListStillTrue, NodeStillTrue, OfANode
  <2>3. Becomes(r, y)
    BY <1>6 DEF SelectLog, AnswerRead
  <2> HIDE DEF y
  <2> QED
    BY <2>2, <2>3, BecomesSound
<1>7. ASSUME NEW to \in {"nodes", "ports"}, Becomes(r, [x EXCEPT !.at = to]),
             logs[l].status # "none",
             to = "nodes" => x.query \in {"nodes", "topology"},
             to = "ports" => x.query = "ports"
      PROVE  ReadInv'
  <2> DEFINE y == [x EXCEPT !.at = to]
  <2>1. /\ y \in ReadState /\ y.query = x.query /\ y.log = l /\ y.at = to
        /\ y.answer = "none" /\ y.gotLog = logs[l] /\ y.snapshot = rows[l]
    BY <1>4 DEF ReadState
  <2> HIDE DEF y, x
  <2>2. ReaderSound(y)
    BY <1>2, <1>3, <1>7, <1>4, <2>1 DEF ReaderSound, OnItsWay, Told, SeenLog, LogStillTrue,
      SnapshotStillTrue, ReadFromSnapshot, ListStillTrue, NodeStillTrue, OfANode
  <2> QED
    BY <1>7, <2>2, BecomesSound DEF y
<1>8. CASE logs[l].status # "none" /\ x.query \in {"nodes", "topology"}
  <2>1. Becomes(r, [x EXCEPT !.at = "nodes"])
    BY <1>8 DEF SelectLog
  <2> HIDE DEF x
  <2> QED
    BY <1>7, <1>8, <2>1
<1>9. CASE logs[l].status # "none" /\ x.query = "ports"
  <2>1. Becomes(r, [x EXCEPT !.at = "ports"])
    BY <1>9 DEF SelectLog
  <2> HIDE DEF x
  <2> QED
    BY <1>7, <1>9, <2>1
<1> QED
  BY <1>2, <1>4, <1>5, <1>6, <1>8, <1>9

LEMMA VisibleType ==
  ASSUME ReadInv, NEW r \in Reader, read[r].log \in LogId
  PROVE  Visible(r) \in ParsedLog
<1>1. read[r].snapshot \in ParsedLog
  BY DEF ReadInv, ReaderSound, ReadState
<1>2. rows[read[r].log] \in ParsedLog
  BY LogShown
<1> QED
  BY <1>1, <1>2 DEF Visible

LEMMA SelectNodesSound ==
  ASSUME ReadInv, NEW r \in Reader, SelectNodes(r), UNCHANGED vars
  PROVE  ReadInv'
<1> DEFINE seen == Visible(r)
           x == [read[r] EXCEPT !.got["nodes"] = seen["nodes"],
                                !.got["infos"] = seen["infos"]]
<1>1. ReaderSound(read[r]) /\ read[r] \in ReadState /\ read[r].at = "nodes"
  BY DEF ReadInv, ReaderSound, SelectNodes
<1>2. /\ read[r].log \in LogId /\ read[r].answer = "none" /\ SeenLog(read[r])
      /\ read[r].query \in {"nodes", "topology"}
  BY <1>1 DEF ReaderSound, OnItsWay, SeenLog
<1>3. \A t \in Table : seen[t] \in Seq(Row)
  BY <1>2, VisibleType DEF ParsedLog
<1>4. /\ x \in ReadState /\ x.query = read[r].query /\ x.log = read[r].log
      /\ x.answer = "none" /\ x.gotLog = read[r].gotLog /\ x.snapshot = read[r].snapshot
      /\ x.got["nodes"] = seen["nodes"] /\ x.got["infos"] = seen["infos"]
  <2> DEFINE got == [read[r].got EXCEPT !["nodes"] = seen["nodes"], !["infos"] = seen["infos"]]
  <2>1. /\ got \in [Table -> Seq(Row)]
        /\ got["nodes"] = seen["nodes"] /\ got["infos"] = seen["infos"]
    BY <1>1, <1>3 DEF ReadState, Table
  <2>2. x = [read[r] EXCEPT !.got = got]
    BY <1>1 DEF ReadState
  <2> HIDE DEF x, got
  <2> QED
    BY <1>1, <1>2, <2>1, <2>2 DEF ReadState
<1>5. CASE x.query = "topology"
  <2> DEFINE y == [x EXCEPT !.at = "ports"]
  <2>1. /\ y \in ReadState /\ y.query = "topology" /\ y.log = x.log /\ y.at = "ports"
        /\ y.answer = "none" /\ y.gotLog = x.gotLog /\ y.snapshot = x.snapshot /\ y.got = x.got
    BY <1>4, <1>5 DEF ReadState
  <2>2. seen = read[r].snapshot
    BY <1>4, <1>5 DEF Visible
  <2>3. Becomes(r, y)
    BY <1>5 DEF SelectNodes
  <2> HIDE DEF y, x, seen
  <2>4. \A t \in {"nodes", "infos"} : y.got[t] = y.snapshot[t]
    BY <1>4, <2>1, <2>2
  <2>5. ReadFromSnapshot(y)
    BY <2>1, <2>4 DEF ReadFromSnapshot
  <2>6. OnItsWay(y) /\ Told(y) /\ ListStillTrue(y) /\ NodeStillTrue(y)
    BY <1>1, <1>2, <1>4, <2>1 DEF ReaderSound, OnItsWay, Told, ListStillTrue, NodeStillTrue,
      OfANode
  <2>7. LogStillTrue(y)
    BY <1>1, <1>2, <1>4, <2>1 DEF ReaderSound, LogStillTrue
  <2>8. SnapshotStillTrue(y)
    BY <1>1, <1>2, <1>4, <1>5, <2>1 DEF ReaderSound, SnapshotStillTrue
  <2> QED
    BY <2>1, <2>3, <2>5, <2>6, <2>7, <2>8, BecomesSound DEF ReaderSound
<1>6. CASE x.query = "nodes"
  <2> DEFINE y == [x EXCEPT !.at = "done", !.answer = "ok"]
  <2>1. /\ y \in ReadState /\ y.query = "nodes" /\ y.log = x.log /\ y.at = "done"
        /\ y.answer = "ok" /\ y.gotLog = x.gotLog /\ y.got = x.got
    BY <1>4, <1>6 DEF ReadState
  <2>2. seen = rows[x.log]
    BY <1>4, <1>6 DEF Visible
  <2>3. Becomes(r, y)
    BY <1>6 DEF SelectNodes, AnswerRead
  <2> HIDE DEF y, x, seen
  <2>4. y.got["nodes"] = rows[y.log]["nodes"]
    BY <1>4, <2>1, <2>2
  <2>5. ListStillTrue(y)
    BY <2>1, <2>4 DEF ListStillTrue
  <2>6. /\ OnItsWay(y) /\ Told(y) /\ LogStillTrue(y) /\ SnapshotStillTrue(y)
        /\ ReadFromSnapshot(y) /\ NodeStillTrue(y)
    BY <1>1, <1>2, <1>4, <2>1 DEF ReaderSound, OnItsWay, Told, SeenLog, LogStillTrue,
      SnapshotStillTrue, ReadFromSnapshot, NodeStillTrue, OfANode
  <2> QED
    BY <2>1, <2>3, <2>5, <2>6, BecomesSound DEF ReaderSound
<1> QED
  BY <1>2, <1>4, <1>5, <1>6

LEMMA SelectPortsSound ==
  ASSUME ReadInv, NEW r \in Reader, SelectPorts(r), UNCHANGED vars
  PROVE  ReadInv'
<1> DEFINE all == Visible(r)["ports"]
           found == IF read[r].query = "nodePorts" THEN OfNode(all, read[r].guid) ELSE all
           x == [read[r] EXCEPT !.got["ports"] = found]
           told == IF x.query = "topology" /\ x.gotLog.status # "parsed"
                     THEN "ErrLogNotParsed" ELSE "ok"
           y == [x EXCEPT !.at = "done", !.answer = told]
<1>1. ReaderSound(read[r]) /\ read[r] \in ReadState /\ read[r].at = "ports"
  BY DEF ReadInv, ReaderSound, SelectPorts
<1>2. /\ read[r].log \in LogId /\ read[r].query \in {"nodePorts", "ports", "topology"}
      /\ read[r].query # "nodePorts" => SeenLog(read[r])
  BY <1>1 DEF ReaderSound, OnItsWay, SeenLog
<1>3. found \in Seq(Row)
  BY <1>2, VisibleType, OfNodeType DEF ParsedLog, Table
<1>4. Becomes(r, y)
  BY DEF SelectPorts, AnswerRead
<1> HIDE DEF found
<1>5. /\ x \in ReadState /\ x.query = read[r].query /\ x.log = read[r].log
      /\ x.gotLog = read[r].gotLog /\ x.snapshot = read[r].snapshot
      /\ x.got = [read[r].got EXCEPT !["ports"] = found] /\ x.guid = read[r].guid
  <2> DEFINE got == [read[r].got EXCEPT !["ports"] = found]
  <2>1. got \in [Table -> Seq(Row)]
    BY <1>1, <1>3 DEF ReadState
  <2>2. x = [read[r] EXCEPT !.got = got]
    BY <1>1 DEF ReadState
  <2> HIDE DEF x, got
  <2> QED
    BY <1>1, <2>1, <2>2 DEF ReadState, got
<1> HIDE DEF x
<1>6. told \in {"ok", "ErrLogNotParsed"}
  OBVIOUS
<1> HIDE DEF told
<1>7. /\ y \in ReadState /\ y.query = x.query /\ y.log = x.log /\ y.at = "done"
      /\ y.answer = told /\ y.gotLog = x.gotLog /\ y.snapshot = x.snapshot
      /\ y.got = x.got /\ y.guid = x.guid
  BY <1>5, <1>6 DEF ReadState
<1> HIDE DEF y
<1>8. OnItsWay(y) /\ LogStillTrue(y) /\ SnapshotStillTrue(y)
  BY <1>1, <1>2, <1>5, <1>7 DEF ReaderSound, OnItsWay, SeenLog, LogStillTrue, SnapshotStillTrue
<1>9. ListStillTrue(y)
  <2>1. ASSUME y.query = "ports" PROVE found = rows[y.log]["ports"]
    BY <1>5, <1>7, <2>1 DEF found, Visible
  <2> QED
    BY <1>1, <1>2, <1>5, <1>7, <2>1 DEF ListStillTrue, ReadState, Table
<1>10. ReadFromSnapshot(y)
  <2> SUFFICES ASSUME y.query = "topology"
               PROVE  y.got = y.snapshot /\ (y.answer = "ok" => y.gotLog.status = "parsed")
    BY <1>7 DEF ReadFromSnapshot
  <2>1. found = read[r].snapshot["ports"]
    BY <1>5, <1>7 DEF found, Visible
  <2>2. \A t \in Table : y.got[t] = y.snapshot[t]
    BY <1>1, <1>5, <1>7, <2>1 DEF ReaderSound, ReadFromSnapshot, ReadState, Table
  <2>3. y.got \in [Table -> Seq(Row)] /\ y.snapshot \in [Table -> Seq(Row)]
    BY <1>7 DEF ReadState, ParsedLog
  <2>4. y.got = y.snapshot
    BY <2>2, <2>3
  <2> QED
    BY <1>7, <2>4 DEF told
<1>11. Told(y)
  <2>1. read[r].query = "topology" => read[r].gotLog.status \in Status \ {"none"}
    BY <1>1 DEF ReaderSound, Told, OfANode, ReadState, LogRow
  <2>2. y.query \notin OfANode => y.gotLog.status # "none"
    BY <1>1, <1>5, <1>7 DEF ReaderSound, Told
  <2>3. y.answer = "ErrLogNotParsed" =>
          y.query = "topology" /\ y.gotLog.status \in {"processing", "failed"}
    BY <1>5, <1>7, <2>1 DEF told, Status
  <2>4. y.query # "none" /\ y.answer \in {"ok", "ErrLogNotParsed"}
    BY <1>2, <1>5, <1>6, <1>7
  <2> QED
    BY <1>7, <2>2, <2>3, <2>4 DEF Told
<1>12. NodeStillTrue(y)
  <2> SUFFICES ASSUME y.query = "nodePorts"
               PROVE  /\ y.log \in LogId
                      /\ y.got["nodes"] # <<>>
                      /\ y.got["nodes"] = OfNode(rows[y.log]["nodes"], y.guid)
                      /\ y.got["infos"] = OfNode(rows[y.log]["infos"], y.guid)
                      /\ y.got["ports"] = OfNode(rows[y.log]["ports"], y.guid)
    BY <1>2, <1>5, <1>7 DEF NodeStillTrue, OfANode
  <2>1. found = OfNode(rows[y.log]["ports"], y.guid)
    BY <1>5, <1>7 DEF found, Visible
  <2>2. /\ y.got["nodes"] = read[r].got["nodes"] /\ y.got["infos"] = read[r].got["infos"]
        /\ y.got["ports"] = found
    BY <1>1, <1>5, <1>7 DEF ReadState, Table
  <2>3. NodeStillTrue(read[r]) /\ read[r].query = "nodePorts"
    BY <1>1, <1>5, <1>7 DEF ReaderSound
  <2> QED
    BY <1>1, <1>2, <1>5, <1>7, <2>1, <2>2, <2>3 DEF NodeStillTrue, OfANode
<1> QED
  BY <1>4, <1>7, <1>8, <1>9, <1>10, <1>11, <1>12, BecomesSound DEF ReaderSound

LEMMA SelectNodeSound ==
  ASSUME ReadInv, NEW r \in Reader, SelectNode(r), UNCHANGED vars
  PROVE  ReadInv'
<1> DEFINE found == OfNode(rows[read[r].log]["nodes"], read[r].guid)
           x == [read[r] EXCEPT !.got["nodes"] = found, !.at = "info"]
<1>1. ReaderSound(read[r]) /\ read[r] \in ReadState /\ read[r].at = "node"
  BY DEF ReadInv, ReaderSound, SelectNode
<1>2. read[r].log \in LogId /\ read[r].query \in OfANode /\ read[r].answer = "none"
  BY <1>1 DEF ReaderSound, OnItsWay
<1>3. found \in Seq(Row)
  BY <1>2, LogShown, OfNodeType DEF ParsedLog, Table
<1>4. CASE found = <<>>
  <2>1. AnswerRead(r, read[r], "ErrNotFound")
    BY <1>4 DEF SelectNode
  <2> QED
    BY <1>1, <1>2, <2>1, FailedReadSound DEF ReaderSound, Told, OfANode
<1>5. CASE found # <<>>
  <2>1. Becomes(r, x)
    BY <1>5 DEF SelectNode
  <2> HIDE DEF found
  <2>2. /\ x \in ReadState /\ x.query = read[r].query /\ x.at = "info"
        /\ x.log = read[r].log /\ x.answer = "none" /\ x.guid = read[r].guid
        /\ x.got["nodes"] = found
    <3> DEFINE got == [read[r].got EXCEPT !["nodes"] = found]
    <3>1. got \in [Table -> Seq(Row)]
      BY <1>1, <1>3 DEF ReadState
    <3>2. x = [read[r] EXCEPT !.got = got, !.at = "info"]
      BY <1>1 DEF ReadState
    <3> HIDE DEF x, got
    <3> QED
      BY <1>1, <1>2, <3>1, <3>2 DEF ReadState, got, Table
  <2> HIDE DEF x
  <2>3. NodeStillTrue(x)
    BY <1>2, <1>5, <2>2 DEF NodeStillTrue, found
  <2>4. ReaderSound(x)
    BY <1>2, <2>2, <2>3 DEF ReaderSound, OnItsWay, Told, SeenLog, LogStillTrue,
      SnapshotStillTrue, ReadFromSnapshot, ListStillTrue, OfANode
  <2> QED
    BY <2>1, <2>4, BecomesSound
<1> QED
  BY <1>4, <1>5

LEMMA SelectNodeInfoSound ==
  ASSUME ReadInv, NEW r \in Reader, SelectNodeInfo(r), UNCHANGED vars
  PROVE  ReadInv'
<1> DEFINE found == OfNode(rows[read[r].log]["infos"], read[r].guid)
           x == [read[r] EXCEPT !.got["infos"] = found]
<1>1. ReaderSound(read[r]) /\ read[r] \in ReadState /\ read[r].at = "info"
  BY DEF ReadInv, ReaderSound, SelectNodeInfo
<1>2. read[r].log \in LogId /\ read[r].query \in OfANode /\ read[r].answer = "none"
  BY <1>1 DEF ReaderSound, OnItsWay
<1>3. found \in Seq(Row)
  BY <1>2, LogShown, OfNodeType DEF ParsedLog, Table
<1>4. IF x.query = "node" THEN AnswerRead(r, x, "ok")
      ELSE Becomes(r, [x EXCEPT !.at = "ports"])
  BY DEF SelectNodeInfo
<1> HIDE DEF found
<1>5. /\ x \in ReadState /\ x.query = read[r].query
      /\ x.log = read[r].log /\ x.answer = "none" /\ x.guid = read[r].guid
      /\ x.got["nodes"] = read[r].got["nodes"] /\ x.got["infos"] = found
  <2> DEFINE got == [read[r].got EXCEPT !["infos"] = found]
  <2>1. got \in [Table -> Seq(Row)]
    BY <1>1, <1>3 DEF ReadState
  <2>2. x = [read[r] EXCEPT !.got = got]
    BY <1>1 DEF ReadState
  <2> HIDE DEF x, got
  <2> QED
    BY <1>1, <1>2, <2>1, <2>2 DEF ReadState, got, Table
<1> HIDE DEF x
<1>6. ASSUME NEW at \in {"done", "ports"}, NEW told \in {"ok", "none"},
             at = "ports" => x.query = "nodePorts" /\ told = "none",
             at = "done" => x.query = "node" /\ told = "ok",
             Becomes(r, [x EXCEPT !.at = at, !.answer = told])
      PROVE  ReadInv'
  <2> DEFINE y == [x EXCEPT !.at = at, !.answer = told]
  <2>1. /\ y \in ReadState /\ y.query = x.query /\ y.at = at
        /\ y.log = x.log /\ y.answer = told /\ y.guid = x.guid /\ y.got = x.got
    BY <1>5 DEF ReadState
  <2> HIDE DEF y
  <2>2. NodeStillTrue(y)
    BY <1>1, <1>2, <1>5, <1>6, <2>1 DEF ReaderSound, NodeStillTrue, found
  <2>3. ReaderSound(y)
    BY <1>2, <1>5, <1>6, <2>1, <2>2 DEF ReaderSound, OnItsWay, Told, SeenLog, LogStillTrue,
      SnapshotStillTrue, ReadFromSnapshot, ListStillTrue, OfANode
  <2> QED
    BY <1>6, <2>3, BecomesSound DEF y
<1>7. CASE x.query = "node"
  BY <1>4, <1>6, <1>7 DEF AnswerRead
<1>8. CASE x.query # "node"
  <2>1. [x EXCEPT !.at = "ports"] = [x EXCEPT !.at = "ports", !.answer = "none"]
    BY <1>5 DEF ReadState
  <2>2. x.query = "nodePorts"
    BY <1>2, <1>5, <1>8 DEF OfANode
  <2> QED
    BY <1>4, <1>6, <1>8, <2>1, <2>2
<1> QED
  BY <1>7, <1>8

LEMMA ReadStepSound ==
  ASSUME ReadInv, NEW r \in Reader, ReadStep(r), UNCHANGED vars
  PROVE  ReadInv'
<1>1. ASSUME ReadFails(r) PROVE ReadInv'
  <2>1. read[r] \in ReadState /\ read[r].query # "none"
    BY <1>1 DEF ReadInv, ReaderSound, OnItsWay, ReadFails, OfANode
  <2> QED
    BY <1>1, <2>1, FailedReadSound DEF ReadFails
<1>2. ASSUME ReadReturn(r) PROVE ReadInv'
  <2>1. AnyGUID \in GUID
    BY GUIDAssumption DEF AnyGUID
  <2> QED
    BY <1>2, <2>1, NotReadingSound, BecomesSound DEF ReadReturn
<1>3. ASSUME ReadWork(r) PROVE ReadInv'
  BY <1>1, <1>3, SelectLogSound, SelectNodesSound, SelectPortsSound, SelectNodeSound,
    SelectNodeInfoSound DEF ReadWork
<1> QED
  BY <1>2, <1>3, AskSound DEF ReadStep

LEMMA ReadInitSound == ReadInit => ReadInv
<1> SUFFICES ASSUME ReadInit PROVE ReadInv
  OBVIOUS
<1>1. SafetyInv
  BY SafetyInit DEF ReadInit
<1>2. AnyGUID \in GUID
  BY GUIDAssumption DEF AnyGUID
<1> QED
  BY <1>1, <1>2, NotReadingSound DEF ReadInit, ReadInv

LEMMA ReadNextSound ==
  ASSUME ReadInv, [ReadNext]_readVars
  PROVE  ReadInv'
<1>1. CASE UNCHANGED readVars
  BY <1>1, WritersKeepReads DEF readVars, vars
<1>2. CASE Next /\ UNCHANGED read
  BY <1>2, WritersKeepReads
<1>3. CASE \E r \in Reader : ReadStep(r) /\ UNCHANGED vars
  BY <1>3, ReadStepSound
<1> QED
  BY <1>1, <1>2, <1>3 DEF ReadNext

LEMMA ReadInvariant == ReadSpec => []ReadInv
BY ReadInitSound, ReadNextSound, PTL DEF ReadSpec

-----------------------------------------------------------------------------
(***************************************************************************)
(* What the client is told.                                                *)
(***************************************************************************)
LEMMA StatusOfAnswer ==
  ASSUME NEW r \in Reader
  PROVE  /\ read[r].answer = "ok" => HttpAnswer(r) = 200
         /\ read[r].answer = "ErrNotFound" => HttpAnswer(r) = 404
         /\ read[r].answer = "ErrLogNotParsed" /\ read[r].query = "topology" =>
              HttpAnswer(r) = 409
         /\ read[r].answer = "dbError" => HttpAnswer(r) = 500
         /\ read[r].answer = "ErrUnavailable" => HttpAnswer(r) = 503
<1>1. CASE read[r].answer = "ErrNotFound"
  <2>1. ReadError(r) = "ErrNotFound"
    <3>1. RepositoryCode("ErrNotFound") = "NotFound" /\ FromRepository("NotFound") = "ErrNotFound"
      BY DEF RepositoryCode, FromRepository, TransportCodes
    <3>2. /\ TopologyFromRepository("NotFound") = "ErrNotFound"
          /\ FromTopology(TopologyCode("ErrNotFound")) = "ErrNotFound"
      BY DEF TopologyFromRepository, TopologyCode, FromTopology, TransportCodes
    <3> QED
      BY <1>1, <3>1, <3>2 DEF ReadError
  <2> QED
    BY <1>1, <2>1 DEF HttpAnswer, HttpStatus
<1>2. CASE read[r].answer = "ErrLogNotParsed" /\ read[r].query = "topology"
  <2>1. ReadError(r) = "ErrConflict"
    <3>1. FromTopology(TopologyCode("ErrLogNotParsed")) = "ErrConflict"
      BY DEF TopologyCode, FromTopology, TransportCodes
    <3> QED
      BY <1>2, <3>1 DEF ReadError
  <2> QED
    BY <1>2, <2>1 DEF HttpAnswer, HttpStatus
<1>3. CASE read[r].answer = "dbError"
  <2>1. ReadError(r) = "other"
    BY <1>3 DEF ReadError, RepositoryCode, TopologyFromRepository, TopologyCode,
      FromRepository, FromTopology, TransportCodes
  <2> QED
    BY <1>3, <2>1 DEF HttpAnswer, HttpStatus
<1>4. CASE read[r].answer = "ErrUnavailable"
  <2>1. ReadError(r) = "ErrUnavailable"
    BY <1>4 DEF ReadError, RepositoryCode, TopologyFromRepository, TopologyCode,
      FromRepository, FromTopology, TransportCodes
  <2> QED
    BY <1>4, <2>1 DEF HttpAnswer, HttpStatus
<1> QED
  BY <1>1, <1>2, <1>3, <1>4 DEF HttpAnswer

LEMMA StatusSound == ReadInv => HttpStatusIsTrue
<1> SUFFICES ASSUME ReadInv, NEW r \in Reader, read[r].at = "done", read[r].log # 0
             PROVE
  LET seen == read[r].gotLog.status
  IN CASE HttpAnswer(r) = 200 -> CASE read[r].query = "topology" -> seen = "parsed"
                                   [] read[r].query \in OfANode -> read[r].got["nodes"] # <<>>
                                   [] OTHER -> seen # "none"
       [] HttpAnswer(r) = 404 -> seen = "none" /\ read[r].got = EmptyRows
       [] HttpAnswer(r) = 409 -> read[r].query = "topology"
                                 /\ seen \in {"processing", "failed"}
       [] HttpAnswer(r) = 500 -> read[r].answer = "dbError"
       [] HttpAnswer(r) = 503 -> read[r].answer = "ErrUnavailable"
       [] OTHER -> FALSE
  BY DEF HttpStatusIsTrue
<1>1. /\ read[r] \in ReadState /\ Told(read[r])
      /\ ReadFromSnapshot(read[r]) /\ NodeStillTrue(read[r])
  BY DEF ReadInv, ReaderSound
<1>2. read[r].answer \in {"ok", "ErrNotFound", "ErrLogNotParsed", "dbError", "ErrUnavailable"}
  BY <1>1 DEF ReadState, Told
<1>3. CASE read[r].answer = "ok"
  BY <1>1, <1>3, StatusOfAnswer DEF Told, ReadFromSnapshot, NodeStillTrue, OfANode
<1>4. CASE read[r].answer = "ErrNotFound"
  BY <1>1, <1>4, StatusOfAnswer DEF Told, NoLog
<1>5. CASE read[r].answer = "ErrLogNotParsed"
  BY <1>1, <1>5, StatusOfAnswer DEF Told
<1>6. CASE read[r].answer = "dbError"
  BY <1>6, StatusOfAnswer
<1>7. CASE read[r].answer = "ErrUnavailable"
  BY <1>7, StatusOfAnswer
<1> QED
  BY <1>2, <1>3, <1>4, <1>5, <1>6, <1>7

LEMMA NodesSound == ReadInv => NodeBelongsTogether
<1> SUFFICES ASSUME ReadInv, NEW r \in Reader, Answered(r, "node") \/ Answered(r, "nodePorts")
             PROVE  LET x == read[r]
                        now == rows[x.log]
                    IN /\ x.got["nodes"] = OfNode(now["nodes"], x.guid)
                       /\ x.got["infos"] = OfNode(now["infos"], x.guid)
                       /\ x.query = "nodePorts" => x.got["ports"] = OfNode(now["ports"], x.guid)
                       /\ Len(x.got["nodes"]) = 1
                       /\ Len(x.got["infos"]) <= 1
  BY DEF NodeBelongsTogether
<1> DEFINE x == read[r]
           now == rows[x.log]
<1>1. /\ x.log \in LogId /\ x.got["nodes"] # <<>>
      /\ x.got["nodes"] = OfNode(now["nodes"], x.guid)
      /\ x.got["infos"] = OfNode(now["infos"], x.guid)
      /\ x.query = "nodePorts" => x.got["ports"] = OfNode(now["ports"], x.guid)
  BY DEF ReadInv, ReaderSound, NodeStillTrue, Answered, OfANode
<1>2. now["nodes"] \in Seq(Row) /\ now["infos"] \in Seq(Row)
  BY <1>1, LogShown DEF ParsedLog, Table
<1>3. Distinct("nodes", now["nodes"]) /\ Distinct("infos", now["infos"])
  <2>1. now # EmptyRows
    BY <1>1, OfNodeOfNone DEF EmptyRows, Table
  <2>2. WellFormed(now)
    BY <1>1, <2>1 DEF ReadInv, SafetyInv, DataMatchesStatus
  <2> QED
    BY <2>2 DEF WellFormed, Table
<1>4. Len(x.got["nodes"]) <= 1 /\ Len(x.got["infos"]) <= 1
  BY <1>1, <1>2, <1>3, OfNodeOnce
<1>5. Len(x.got["nodes"]) = 1
  <2>1. x.got["nodes"] \in Seq(Row)
    BY <1>1, <1>2, OfNodeType
  <2> HIDE DEF x
  <2>2. Len(x.got["nodes"]) \in Nat /\ Len(x.got["nodes"]) # 0
    BY <1>1, <2>1
  <2>3. \A k \in Nat : k <= 1 /\ k # 0 => k = 1
    OBVIOUS
  <2> QED
    BY <1>4, <2>2, <2>3 DEF x
<1> QED
  BY <1>1, <1>4, <1>5

-----------------------------------------------------------------------------
(***************************************************************************)
(* The pages.                                                              *)
(***************************************************************************)
WalkState ==
  [on : BOOLEAN, limit : Nat \ {0}, offset : Nat, from : Nat, seen : Seq(Row)]

ListOf(x) ==
  IF x.query = "ports" THEN rows[x.log]["ports"] ELSE OfNode(rows[x.log]["ports"], x.guid)

\* Either no page was collected, or the log is parsed and what was collected is
\* its list up to the next offset, with more to come.
WalkSound(x, w) ==
  /\ w \in WalkState
  /\ w.on => x.query \in Paged /\ x.at # "idle"
  /\ w.on /\ x.log # 0 =>
       \/ w.offset = w.from /\ w.seen = <<>>
       \/ /\ w.from < w.offset /\ w.offset < Len(ListOf(x))
          /\ w.seen = SubSeq(ListOf(x), w.from + 1, w.offset)
          /\ SeenLog(x) => x.gotLog.status = "parsed"

PageInv ==
  /\ ReadInv
  /\ walk = [r \in Reader |-> walk[r]]
  /\ \A r \in Reader : WalkSound(read[r], walk[r])

LEMMA ListOfType ==
  ASSUME ReadInv, NEW x, x.log \in LogId
  PROVE  ListOf(x) \in Seq(Row)
BY LogShown, OfNodeType DEF ListOf, ParsedLog, Table

LEMMA ListOfNone ==
  ASSUME NEW x, rows[x.log] = EmptyRows
  PROVE  ListOf(x) = <<>>
BY OfNodeOfNone DEF ListOf, EmptyRows, Table

LEMMA NoWalkSound ==
  ASSUME NEW x PROVE NoWalk \in WalkState /\ WalkSound(x, NoWalk)
<1>1. defaultPortsLimit \in Nat \ {0} /\ <<>> \in Seq(Row)
  BY PageAssumption
<1> QED
  BY <1>1 DEF NoWalk, WalkState, WalkSound

LEMMA PageInitSound == PageInit => PageInv
<1> SUFFICES ASSUME PageInit PROVE PageInv
  OBVIOUS
<1> QED
  BY ReadInitSound, NoWalkSound DEF PageInit, PageInv

LEMMA WritersKeepWalks ==
  ASSUME PageInv, [Next]_vars, UNCHANGED <<read, walk>>
  PROVE  PageInv'
<1>1. ReadInv /\ ReadInv' /\ SafetyInv
  BY WritersKeepReads DEF PageInv, ReadInv
<1>2. ASSUME NEW r \in Reader PROVE WalkSound(read[r], walk[r])'
  <2> DEFINE x == read[r]
             w == walk[r]
  <2>1. WalkSound(x, w) /\ x \in ReadState
    BY DEF PageInv, ReadInv, ReaderSound
  <2>2. CASE ~ (w.on /\ x.log # 0) \/ (w.offset = w.from /\ w.seen = <<>>)
    BY <2>1, <2>2 DEF WalkSound
  <2>3. CASE /\ w.on /\ x.log # 0
             /\ w.from < w.offset /\ w.offset < Len(ListOf(x))
             /\ w.seen = SubSeq(ListOf(x), w.from + 1, w.offset)
             /\ SeenLog(x) => x.gotLog.status = "parsed"
    <3>1. x.log \in LogId /\ w.offset \in Nat
      BY <2>1, <2>3 DEF WalkSound, WalkState, ReadState
    <3>2. Len(ListOf(x)) # 0
      BY <2>3, <3>1, <1>1, ListOfType
    <3>3. rows[x.log] # EmptyRows
      BY <3>2, ListOfNone
    <3>4. rows'[x.log] = rows[x.log]
      BY <1>1, <3>1, <3>3, WritersKeepRows
    <3>5. ListOf(x)' = ListOf(x)
      BY <3>4 DEF ListOf
    <3> QED
      BY <2>1, <2>3, <3>5 DEF WalkSound, SeenLog
  <2> QED
    BY <2>1, <2>2, <2>3 DEF WalkSound
<1> QED
  BY <1>1, <1>2 DEF PageInv

\* A step of one reader and its walk.
LEMMA WalkBecomes ==
  ASSUME PageInv, ReadInv', UNCHANGED vars, NEW r \in Reader, NEW x, NEW w,
         Becomes(r, x), walk' = [walk EXCEPT ![r] = w], WalkSound(x, w)
  PROVE  PageInv'
<1>1. walk' = [q \in Reader |-> walk'[q]]
  BY DEF PageInv
<1>2. UNCHANGED rows
  BY DEF vars
<1>3. ASSUME NEW q \in Reader PROVE WalkSound(read[q], walk[q])'
  <2>1. WalkSound(read'[q], walk'[q])
    BY DEF PageInv, ReadInv, Becomes
  <2> QED
    BY <1>2, <2>1 DEF WalkSound, ListOf, SeenLog
<1> QED
  BY <1>1, <1>3 DEF PageInv

\* What a walk has to know of a reader's statement: it goes on with the same
\* request, and it sees the log's row as it is, or has seen it before.
SameRequest(x, y) ==
  /\ y.query = x.query /\ y.log = x.log /\ y.guid = x.guid /\ y.at # "idle"
  /\ y.query = "ports" /\ SeenLog(y) =>
       (SeenLog(x) /\ y.gotLog = x.gotLog) \/ y.gotLog = logs[y.log]

LEMMA StatementSameRequest ==
  ASSUME NEW r \in Reader, NEW x \in ReadState, NEW got, NEW to, to # "idle", NEW a,
         x.query = "ports" /\ (to \in {"nodes", "ports"} \/ a \in {"ok", "ErrLogNotParsed"}) =>
           SeenLog(x),
         Becomes(r, [x EXCEPT !.got = got, !.at = to, !.answer = a])
  PROVE  \E z : Becomes(r, z) /\ SameRequest(x, z)
<1> DEFINE z == [x EXCEPT !.got = got, !.at = to, !.answer = a]
<1>1. /\ z.query = x.query /\ z.log = x.log /\ z.guid = x.guid /\ z.gotLog = x.gotLog
      /\ z.at = to /\ z.answer = a
  BY DEF ReadState
<1>2. Becomes(r, z)
  OBVIOUS
<1> HIDE DEF z
<1>3. SameRequest(x, z)
  BY <1>1 DEF SameRequest, SeenLog
<1> QED
  BY <1>2, <1>3

LEMMA SelectLogSameRequest ==
  ASSUME ReadInv, NEW r \in Reader, SelectLog(r)
  PROVE  \E z : Becomes(r, z) /\ SameRequest(read[r], z)
<1> DEFINE x == read[r]
           y == [x EXCEPT !.gotLog = logs[x.log], !.snapshot = rows[x.log]]
<1>1. /\ x \in ReadState /\ x.at = "log" /\ x.log \in LogId
      /\ x.query \in {"log", "nodes", "ports", "topology"}
  BY DEF ReadInv, ReaderSound, OnItsWay, SelectLog
<1>2. /\ y.query = x.query /\ y.log = x.log /\ y.guid = x.guid /\ y.gotLog = logs[x.log]
  BY <1>1 DEF ReadState
<1>3. CASE AnswerRead(r, x, "ErrNotFound")
  <2>1. Becomes(r, [x EXCEPT !.got = x.got, !.at = "done", !.answer = "ErrNotFound"])
    BY <1>1, <1>3 DEF AnswerRead, ReadState
  <2> QED
    BY <1>1, <2>1, StatementSameRequest
<1>4. ASSUME NEW to \in {"done", "nodes", "ports"}, NEW a \in {"none", "ok"},
             Becomes(r, [y EXCEPT !.at = to, !.answer = a])
      PROVE  \E z : Becomes(r, z) /\ SameRequest(x, z)
  <2> DEFINE z == [y EXCEPT !.at = to, !.answer = a]
  <2>1. /\ z.query = y.query /\ z.log = y.log /\ z.guid = y.guid /\ z.at = to
        /\ z.gotLog = y.gotLog
    BY <1>1 DEF ReadState
  <2> HIDE DEF y, z
  <2>2. SameRequest(x, z)
    BY <1>2, <2>1 DEF SameRequest
  <2> QED
    BY <1>4, <2>2 DEF z
<1>5. CASE AnswerRead(r, y, "ok")
  BY <1>4, <1>5 DEF AnswerRead
<1>6. ASSUME NEW to \in {"nodes", "ports"}, Becomes(r, [y EXCEPT !.at = to])
      PROVE  \E z : Becomes(r, z) /\ SameRequest(x, z)
  <2>1. x.answer = "none"
    BY <1>1 DEF ReadInv, ReaderSound, OnItsWay
  <2>2. [y EXCEPT !.at = to] = [y EXCEPT !.at = to, !.answer = "none"]
    BY <1>1, <2>1 DEF ReadState
  <2> QED
    BY <1>4, <1>6, <2>2
<1>7. \/ AnswerRead(r, x, "ErrNotFound")
      \/ AnswerRead(r, y, "ok")
      \/ \E to \in {"nodes", "ports"} : Becomes(r, [y EXCEPT !.at = to])
  BY <1>1, <1>2 DEF SelectLog
<1> QED
  BY <1>3, <1>5, <1>6, <1>7

LEMMA WorkSameRequest ==
  ASSUME ReadInv, NEW r \in Reader, ReadWork(r)
  PROVE  \E z : Becomes(r, z) /\ SameRequest(read[r], z)
<1> DEFINE x == read[r]
<1>1. x \in ReadState /\ OnItsWay(x)
  BY DEF ReadInv, ReaderSound
<1>2. ASSUME ReadFails(r) PROVE \E z : Becomes(r, z) /\ SameRequest(x, z)
  <2>1. PICK a \in {"dbError", "ErrUnavailable"} :
          Becomes(r, [x EXCEPT !.at = "done", !.answer = a])
    BY <1>2 DEF ReadFails, AnswerRead
  <2>2. Becomes(r, [x EXCEPT !.got = x.got, !.at = "done", !.answer = a])
    BY <1>1, <2>1 DEF ReadState
  <2> QED
    BY <1>1, <2>2, StatementSameRequest
<1>3. ASSUME SelectNodes(r) PROVE \E z : Becomes(r, z) /\ SameRequest(x, z)
  <2>1. x.at = "nodes" /\ x.query # "ports"
    BY <1>1, <1>3 DEF SelectNodes, OnItsWay
  <2> DEFINE g == [x.got EXCEPT !["nodes"] = Visible(r)["nodes"],
                                !["infos"] = Visible(r)["infos"]]
             y == [x EXCEPT !.got["nodes"] = Visible(r)["nodes"],
                            !.got["infos"] = Visible(r)["infos"]]
  <2>2. y = [x EXCEPT !.got = g]
    BY <1>1 DEF ReadState
  <2>3. Becomes(r, [y EXCEPT !.at = "ports"]) \/ Becomes(r, [y EXCEPT !.at = "done", !.answer = "ok"])
    BY <1>3 DEF SelectNodes, AnswerRead
  <2> HIDE DEF y, g
  <2>4. \/ Becomes(r, [x EXCEPT !.got = g, !.at = "ports", !.answer = x.answer])
        \/ Becomes(r, [x EXCEPT !.got = g, !.at = "done", !.answer = "ok"])
    BY <1>1, <2>2, <2>3 DEF ReadState
  <2> QED
    BY <1>1, <2>1, <2>4, StatementSameRequest
<1>4. ASSUME NEW t \in Table, NEW s, NEW to \in {"done", "info", "ports"},
             NEW a \in {"ok", "ErrLogNotParsed"},
             x.query = "ports" => SeenLog(x),
             LET y == [x EXCEPT !.got[t] = s]
             IN \/ Becomes(r, [y EXCEPT !.at = "done", !.answer = a])
                \/ Becomes(r, [y EXCEPT !.at = to])
      PROVE  \E z : Becomes(r, z) /\ SameRequest(x, z)
  <2> DEFINE g == [x.got EXCEPT ![t] = s]
             y == [x EXCEPT !.got[t] = s]
  <2>1. y = [x EXCEPT !.got = g]
    BY <1>1 DEF ReadState
  <2>2. Becomes(r, [y EXCEPT !.at = "done", !.answer = a]) \/ Becomes(r, [y EXCEPT !.at = to])
    BY <1>4
  <2> HIDE DEF y, g
  <2>3. \/ Becomes(r, [x EXCEPT !.got = g, !.at = "done", !.answer = a])
        \/ Becomes(r, [x EXCEPT !.got = g, !.at = to, !.answer = x.answer])
    BY <1>1, <2>1, <2>2 DEF ReadState
  <2> QED
    BY <1>1, <1>4, <2>3, StatementSameRequest
<1>5. ASSUME SelectPorts(r) PROVE \E z : Becomes(r, z) /\ SameRequest(x, z)
  <2> DEFINE s == IF x.query = "nodePorts" THEN OfNode(Visible(r)["ports"], x.guid)
                                           ELSE Visible(r)["ports"]
             y == [x EXCEPT !.got["ports"] = s]
  <2>1. x.query = "ports" => SeenLog(x)
    BY <1>5 DEF SelectPorts, SeenLog
  <2>2. \E a \in {"ok", "ErrLogNotParsed"} : Becomes(r, [y EXCEPT !.at = "done", !.answer = a])
    BY <1>5 DEF SelectPorts, AnswerRead
  <2> HIDE DEF s
  <2> QED
    BY <1>4, <2>1, <2>2 DEF Table
<1>6. ASSUME SelectNode(r) PROVE \E z : Becomes(r, z) /\ SameRequest(x, z)
  <2> DEFINE s == OfNode(rows[x.log]["nodes"], x.guid)
             y == [x EXCEPT !.got["nodes"] = s]
  <2>1. x.query # "ports"
    BY <1>1, <1>6 DEF SelectNode, OnItsWay, OfANode
  <2>2. CASE s = <<>>
    <3>1. Becomes(r, [x EXCEPT !.got = x.got, !.at = "done", !.answer = "ErrNotFound"])
      BY <1>1, <1>6, <2>2 DEF SelectNode, AnswerRead, ReadState
    <3> QED
      BY <1>1, <3>1, StatementSameRequest
  <2>3. CASE s # <<>>
    <3>1. Becomes(r, [x EXCEPT !.got["nodes"] = s, !.at = "info"])
      BY <1>6, <2>3 DEF SelectNode
    <3>2. Becomes(r, [y EXCEPT !.at = "info"])
      BY <1>1, <3>1 DEF ReadState
    <3> HIDE DEF s
    <3> QED
      BY <1>4, <2>1, <3>2 DEF Table
  <2> QED
    BY <2>2, <2>3
<1>7. ASSUME SelectNodeInfo(r) PROVE \E z : Becomes(r, z) /\ SameRequest(x, z)
  <2> DEFINE s == OfNode(rows[x.log]["infos"], x.guid)
             y == [x EXCEPT !.got["infos"] = s]
  <2>1. x.query # "ports"
    BY <1>1, <1>7 DEF SelectNodeInfo, OnItsWay, OfANode
  <2>2. \/ Becomes(r, [y EXCEPT !.at = "done", !.answer = "ok"])
        \/ Becomes(r, [y EXCEPT !.at = "ports"])
    BY <1>7 DEF SelectNodeInfo, AnswerRead
  <2> HIDE DEF s
  <2> QED
    BY <1>4, <2>1, <2>2 DEF Table
<1> QED
  BY <1>2, <1>3, <1>5, <1>6, <1>7, SelectLogSameRequest DEF ReadWork

LEMMA WalkUnchanged ==
  ASSUME PageInv, NEW r \in Reader, UNCHANGED walk
  PROVE  walk' = [walk EXCEPT ![r] = walk[r]]
BY DEF PageInv

LEMMA ListOfParsed ==
  ASSUME ReadInv, NEW x, x.log \in LogId, Len(ListOf(x)) > 0
  PROVE  logs[x.log].status = "parsed"
<1>1. ListOf(x) # <<>>
  OBVIOUS
<1> QED
  BY <1>1, ListOfNone, LogShown

LEMMA WorkKeepsWalks ==
  ASSUME PageInv, ReadInv', NEW r \in Reader, ReadWork(r), UNCHANGED walk, UNCHANGED vars
  PROVE  PageInv'
<1> DEFINE x == read[r]
           w == walk[r]
<1>1. ReadInv /\ x \in ReadState /\ WalkSound(x, w)
  BY DEF PageInv, ReadInv, ReaderSound
<1>2. PICK z : Becomes(r, z) /\ SameRequest(x, z)
  BY <1>1, WorkSameRequest
<1>3. ListOf(z) = ListOf(x) /\ z.log = x.log /\ z.query = x.query /\ z.at # "idle"
  BY <1>2 DEF SameRequest, ListOf
<1>4. WalkSound(z, w)
  <2>1. CASE ~ (w.on /\ x.log # 0) \/ (w.offset = w.from /\ w.seen = <<>>)
    BY <1>1, <1>3, <2>1 DEF WalkSound
  <2>2. CASE /\ w.on /\ x.log # 0
             /\ w.from < w.offset /\ w.offset < Len(ListOf(x))
             /\ w.seen = SubSeq(ListOf(x), w.from + 1, w.offset)
             /\ SeenLog(x) => x.gotLog.status = "parsed"
    <3>1. x.log \in LogId /\ w.offset \in Nat /\ w.on
      BY <1>1, <2>2 DEF WalkSound, WalkState, ReadState
    <3>2. Len(ListOf(x)) \in Nat
      BY <1>1, <3>1, ListOfType
    <3>3. logs[x.log].status = "parsed"
      BY <1>1, <2>2, <3>1, <3>2, ListOfParsed
    <3>4. x.query \in Paged
      BY <1>1, <3>1 DEF WalkSound
    <3>5. SeenLog(z) => z.gotLog.status = "parsed"
      BY <1>2, <1>3, <2>2, <3>3, <3>4 DEF SameRequest, SeenLog, Paged
    <3> QED
      BY <1>1, <1>3, <2>2, <3>5 DEF WalkSound
  <2> QED
    BY <1>1, <2>1, <2>2 DEF WalkSound
<1> QED
  BY <1>2, <1>4, WalkUnchanged, WalkBecomes

\* The request of a walk that does not page, or whose walk is over.
LEMMA NoWalkStep ==
  ASSUME PageInv, ReadInv', UNCHANGED vars, NEW r \in Reader, NEW x, Becomes(r, x),
         \/ UNCHANGED walk /\ ~ walk[r].on
         \/ walk' = [walk EXCEPT ![r] = NoWalk]
  PROVE  PageInv'
<1>1. CASE UNCHANGED walk /\ ~ walk[r].on
  <2>1. WalkSound(x, walk[r])
    BY <1>1 DEF PageInv, WalkSound
  <2> QED
    BY <1>1, <2>1, WalkUnchanged, WalkBecomes
<1>2. CASE walk' = [walk EXCEPT ![r] = NoWalk]
  BY <1>2, NoWalkSound, WalkBecomes
<1> QED
  BY <1>1, <1>2

LEMMA AskBecomes ==
  ASSUME ReadInv, NEW r \in Reader, NEW q \in Query, NEW l, NEW g, Ask(r, q, l, g)
  PROVE  \E x : Becomes(r, x) /\ x.query = q /\ x.log = l /\ x.at # "idle"
<1> DEFINE x == [read[r] EXCEPT !.query = q, !.log = l, !.guid = g]
<1>1. read[r] \in ReadState
  BY DEF ReadInv, ReaderSound
<1>2. PICK to \in {"done", "node", "log"}, a \in {"ErrBadArguments", read[r].answer} :
        Becomes(r, [x EXCEPT !.at = to, !.answer = a])
  <2>1. CASE l = 0
    BY <2>1 DEF Ask, AnswerRead
  <2>2. CASE l # 0
    <3>1. PICK to \in {"node", "log"} : Becomes(r, [x EXCEPT !.at = to])
      BY <2>2 DEF Ask
    <3>2. [x EXCEPT !.at = to] = [x EXCEPT !.at = to, !.answer = read[r].answer]
      BY <1>1 DEF ReadState
    <3> QED
      BY <3>1, <3>2
  <2> QED
    BY <2>1, <2>2
<1> DEFINE y == [x EXCEPT !.at = to, !.answer = a]
<1>3. y.query = q /\ y.log = l /\ y.at = to
  BY <1>1 DEF ReadState
<1> HIDE DEF y
<1> QED
  BY <1>2, <1>3 DEF y

LEMMA GivenType ==
  ASSUME NEW limit \in Limit, NEW offset \in Offset, ValidPage(limit, offset)
  PROVE  /\ Given(limit, defaultPortsLimit) \in Nat \ {0}
         /\ Given(offset, 0) \in Nat
<1>1. Given(offset, 0) \in Int
  <2>1. offset \subseteq Int
    BY PageAssumption
  <2>2. offset # {} => (CHOOSE n \in offset : TRUE) \in offset
    OBVIOUS
  <2>3. CASE offset = {}
    BY <2>3 DEF Given
  <2>4. CASE offset # {}
    <3>1. Given(offset, 0) = CHOOSE n \in offset : TRUE
      BY <2>4 DEF Given
    <3> QED
      BY <2>1, <2>2, <2>4, <3>1
  <2> QED
    BY <2>3, <2>4
<1> QED
  BY <1>1, PageAssumption DEF ValidPage

LEMMA FirstPageSound ==
  ASSUME PageInv, ReadInv', NEW r \in Reader, NEW q \in Paged, NEW l, NEW g,
         FirstPage(r, q, l, g), UNCHANGED vars
  PROVE  PageInv'
<1>1. PICK limit \in Limit, offset \in Offset :
        /\ ValidPage(limit, offset)
        /\ walk' = [walk EXCEPT ![r] = [NoWalk EXCEPT !.on = TRUE,
                                          !.limit = Given(limit, defaultPortsLimit),
                                          !.offset = Given(offset, 0),
                                          !.from = Given(offset, 0)]]
  BY DEF FirstPage
<1> DEFINE w == [NoWalk EXCEPT !.on = TRUE, !.limit = Given(limit, defaultPortsLimit),
                               !.offset = Given(offset, 0), !.from = Given(offset, 0)]
<1>2. w \in WalkState /\ w.offset = w.from /\ w.seen = <<>>
  BY <1>1, GivenType, NoWalkSound DEF WalkState, NoWalk
<1>3. PICK x : Becomes(r, x) /\ x.query = q /\ x.log = l /\ x.at # "idle"
  BY AskBecomes DEF FirstPage, PageInv, Paged, Query
<1>4. walk' = [walk EXCEPT ![r] = w]
  BY <1>1
<1> HIDE DEF w
<1>5. WalkSound(x, w)
  BY <1>2, <1>3 DEF WalkSound
<1> QED
  BY <1>3, <1>4, <1>5, WalkBecomes

\* A page of a list that goes on behind it.
LEMMA NextPageOf ==
  ASSUME NEW L \in Seq(Row), NEW w \in WalkState, NEW q \in Seq(Row),
         q = L, w.offset + w.limit < Len(L)
  PROVE  /\ paginatePorts(q, w.limit, w.offset) =
              SubSeq(L, w.offset + 1, w.offset + w.limit)
         /\ w.from = w.offset \/ w.from < w.offset =>
              SubSeq(L, w.from + 1, w.offset) \o SubSeq(L, w.offset + 1, w.offset + w.limit)
                = SubSeq(L, w.from + 1, w.offset + w.limit)
<1>1. w.offset \in Nat /\ w.from \in Nat /\ w.limit \in Nat \ {0} /\ Len(L) \in Nat
  BY DEF WalkState
<1>2. paginatePorts(q, w.limit, w.offset) = SubSeq(L, w.offset + 1, w.offset + w.limit)
  <2>1. ~ (w.offset >= Len(q)) /\ ~ (w.offset + w.limit > Len(q))
    BY <1>1
  <2> QED
    BY <2>1 DEF paginatePorts
<1>3. ASSUME w.from = w.offset \/ w.from < w.offset
      PROVE  SubSeq(L, w.from + 1, w.offset) \o SubSeq(L, w.offset + 1, w.offset + w.limit)
               = SubSeq(L, w.from + 1, w.offset + w.limit)
  <2>1. /\ w.from + 1 \in 1 .. Len(L) + 1 /\ w.offset \in (w.from + 1) - 1 .. Len(L)
        /\ w.offset + w.limit \in w.offset .. Len(L)
    BY <1>1, <1>3
  <2> QED
    BY <2>1, ConcatAdjacentSubSeq
<1> QED
  BY <1>2, <1>3

\* What a reader that answers with ports got is its list, if that was not empty.
LEMMA GotTheList ==
  ASSUME ReadInv, NEW r \in Reader, Answered(r, "ports") \/ Answered(r, "nodePorts")
  PROVE  /\ read[r].log \in LogId /\ read[r].got["ports"] \in Seq(Row)
         /\ \/ read[r].got["ports"] = ListOf(read[r])
            \/ /\ read[r].query = "ports" /\ read[r].got["ports"] = <<>>
               /\ SeenLog(read[r]) /\ read[r].gotLog.status # "parsed"
<1> DEFINE x == read[r]
<1>1. ReaderSound(x) /\ x.answer = "ok" /\ x.query \in {"ports", "nodePorts"}
  BY DEF ReadInv, Answered
<1>2. x.got["ports"] \in Seq(Row)
  BY <1>1 DEF ReaderSound, ReadState, Table
<1>3. CASE x.query = "ports"
  BY <1>1, <1>2, <1>3 DEF ReaderSound, LogStillTrue, ListStillTrue, SeenLog, ListOf
<1>4. CASE x.query = "nodePorts"
  BY <1>1, <1>2, <1>4 DEF ReaderSound, NodeStillTrue, OfANode, ListOf
<1> QED
  BY <1>1, <1>3, <1>4

LEMMA NextPageReads ==
  ASSUME ReadInv, NEW r \in Reader, NextPage(r), UNCHANGED vars
  PROVE  ReadInv'
<1> DEFINE x == NotReading(read[r].guid)
           y == [x EXCEPT !.query = read[r].query, !.log = read[r].log,
                          !.at = IF read[r].query \in OfANode THEN "node" ELSE "log"]
<1>1. read[r] \in ReadState /\ read[r].log \in LogId /\ read[r].query \in {"ports", "nodePorts"}
  BY GotTheList DEF ReadInv, ReaderSound, NextPage, Answered
<1>2. x \in ReadState /\ x.answer = "none" /\ x.gotLog = NoLog /\ x.got = EmptyRows
  BY <1>1, NotReadingSound DEF ReaderSound, NotReading, ReadState
<1>3. /\ y \in ReadState /\ y.answer = "none" /\ y.query = read[r].query /\ y.log = read[r].log
      /\ y.at = IF read[r].query \in OfANode THEN "node" ELSE "log"
      /\ y.gotLog = NoLog /\ y.got = EmptyRows
  BY <1>1, <1>2 DEF ReadState
<1>4. Becomes(r, y)
  BY DEF NextPage
<1> HIDE DEF y
<1>5. ReaderSound(y)
  BY <1>1, <1>3 DEF ReaderSound, OnItsWay, Told, SeenLog, LogStillTrue, SnapshotStillTrue,
    ReadFromSnapshot, ListStillTrue, NodeStillTrue, OfANode
<1> QED
  BY <1>4, <1>5, BecomesSound

LEMMA NextPageSound ==
  ASSUME PageInv, ReadInv', NEW r \in Reader, NextPage(r), UNCHANGED vars
  PROVE  PageInv'
<1> DEFINE x == NotReading(read[r].guid)
           y == [x EXCEPT !.query = read[r].query, !.log = read[r].log,
                          !.at = IF read[r].query \in OfANode THEN "node" ELSE "log"]
           w == walk[r]
           v == [w EXCEPT !.seen = @ \o Page(r), !.offset = @ + w.limit]
           L == ListOf(read[r])
           q == read[r].got["ports"]
<1>1. /\ ReadInv /\ WalkSound(read[r], w) /\ w \in WalkState /\ read[r] \in ReadState
      /\ w.on /\ read[r].query \in Paged /\ read[r].answer = "ok"
      /\ Answered(r, "ports") \/ Answered(r, "nodePorts")
  BY DEF PageInv, ReadInv, ReaderSound, NextPage, WalkSound, IsPaged, Answered
<1>2. /\ y.query = read[r].query /\ y.log = read[r].log /\ y.guid = read[r].guid
      /\ y.at \in {"node", "log"} /\ y.answer = "none"
  BY DEF NotReading
<1>3. /\ Becomes(r, y) /\ walk' = [walk EXCEPT ![r] = v]
  BY DEF NextPage, PageInv
<1> HIDE DEF x, y
<1>4. /\ w.limit \in Nat \ {0} /\ w.offset \in Nat /\ w.from \in Nat /\ w.seen \in Seq(Row)
  BY <1>1 DEF WalkState
<1>5. q \in Seq(Row) /\ w.offset + w.limit < Len(q)
  <2>1. q \in Seq(Row)
    BY <1>1, GotTheList
  <2>2. Len(q) \in Nat /\ ~ (w.offset + w.limit >= Len(q))
    BY <2>1 DEF NextPage, IsLastPage, Total
  <2>3. w.offset + w.limit \in Nat
    BY <1>4
  <2> HIDE DEF q, w
  <2> QED
    BY <2>1, <2>2, <2>3
<1>6. L \in Seq(Row) /\ q = L /\ read[r].log \in LogId
  <2>1. q # <<>>
    BY <1>4, <1>5
  <2> QED
    BY <1>1, <2>1, GotTheList, ListOfType
<1>7. Page(r) = SubSeq(L, w.offset + 1, w.offset + w.limit)
  BY <1>1, <1>5, <1>6, NextPageOf DEF Page
<1>8. (w.from = w.offset \/ w.from < w.offset) /\ w.seen = SubSeq(L, w.from + 1, w.offset)
  <2>1. CASE w.offset = w.from /\ w.seen = <<>>
    BY <1>4, <2>1, SubSeqEmpty
  <2>2. CASE w.from < w.offset /\ w.seen = SubSeq(L, w.from + 1, w.offset)
    BY <2>2
  <2> QED
    BY <1>1, <1>6, <2>1, <2>2 DEF WalkSound, LogId
<1>9. w.seen \o Page(r) = SubSeq(L, w.from + 1, w.offset + w.limit)
  <2> HIDE DEF L, w, q
  <2>1. SubSeq(L, w.from + 1, w.offset) \o SubSeq(L, w.offset + 1, w.offset + w.limit)
          = SubSeq(L, w.from + 1, w.offset + w.limit)
    BY <1>1, <1>5, <1>6, <1>8, NextPageOf
  <2> QED
    BY <1>7, <1>8, <2>1, Zenon
<1>10. /\ v.on = w.on /\ v.limit = w.limit /\ v.from = w.from
       /\ v.offset = w.offset + w.limit /\ v.seen = w.seen \o Page(r)
  BY <1>1 DEF WalkState
<1>11. v \in WalkState
  <2>1. Page(r) \in Seq(Row)
    <3>1. \A i \in w.offset + 1 .. w.offset + w.limit : L[i] \in Row
      BY <1>4, <1>5, <1>6
    <3>2. w.offset + 1 \in Int /\ w.offset + w.limit \in Int
      BY <1>4
    <3> HIDE DEF L
    <3> QED
      BY <1>7, <3>1, <3>2, SubSeqProperties
  <2>2. w.seen \o Page(r) \in Seq(Row) /\ w.offset + w.limit \in Nat
    BY <1>4, <2>1
  <2> QED
    BY <1>1, <2>2 DEF WalkState
<1> HIDE DEF v
<1>12. ListOf(y) = L
  BY <1>2 DEF ListOf
<1>13. WalkSound(y, v)
  <2>1. v.from < v.offset /\ v.offset < Len(L)
    <3>1. v.offset < Len(L) /\ v.from = w.from /\ v.offset = w.offset + w.limit
      BY <1>5, <1>6, <1>10
    <3> HIDE DEF w, L
    <3> QED
      BY <1>4, <1>8, <3>1
  <2>2. v.seen = SubSeq(L, v.from + 1, v.offset)
    BY <1>9, <1>10
  <2>3. ~ SeenLog(y)
    BY <1>2 DEF SeenLog
  <2> HIDE DEF L
  <2> QED
    BY <1>1, <1>2, <1>10, <1>11, <1>12, <2>1, <2>2, <2>3 DEF WalkSound
<1> QED
  BY <1>3, <1>13, WalkBecomes

LEMMA RefusePageReads ==
  ASSUME ReadInv, NEW r \in Reader, NEW q \in Paged, RefusePage(r, q), UNCHANGED vars
  PROVE  ReadInv'
<1> DEFINE x == [read[r] EXCEPT !.query = q]
<1>1. read[r] \in ReadState /\ read[r].log = 0 /\ q \in Query /\ q # "none"
  BY DEF ReadInv, ReaderSound, Told, RefusePage, Paged, Query
<1>2. x \in ReadState /\ x.log = 0 /\ x.query = q
  BY <1>1 DEF ReadState
<1>3. AnswerRead(r, x, "ErrBadArguments")
  BY DEF RefusePage
<1> HIDE DEF x
<1> QED
  BY <1>1, <1>2, <1>3, FailedReadSound

LEMMA RefusePageSound ==
  ASSUME PageInv, ReadInv', NEW r \in Reader, NEW q \in Paged, RefusePage(r, q), UNCHANGED vars
  PROVE  PageInv'
BY NoWalkStep DEF RefusePage, AnswerRead

LEMMA ReturnReads ==
  ASSUME ReadInv, NEW r \in Reader, ReadReturn(r), UNCHANGED vars
  PROVE  ReadInv'
BY ReadStepSound DEF ReadStep

LEMMA PageStepSound ==
  ASSUME PageInv, NEW r \in Reader, PageStep(r), UNCHANGED vars
  PROVE  PageInv'
<1>0. ReadInv
  BY DEF PageInv
<1>1. ASSUME ReadWork(r), UNCHANGED walk PROVE PageInv'
  <2>1. ReadInv'
    BY <1>0, <1>1, ReadStepSound DEF ReadStep
  <2> QED
    BY <1>1, <2>1, WorkKeepsWalks
<1>2. ASSUME NEW q \in Query \ Paged, NEW l \in LogId \cup {0}, NEW g \in GUID,
             Ask(r, q, l, g), UNCHANGED walk
      PROVE  PageInv'
  <2>1. ReadInv'
    BY <1>0, <1>2, AskSound
  <2>2. ~ walk[r].on
    BY <1>2 DEF PageInv, WalkSound, Ask
  <2>3. PICK x : Becomes(r, x)
    BY <1>0, <1>2, AskBecomes
  <2> QED
    BY <1>2, <2>1, <2>2, <2>3, NoWalkStep
<1>3. ASSUME NEW q \in Paged, NEW l \in LogId \cup {0}, NEW g \in GUID, FirstPage(r, q, l, g)
      PROVE  PageInv'
  <2>1. ReadInv'
    BY <1>0, <1>3, AskSound DEF FirstPage, Paged, Query
  <2> QED
    BY <1>3, <2>1, FirstPageSound
<1>4. ASSUME NEW q \in Paged, RefusePage(r, q) PROVE PageInv'
  BY <1>0, <1>4, RefusePageReads, RefusePageSound
<1>5. ASSUME NextPage(r) PROVE PageInv'
  BY <1>0, <1>5, NextPageReads, NextPageSound
<1>6. ASSUME EndWalk(r) PROVE PageInv'
  BY <1>0, <1>6, ReturnReads, NoWalkStep DEF EndWalk, ReadReturn
<1>7. ASSUME ~ walk[r].on, ReadReturn(r), UNCHANGED walk PROVE PageInv'
  BY <1>0, <1>7, ReturnReads, NoWalkStep DEF ReadReturn
<1> QED
  BY <1>1, <1>2, <1>3, <1>4, <1>5, <1>6, <1>7 DEF PageStep

LEMMA PageNextSound ==
  ASSUME PageInv, [PageNext]_pageVars
  PROVE  PageInv'
<1>1. CASE UNCHANGED pageVars
  BY <1>1, WritersKeepWalks DEF pageVars, readVars, vars
<1>2. CASE Next /\ UNCHANGED <<read, walk>>
  BY <1>2, WritersKeepWalks
<1>3. CASE \E r \in Reader : PageStep(r) /\ UNCHANGED vars
  BY <1>3, PageStepSound
<1> QED
  BY <1>1, <1>2, <1>3 DEF PageNext

LEMMA PageInvariant == PageSpec => []PageInv
BY PageInitSound, PageNextSound, PTL DEF PageSpec

\* The last page ends where the list does.
LEMMA LastPageOf ==
  ASSUME NEW L \in Seq(Row), NEW w \in WalkState, w.offset + w.limit >= Len(L)
  PROVE  paginatePorts(L, w.limit, w.offset) = SubSeq(L, w.offset + 1, Len(L))
<1>1. w.offset \in Nat /\ w.limit \in Nat \ {0} /\ Len(L) \in Nat
  BY DEF WalkState
<1>2. CASE w.offset >= Len(L)
  <2>1. SubSeq(L, w.offset + 1, Len(L)) = <<>>
    BY <1>1, <1>2, SubSeqEmpty
  <2> QED
    BY <1>2, <2>1 DEF paginatePorts
<1>3. CASE ~ (w.offset >= Len(L))
  <2>1. (IF w.offset + w.limit > Len(L) THEN Len(L) ELSE w.offset + w.limit) = Len(L)
    BY <1>1
  <2> QED
    BY <1>3, <2>1 DEF paginatePorts
<1> QED
  BY <1>2, <1>3

LEMMA PagesSound == PageInv => PagesMakeTheList
<1> SUFFICES ASSUME PageInv, NEW r \in Reader, IsPaged(r), read[r].at = "done",
                    read[r].answer = "ok", IsLastPage(r)
             PROVE  LET collected == walk[r].seen \o Page(r)
                    IN \/ collected = SubSeq(Listed(r), walk[r].from + 1, Len(Listed(r)))
                       \/ collected = <<>> /\ read[r].gotLog.status # "parsed"
  BY DEF PagesMakeTheList
<1> DEFINE w == walk[r]
           L == ListOf(read[r])
           q == read[r].got["ports"]
<1>1. /\ ReadInv /\ WalkSound(read[r], w) /\ w \in WalkState /\ w.on
      /\ Answered(r, "ports") \/ Answered(r, "nodePorts")
  BY DEF PageInv, IsPaged, Paged, Answered, WalkSound
<1>2. Listed(r) = L
  BY DEF Listed, ListOf
<1>3. /\ w.limit \in Nat \ {0} /\ w.offset \in Nat /\ w.from \in Nat /\ w.seen \in Seq(Row)
  BY <1>1 DEF WalkState
<1>4. read[r].log \in LogId /\ read[r].log # 0 /\ q \in Seq(Row) /\ L \in Seq(Row)
  BY <1>1, GotTheList, ListOfType DEF LogId
<1>5. w.offset + w.limit >= Len(q)
  BY DEF IsLastPage, Total
<1>6. \/ w.offset = w.from /\ w.seen = <<>>
      \/ /\ w.from < w.offset /\ w.offset < Len(L) /\ w.seen = SubSeq(L, w.from + 1, w.offset)
         /\ SeenLog(read[r]) => read[r].gotLog.status = "parsed"
  BY <1>1, <1>4 DEF WalkSound
<1>7. CASE q = L
  <2>1. Page(r) = SubSeq(L, w.offset + 1, Len(L))
    <3> HIDE DEF L, q, w
    <3> QED
      BY <1>1, <1>4, <1>5, <1>7, LastPageOf DEF Page, q, w
  <2>2. CASE w.offset = w.from /\ w.seen = <<>>
    <3>1. Page(r) \in Seq(Row)
      <4>1. \A i \in w.offset + 1 .. Len(L) : L[i] \in Row
        BY <1>3, <1>4
      <4>2. w.offset + 1 \in Int /\ Len(L) \in Int
        BY <1>3, <1>4
      <4> HIDE DEF L
      <4> QED
        BY <2>1, <4>1, <4>2, SubSeqProperties
    <3>2. w.seen \o Page(r) = Page(r)
      BY <2>2, <3>1
    <3> QED
      BY <1>2, <2>1, <2>2, <3>2
  <2>3. CASE /\ w.from < w.offset /\ w.offset < Len(L)
             /\ w.seen = SubSeq(L, w.from + 1, w.offset)
    <3>1. /\ w.from + 1 \in 1 .. Len(L) + 1 /\ w.offset \in (w.from + 1) - 1 .. Len(L)
          /\ Len(L) \in w.offset .. Len(L)
      <4>1. Len(L) \in Nat
        BY <1>4
      <4> HIDE DEF L, w
      <4> QED
        BY <1>3, <2>3, <4>1
    <3> HIDE DEF L
    <3>2. w.seen \o Page(r) = SubSeq(L, w.from + 1, Len(L))
      BY <1>4, <2>1, <2>3, <3>1, ConcatAdjacentSubSeq
    <3> QED
      BY <1>2, <3>2
  <2> QED
    BY <1>6, <2>2, <2>3
<1>8. CASE q # L
  <2>1. q = <<>> /\ SeenLog(read[r]) /\ read[r].gotLog.status # "parsed"
    BY <1>1, <1>8, GotTheList
  <2>2. w.seen = <<>>
    BY <1>6, <2>1
  <2>3. Page(r) = <<>>
    BY <1>3, <2>1 DEF Page, paginatePorts
  <2> QED
    BY <2>1, <2>2, <2>3
<1> QED
  BY <1>7, <1>8

-----------------------------------------------------------------------------
\* The locals of every reading method keep their types, next to any writers.
THEOREM ReadTypeCorrect == ReadSpec => []ReadTypeOK
BY ReadInvariant, ReadInvImplies, PTL

\* However many writers race, GetTopologyData hands out one state of the
\* database: whole data with a parsed log, none with any other.  A topology is
\* built of a parsed log only, and of what every later request will see for it.
THEOREM SnapshotCorrect == ReadSpec => []TopologyDataIsSnapshot
BY ReadInvariant, ReadInvImplies, PTL

\* A list of nodes or ports, made with two calls and no transaction, is all of
\* the log's rows, or none of a log that was not parsed.
THEOREM ListsCorrect == ReadSpec => []ListsAreAllOrNothing
BY ReadInvariant, ReadInvImplies, PTL

\* The status of a GET is true of what the database said: 404 that nothing was
\* there, 409 that the log was there and not parsed, 500 and 503 that a
\* statement or a service failed.
THEOREM StatusCorrect == ReadSpec => []HttpStatusIsTrue
BY ReadInvariant, StatusSound, PTL

\* The node, the info and the ports that GetNode and GetPortsByNode read one
\* after the other are those of one state of the log, and the node is one.
THEOREM NodesCorrect == ReadSpec => []NodeBelongsTogether
BY ReadInvariant, NodesSound, PTL

\* For all limits, offsets and lists of ports: the pages that a client collects
\* make up the list, although each is cut out of a list that was read anew.
THEOREM PagesCorrect == PageSpec => []PagesMakeTheList
BY PageInvariant, PagesSound, PTL

\* A client that pages sends its requests differently from one that does not
\* (the next page is asked for at once); what holds of all readers holds of it.
THEOREM PagesReadSoundly ==
  PageSpec => [](/\ ReadTypeOK /\ TopologyDataIsSnapshot /\ ListsAreAllOrNothing
                 /\ HttpStatusIsTrue /\ NodeBelongsTogether)
<1>1. PageInv => /\ ReadTypeOK /\ TopologyDataIsSnapshot /\ ListsAreAllOrNothing
                 /\ HttpStatusIsTrue /\ NodeBelongsTogether
  BY ReadInvImplies, StatusSound, NodesSound DEF PageInv
<1> QED
  BY <1>1, PageInvariant, PTL
=============================================================================
