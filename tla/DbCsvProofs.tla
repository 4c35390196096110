---------------------------- MODULE DbCsvProofs ----------------------------
(***************************************************************************)
(* Proofs about DbCsv, for files of any number of rows.  LastMarker and    *)
(* HeaderOf choose a greatest and a least position; that there is one is   *)
(* part of the invariant, so that no induction over the rows is needed     *)
(* but that over the steps of the scan.                                    *)
(***************************************************************************)
EXTENDS DbCsv, TLAPS

Items(seq) == {seq[j] : j \in DOMAIN seq}

ScanTypeOK ==
  /\ rows \in Seq(Row)
  /\ header \in Nat
  /\ records \in Seq(Nat)
  /\ sections \in Seq([name : Name, header : Nat, records : Seq(Nat)])
  /\ current \in Name \cup {NoName}

\* The position the scan is at.
Here == Len(rows) + 1

LastIs(k, m) ==
  \/ m = 0 /\ \A j \in Markers : ~ (j < k)
  \/ m \in Markers /\ m < k /\ \A j \in Markers : j < k => j <= m

HeadIs(k, h) ==
  /\ h \in DataRows /\ LastMarker(h) = LastMarker(k)
  /\ \A j \in DataRows : LastMarker(j) = LastMarker(k) => h <= j

\* The choices that the properties speak of can be made.
Chosen ==
  /\ \A k \in 1 .. Here : LastMarker(k) \in Nat /\ LastIs(k, LastMarker(k))
  /\ \A k \in DataRows : HeadIs(k, HeaderOf(k))

\* The data rows after marker m.
After(m) == {k \in DataRows : LastMarker(k) = m}

\* What the scan knows of the section it is in.
OpenSection ==
  LET open == After(LastMarker(Here))
  IN /\ IF Inside(Here) THEN current = rows[LastMarker(Here)].name ELSE current = NoName
     /\ current = NoName => header = 0
     /\ header = 0 => open = {} /\ records = <<>>
     /\ header # 0 => /\ header \in open /\ \A j \in open : header <= j
                      /\ Items(records) = open \ {header}

\* What was flushed are whole sections, each of them once.
Flushed ==
  /\ \A s \in DOMAIN sections :
       LET m == LastMarker(sections[s].header)
       IN /\ sections[s].header \in DataRows /\ m # LastMarker(Here)
          /\ sections[s].header = HeaderOf(sections[s].header)
          /\ sections[s].name = rows[m].name
          /\ Items(sections[s].records) = After(m) \ {sections[s].header}
  /\ \A s, t \in DOMAIN sections :
       LastMarker(sections[s].header) = LastMarker(sections[t].header) => s = t

\* A row of a section that is closed was filed, unless it is the header.
Filed ==
  \A k \in DataRows : LastMarker(k) # LastMarker(Here) /\ k # HeaderOf(k) =>
    \E s \in DOMAIN sections : k \in Items(sections[s].records)

\* No error so far.
NoError ==
  /\ \A k \in DataRows : rows[k].width <= rows[HeaderOf(k)].width
  /\ \A k \in Markers : Closes(k)

ScanInv == Chosen /\ OpenSection /\ Flushed /\ Filed /\ NoError

DbInv ==
  /\ ScanTypeOK
  /\ outcome = "reading" => ScanInv
  /\ outcome # "reading" => RecordsUnderTheirHeader /\ ErrorsAreJustified

-----------------------------------------------------------------------------
LEMMA RowType ==
  ASSUME NEW row \in Row
  PROVE  /\ row.type \in {"start", "end", "meta", "row"}
         /\ row.width \in Nat
         /\ row.type \in {"start", "end"} => row.name \in Name
<1>1. 1 .. MaxWidth \subseteq Nat /\ {1} \subseteq Nat
  BY BoundsAssumption
<1>2. CASE row \in [type : {"start", "end"}, name : Name, width : {1}]
  BY <1>1, <1>2
<1>3. CASE row \in [type : {"meta"}, name : {NoName}, width : {1}]
  BY <1>1, <1>3
<1>4. CASE row \in [type : {"row"}, name : {NoName}, width : 1 .. MaxWidth]
  BY <1>1, <1>4
<1> QED
  BY <1>2, <1>3, <1>4 DEF Row

\* A greatest element is the one that is chosen.
LEMMA Greatest ==
  ASSUME NEW M \in SUBSET Nat, NEW k, NEW m,
         \/ m = 0 /\ \A j \in M : ~ (j < k)
         \/ m \in M /\ m < k /\ \A j \in M : j < k => j <= m
  PROVE  m = LET before == {j \in M : j < k}
             IN IF before = {} THEN 0 ELSE CHOOSE x \in before : \A j \in before : j <= x
<1> DEFINE before == {j \in M : j < k}
           last == CHOOSE x \in before : \A j \in before : j <= x
<1>1. CASE \A j \in M : ~ (j < k)
  BY <1>1
<1>2. CASE m \in M /\ m < k /\ \A j \in M : j < k => j <= m
  <2>1. m \in before /\ \A j \in before : j <= m
    BY <1>2
  <2>2. \A x \in before : (\A j \in before : j <= x) => x = m
    BY <2>1
  <2>3. last = m
    BY <2>1, <2>2
  <2> QED
    BY <2>1, <2>3
<1> QED
  BY <1>1, <1>2

LEMMA LastIsLast ==
  ASSUME Markers \subseteq Nat, NEW k, NEW m, LastIs(k, m)
  PROVE  LastMarker(k) = m
<1>1. m = LET before == {j \in Markers : j < k}
          IN IF before = {} THEN 0 ELSE CHOOSE x \in before : \A j \in before : j <= x
  BY Greatest DEF LastIs
<1> QED
  BY <1>1 DEF LastMarker

LEMMA LastIsLastNext ==
  ASSUME Markers' \subseteq Nat, NEW k, NEW m, LastIs(k, m)'
  PROVE  LastMarker(k)' = m
<1>1. m = LET before == {j \in Markers' : j < k}
          IN IF before = {} THEN 0 ELSE CHOOSE x \in before : \A j \in before : j <= x
  BY Greatest DEF LastIs
<1> QED
  BY <1>1 DEF LastMarker

LEMMA HeadIsHead ==
  ASSUME DataRows \subseteq Nat, NEW k, NEW h, HeadIs(k, h)
  PROVE  HeaderOf(k) = h
<1> DEFINE P(x) == /\ LastMarker(x) = LastMarker(k)
                   /\ \A j \in DataRows : LastMarker(j) = LastMarker(k) => x <= j
<1>1. h \in DataRows /\ P(h)
  BY DEF HeadIs
<1>2. \A x \in DataRows : P(x) => x = h
  BY <1>1
<1>3. HeaderOf(k) = CHOOSE x \in DataRows : P(x)
  BY DEF HeaderOf
<1> QED
  BY <1>1, <1>2, <1>3

LEMMA HeadIsHeadNext ==
  ASSUME DataRows' \subseteq Nat, NEW k, NEW h, HeadIs(k, h)'
  PROVE  HeaderOf(k)' = h
<1> DEFINE P(x) == /\ LastMarker(x)' = LastMarker(k)'
                   /\ \A j \in DataRows' : LastMarker(j)' = LastMarker(k)' => x <= j
<1>1. h \in DataRows' /\ P(h)
  BY DEF HeadIs
<1>2. \A x \in DataRows' : P(x) => x = h
  BY <1>1
<1>3. HeaderOf(k)' = CHOOSE x \in DataRows' : P(x)
  BY DEF HeaderOf
<1> QED
  BY <1>1, <1>2, <1>3

-----------------------------------------------------------------------------
(***************************************************************************)
(* One more row.                                                           *)
(***************************************************************************)
NewMarker(row, n) == IF row.type \in {"start", "end"} THEN {n} ELSE {}

\* n is the position of the new row.
LEMMA MarkersGrow ==
  ASSUME rows \in Seq(Row), Chosen, NEW row \in Row, rows' = Append(rows, row), NEW n, n = Here
  PROVE  /\ n \in Nat \ {0} /\ Here' = n + 1
         /\ DOMAIN rows = 1 .. n - 1 /\ DOMAIN rows' = 1 .. n
         /\ rows'[n] = row /\ \A k \in 1 .. n - 1 : rows'[k] = rows[k]
         /\ Markers \subseteq 1 .. n - 1 /\ Markers' = Markers \cup NewMarker(row, n)
         /\ \A k \in 1 .. n : LastMarker(k)' = LastMarker(k)
         /\ LastMarker(n + 1)' = IF row.type \in {"start", "end"} THEN n ELSE LastMarker(n)
         /\ \A k \in 1 .. n + 1 : (LastMarker(k) \in Nat /\ LastIs(k, LastMarker(k)))'
<1>1. /\ n \in Nat \ {0} /\ Here' = n + 1
      /\ DOMAIN rows = 1 .. n - 1 /\ DOMAIN rows' = 1 .. n
      /\ rows'[n] = row /\ \A k \in 1 .. n - 1 : rows'[k] = rows[k]
      /\ rows' \in Seq(Row)
  BY DEF Here
<1>2. /\ Markers = {k \in 1 .. n - 1 : rows[k].type \in {"start", "end"}}
      /\ Markers' = {k \in 1 .. n : rows'[k].type \in {"start", "end"}}
  BY <1>1 DEF Markers
<1>3. Markers \subseteq 1 .. n - 1 /\ Markers' = Markers \cup NewMarker(row, n)
  BY <1>1, <1>2 DEF NewMarker
<1>4. \A k \in 1 .. n : LastIs(k, LastMarker(k)) /\ LastMarker(k) \in Nat
  BY DEF Chosen
<1>5. Markers' \subseteq Nat
  BY <1>1, <1>3 DEF NewMarker
<1>6. ASSUME NEW k \in 1 .. n
      PROVE  LastIs(k, LastMarker(k))' /\ LastMarker(k)' = LastMarker(k) /\ LastMarker(k) \in Nat
  <2>1. LastIs(k, LastMarker(k)) /\ LastMarker(k) \in Nat
    BY <1>4, <1>6
  <2>2. ~ (n < k) /\ k \in Nat
    BY <1>1, <1>6
  <2>3. PICK m : m = LastMarker(k)
    OBVIOUS
  <2>4. LastIs(k, m)'
    BY <1>1, <1>3, <2>1, <2>2, <2>3 DEF LastIs, NewMarker
  <2>5. LastMarker(k)' = m
    BY <1>5, <2>4, LastIsLastNext
  <2> QED
    BY <2>1, <2>3, <2>4, <2>5
<1>7. PICK m \in Nat : m = IF row.type \in {"start", "end"} THEN n ELSE LastMarker(n)
  BY <1>1, <1>4
<1>8. LastIs(n + 1, m)'
  <2>1. CASE row.type \in {"start", "end"}
    <3>1. m = n /\ Markers' = Markers \cup {n} /\ n < n + 1
      BY <1>1, <1>3, <1>7, <2>1 DEF NewMarker
    <3>2. \A j \in Markers' : j <= n
      BY <1>1, <1>3, <3>1
    <3> QED
      BY <3>1, <3>2 DEF LastIs
  <2>2. CASE row.type \notin {"start", "end"}
    <3>1. m = LastMarker(n) /\ Markers' = Markers /\ LastIs(n, m)
      BY <1>1, <1>3, <1>4, <1>7, <2>2 DEF NewMarker
    <3>2. \A j \in Markers : j < n + 1 /\ j < n
      BY <1>1, <1>3
    <3> QED
      BY <1>1, <3>1, <3>2 DEF LastIs
  <2> QED
    BY <2>1, <2>2
<1>9. LastMarker(n + 1)' = m
  BY <1>5, <1>8, LastIsLastNext
<1>10. ASSUME NEW k \in 1 .. n + 1
       PROVE  (LastMarker(k) \in Nat /\ LastIs(k, LastMarker(k)))'
  <2>1. k \in 1 .. n \/ k = n + 1
    BY <1>1
  <2> QED
    BY <1>6, <1>7, <1>8, <1>9, <2>1
<1> QED
  BY <1>1, <1>3, <1>6, <1>7, <1>9, <1>10

NewData(row, n) == IF row.type = "row" /\ Inside(n) THEN {n} ELSE {}

LEMMA LastIsMarker ==
  ASSUME rows \in Seq(Row), Chosen, NEW k \in 1 .. Here
  PROVE  /\ LastMarker(k) \in Nat /\ LastMarker(k) < k
         /\ LastMarker(k) # 0 => LastMarker(k) \in Markers /\ LastMarker(k) \in 1 .. Here - 1
<1>1. Here \in Nat \ {0} /\ Markers \subseteq 1 .. Here - 1
  BY DEF Here, Markers
<1>2. LastMarker(k) \in Nat /\ LastIs(k, LastMarker(k))
  BY DEF Chosen
<1> QED
  BY <1>1, <1>2 DEF LastIs

LEMMA RowsGrow ==
  ASSUME rows \in Seq(Row), Chosen, NEW row \in Row, rows' = Append(rows, row), NEW n, n = Here
  PROVE  /\ \A k \in 1 .. n : Inside(k)' = Inside(k)
         /\ Inside(n + 1)' = IF row.type \in {"start", "end"}
                               THEN row.type = "start" /\ row.name # NoName ELSE Inside(n)
         /\ DataRows \subseteq 1 .. n - 1 /\ DataRows' = DataRows \cup NewData(row, n)
         /\ \A k \in 1 .. n - 1 : Closes(k)' = Closes(k)
<1>1. /\ n \in Nat \ {0} /\ Here' = n + 1
      /\ DOMAIN rows = 1 .. n - 1 /\ DOMAIN rows' = 1 .. n
      /\ rows'[n] = row /\ \A k \in 1 .. n - 1 : rows'[k] = rows[k]
      /\ \A k \in 1 .. n : LastMarker(k)' = LastMarker(k)
      /\ LastMarker(n + 1)' = IF row.type \in {"start", "end"} THEN n ELSE LastMarker(n)
  BY MarkersGrow
<1>2. \A k \in 1 .. n : LastMarker(k) # 0 => LastMarker(k) \in 1 .. n - 1
  BY LastIsMarker
<1>3. \A k \in 1 .. n : Inside(k)' = Inside(k)
  BY <1>1, <1>2 DEF Inside
<1>4. Inside(n + 1)' = IF row.type \in {"start", "end"}
                         THEN row.type = "start" /\ row.name # NoName ELSE Inside(n)
  <2>1. CASE row.type \in {"start", "end"}
    BY <1>1, <2>1 DEF Inside
  <2>2. CASE row.type \notin {"start", "end"}
    <3>1. LastMarker(n + 1)' = LastMarker(n) /\ n \in 1 .. n
      BY <1>1, <2>2
    <3> QED
      BY <1>1, <1>2, <2>2, <3>1 DEF Inside
  <2> QED
    BY <2>1, <2>2
<1>5. DataRows = {k \in 1 .. n - 1 : rows[k].type = "row" /\ Inside(k)}
  BY <1>1 DEF DataRows
<1>6. DataRows' = {k \in 1 .. n : rows'[k].type = "row" /\ Inside(k)'}
  BY <1>1 DEF DataRows
<1>7. DataRows' = DataRows \cup NewData(row, n)
  <2>1. \A k \in 1 .. n : k \in 1 .. n - 1 \/ k = n
    BY <1>1
  <2>2. n \in 1 .. n /\ n \notin 1 .. n - 1 /\ \A k \in 1 .. n - 1 : k \in 1 .. n
    BY <1>1
  <2> QED
    BY <1>1, <1>3, <1>5, <1>6, <2>1, <2>2 DEF NewData
<1>8. ASSUME NEW k \in 1 .. n - 1
      PROVE  Closes(k)' = Closes(k)
  <2>1. k \in 1 .. n
    BY <1>1
  <2> QED
    BY <1>1, <1>2, <1>3, <2>1 DEF Closes, Inside
<1> QED
  BY <1>3, <1>4, <1>5, <1>7, <1>8

\* A new row does not change which row is the header of a section.
LEMMA HeadersStay ==
  ASSUME rows \in Seq(Row), Chosen, NEW row \in Row, rows' = Append(rows, row), NEW n, n = Here
  PROVE  /\ \A m : After(m)' = After(m) \cup (IF m = LastMarker(n) THEN NewData(row, n) ELSE {})
         /\ \A k \in DataRows : HeaderOf(k) \in DataRows /\ HeaderOf(k)' = HeaderOf(k)
         /\ n \in DataRows' => \/ HeaderOf(n)' = n /\ After(LastMarker(n)) = {}
                            \/ HeaderOf(n)' \in After(LastMarker(n))
         /\ Chosen'
<1>1. /\ n \in Nat \ {0} /\ Here' = n + 1
      /\ \A k \in 1 .. n : LastMarker(k)' = LastMarker(k)
      /\ \A k \in 1 .. n + 1 : (LastMarker(k) \in Nat /\ LastIs(k, LastMarker(k)))'
  BY MarkersGrow
<1>2. DataRows \subseteq 1 .. n - 1 /\ DataRows' = DataRows \cup NewData(row, n)
  BY RowsGrow
<1>3. NewData(row, n) \subseteq {n} /\ DataRows' \subseteq 1 .. n /\ DataRows' \subseteq Nat
      /\ \A k \in DataRows : k <= n
  BY <1>1, <1>2 DEF NewData
<1>4. \A k \in DataRows' : LastMarker(k)' = LastMarker(k)
  BY <1>1, <1>3
<1>5. ASSUME NEW m
      PROVE  After(m)' = After(m) \cup (IF m = LastMarker(n) THEN NewData(row, n) ELSE {})
  BY <1>2, <1>3, <1>4 DEF After
<1>6. ASSUME NEW k \in DataRows
      PROVE  HeaderOf(k) \in DataRows /\ HeaderOf(k)' = HeaderOf(k) /\ HeadIs(k, HeaderOf(k))'
  <2>1. HeadIs(k, HeaderOf(k))
    BY DEF Chosen
  <2>2. PICK h : h = HeaderOf(k)
    OBVIOUS
  <2>3. HeadIs(k, h) /\ h \in DataRows /\ h <= n
    BY <1>3, <2>1, <2>2 DEF HeadIs
  <2>4. HeadIs(k, h)'
    BY <1>2, <1>3, <1>4, <2>3 DEF HeadIs
  <2>5. HeaderOf(k)' = h
    BY <1>3, <2>4, HeadIsHeadNext
  <2> QED
    BY <2>2, <2>3, <2>4, <2>5
<1>7. ASSUME n \in DataRows'
      PROVE  /\ (HeaderOf(n)' = n /\ After(LastMarker(n)) = {}) \/ HeaderOf(n)' \in After(LastMarker(n))
             /\ HeadIs(n, HeaderOf(n))'
  <2>1. CASE After(LastMarker(n)) = {}
    <3>1. HeadIs(n, n)'
      BY <1>1, <1>2, <1>3, <1>4, <1>7, <2>1 DEF HeadIs, After
    <3>2. HeaderOf(n)' = n
      BY <1>3, <3>1, HeadIsHeadNext
    <3> QED
      BY <2>1, <3>1, <3>2
  <2>2. CASE After(LastMarker(n)) # {}
    <3>1. PICK j \in DataRows : LastMarker(j) = LastMarker(n)
      BY <2>2 DEF After
    <3>2. PICK h : h = HeaderOf(j)
      OBVIOUS
    <3>3. HeadIs(j, h) /\ h \in DataRows /\ h <= n
      BY <1>3, <3>2 DEF Chosen, HeadIs
    <3>4. HeadIs(n, h)'
      BY <1>2, <1>3, <1>4, <1>7, <3>1, <3>3 DEF HeadIs
    <3>5. HeaderOf(n)' = h
      BY <1>3, <3>4, HeadIsHeadNext
    <3>6. h \in After(LastMarker(n))
      BY <3>1, <3>3 DEF HeadIs, After
    <3> QED
      BY <3>4, <3>5, <3>6
  <2> QED
    BY <2>1, <2>2
<1>8. Chosen'
  BY <1>1, <1>2, <1>3, <1>6, <1>7 DEF Chosen
<1> QED
  BY <1>5, <1>6, <1>7, <1>8

LEMMA SameHeader ==
  ASSUME rows \in Seq(Row), Chosen, NEW k \in DataRows, NEW h \in DataRows,
         LastMarker(h) = LastMarker(k)
  PROVE  HeaderOf(h) = HeaderOf(k)
<1>1. PICK g : g = HeaderOf(k)
  OBVIOUS
<1>2. HeadIs(k, g)
  BY <1>1 DEF Chosen
<1>3. HeadIs(h, g)
  BY <1>2 DEF HeadIs
<1>4. HeaderOf(h) = g
  <2>1. DataRows \subseteq Nat
    BY DEF DataRows
  <2> QED
    BY <1>3, <2>1, HeadIsHead
<1> QED
  BY <1>1, <1>4

LEMMA DataRowsLie ==
  ASSUME rows \in Seq(Row), Chosen
  PROVE  /\ Here \in Nat \ {0} /\ DataRows \subseteq 1 .. Here - 1 /\ Here \in 1 .. Here
         /\ \A k \in DataRows : /\ LastMarker(k) \in Nat /\ LastMarker(k) < k
                                /\ LastMarker(k) # Here /\ LastMarker(k) # 0
                                /\ LastMarker(k) \in 1 .. Here - 1
                                /\ LastMarker(k) = LastMarker(Here) => Inside(Here)
<1>1. Here \in Nat \ {0} /\ DataRows \subseteq 1 .. Here - 1 /\ Here \in 1 .. Here
  BY DEF Here, DataRows
<1>2. ASSUME NEW k \in DataRows
      PROVE  /\ LastMarker(k) \in Nat /\ LastMarker(k) < k /\ LastMarker(k) # 0
             /\ LastMarker(k) \in 1 .. Here - 1
             /\ LastMarker(k) = LastMarker(Here) => Inside(Here)
  <2>1. Inside(k) /\ k \in 1 .. Here
    BY <1>1 DEF DataRows
  <2>2. LastMarker(k) # 0 /\ (LastMarker(k) = LastMarker(Here) => Inside(Here))
    BY <2>1 DEF Inside
  <2> QED
    BY <2>1, <2>2, LastIsMarker
<1>3. \A k \in DataRows : LastMarker(k) # Here
  BY <1>1, <1>2
<1> QED
  BY <1>1, <1>2, <1>3

\* A marker ends the section before it, which is flushed.
LEMMA FlushAtMarker ==
  ASSUME ScanTypeOK, ScanInv, NEW row \in Row, rows' = Append(rows, row),
         row.type \in {"start", "end"}, flush,
         current' = IF row.type = "start" THEN row.name ELSE NoName,
         row.type = "end" => current # NoName /\ row.name = current
  PROVE  ScanInv'
<1> DEFINE L == LastMarker(Here)
<1>1. PICK n : n = Here
  OBVIOUS
<1>2. rows \in Seq(Row) /\ Chosen
  BY DEF ScanTypeOK, ScanInv
<1>3. /\ n \in Nat \ {0} /\ Here' = n + 1
      /\ rows'[n] = row /\ \A k \in 1 .. n - 1 : rows'[k] = rows[k]
      /\ Markers \subseteq 1 .. n - 1 /\ Markers' = Markers \cup {n}
      /\ \A k \in 1 .. n : LastMarker(k)' = LastMarker(k)
      /\ LastMarker(n + 1)' = n
  BY <1>1, <1>2, MarkersGrow DEF NewMarker
<1>4. /\ \A k \in 1 .. n : Inside(k)' = Inside(k)
      /\ Inside(n + 1)' = (row.type = "start" /\ row.name # NoName)
      /\ DataRows \subseteq 1 .. n - 1 /\ DataRows' = DataRows
      /\ \A k \in 1 .. n - 1 : Closes(k)' = Closes(k)
  BY <1>1, <1>2, RowsGrow DEF NewData
<1>5. /\ \A m : After(m)' = After(m)
      /\ \A k \in DataRows : HeaderOf(k) \in DataRows /\ HeaderOf(k)' = HeaderOf(k)
      /\ Chosen'
  <2>1. NewData(row, n) = {}
    BY DEF NewData
  <2>2. /\ \A m : After(m)' = After(m) \cup (IF m = LastMarker(n) THEN NewData(row, n) ELSE {})
        /\ \A k \in DataRows : HeaderOf(k) \in DataRows /\ HeaderOf(k)' = HeaderOf(k)
        /\ Chosen'
    BY <1>1, <1>2, HeadersStay
  <2> QED
    BY <2>1, <2>2
<1>6. /\ n \in 1 .. n /\ L \in Nat /\ DataRows' = DataRows /\ DataRows \subseteq Nat
      /\ \A k \in 1 .. n - 1 : k \in 1 .. n
      /\ \A k \in DataRows : k \in 1 .. n - 1
      /\ \A k \in DataRows : /\ LastMarker(k) # n /\ LastMarker(k) \in 1 .. n - 1
                             /\ LastMarker(k) = L => Inside(n)
  <2>1. \A k \in 1 .. n - 1 : k \in Nat /\ k \in 1 .. n
    BY <1>3
  <2>2. DataRows' = DataRows /\ DataRows \subseteq Nat /\ \A k \in DataRows : k \in 1 .. n - 1
    BY <1>4, <2>1
  <2> QED
    BY <1>1, <1>2, <2>1, <2>2, DataRowsLie, LastIsMarker
<1> HIDE DEF L
<1>7. OpenSection'
  <2>1. After(n)' = {}
    BY <1>5, <1>6 DEF After
  <2>2. header' = 0 /\ records' = <<>>
    BY DEF flush
  <2>3. LastMarker(Here)' = n /\ (Inside(Here)' <=> row.type = "start" /\ row.name # NoName)
    BY <1>3, <1>4
  <2> QED
    BY <1>3, <2>1, <2>2, <2>3 DEF OpenSection
<1> DEFINE new == [name |-> current, header |-> header, records |-> records]
           Sect == [name : Name, header : Nat, records : Seq(Nat)]
           filled == current # NoName /\ records # <<>>
<1>8. \/ sections' = Append(sections, new) /\ filled
      \/ sections' = sections /\ ~ filled
  BY DEF flush
<1>9. sections \in Seq(Sect) /\ (filled => new \in Sect)
  BY DEF ScanTypeOK
<1> HIDE DEF new, Sect, filled
<1>10. /\ \A s \in DOMAIN sections : s \in DOMAIN sections' /\ sections'[s] = sections[s]
       /\ \A s \in DOMAIN sections' : s \notin DOMAIN sections =>
            s = Len(sections) + 1 /\ sections'[s] = new /\ filled
       /\ filled => \E s \in DOMAIN sections' : sections'[s] = new
  <2>1. CASE sections' = Append(sections, new) /\ filled
    <3>1. new \in Sect /\ Len(sections) \in Nat /\ DOMAIN sections = 1 .. Len(sections)
      BY <1>9, <2>1
    <3>2. /\ DOMAIN sections' = 1 .. Len(sections) + 1
          /\ \A s \in 1 .. Len(sections) : sections'[s] = sections[s]
          /\ sections'[Len(sections) + 1] = new
      BY <1>9, <2>1, <3>1
    <3>3. Len(sections) + 1 \in DOMAIN sections'
      BY <3>1, <3>2
    <3> QED
      BY <2>1, <3>1, <3>2, <3>3
  <2>2. CASE sections' = sections /\ ~ filled
    BY <2>2
  <2> QED
    BY <1>8, <2>1, <2>2
<1>11. Flushed'
  <2>1. ASSUME NEW s \in DOMAIN sections
        PROVE  LET m == LastMarker(sections[s].header)
               IN /\ sections[s].header \in DataRows /\ m # L /\ m # n
                  /\ sections[s].header = HeaderOf(sections[s].header)
                  /\ sections[s].name = rows[m].name
                  /\ Items(sections[s].records) = After(m) \ {sections[s].header}
    BY <1>1, <1>6 DEF ScanInv, Flushed, L
  <2>2. ASSUME filled
        PROVE  /\ new.header \in DataRows /\ LastMarker(new.header) = L
               /\ new.header = HeaderOf(new.header) /\ new.name = rows[L].name
               /\ Items(new.records) = After(L) \ {new.header}
    <3>1. /\ new.header = header /\ new.name = current /\ new.records = records
      BY DEF new
    <3>2. /\ header \in After(L) /\ (\A j \in After(L) : header <= j)
          /\ Items(records) = After(L) \ {header} /\ current = rows[L].name
      BY <2>2 DEF ScanInv, OpenSection, L, filled
    <3>3. header \in DataRows /\ LastMarker(header) = L
      BY <3>2 DEF After
    <3>4. PICK h : h = header
      OBVIOUS
    <3>5. HeadIs(h, h)
      BY <3>2, <3>3, <3>4 DEF HeadIs, After
    <3>6. HeaderOf(h) = h
      BY <1>6, <3>5, HeadIsHead
    <3> QED
      BY <3>1, <3>2, <3>3, <3>4, <3>6
  <2>3. ASSUME NEW s \in DOMAIN sections'
        PROVE  \/ s \in DOMAIN sections /\ sections'[s] = sections[s]
               \/ s \notin DOMAIN sections /\ sections'[s] = new /\ filled
    BY <1>10
  <2>4. ASSUME NEW s \in DOMAIN sections', NEW x, x = sections'[s], NEW m, m = LastMarker(x.header)
        PROVE  /\ x.header \in DataRows /\ m # n /\ m \in 1 .. n - 1
               /\ x.header = HeaderOf(x.header) /\ x.name = rows[m].name
               /\ Items(x.records) = After(m) \ {x.header}
               /\ s \notin DOMAIN sections <=> m = L
    BY <1>6, <2>1, <2>2, <2>3, <2>4
  <2>5. ASSUME NEW s \in DOMAIN sections', NEW x, x = sections'[s]
        PROVE  LastMarker(x.header)' = LastMarker(x.header)
    <3>1. x.header \in 1 .. n
      BY <1>6, <2>4, <2>5
    <3>2. PICK h : h = x.header
      OBVIOUS
    <3> QED
      BY <1>3, <3>1, <3>2
  <2>6. ASSUME NEW s \in DOMAIN sections', NEW t \in DOMAIN sections',
               LastMarker(sections'[s].header) = LastMarker(sections'[t].header)
        PROVE  s = t
    <3>1. s \in DOMAIN sections <=> t \in DOMAIN sections
      BY <2>4, <2>6
    <3>2. CASE s \in DOMAIN sections
      BY <1>10, <2>6, <3>1, <3>2 DEF ScanInv, Flushed
    <3>3. CASE s \notin DOMAIN sections
      BY <1>10, <3>1, <3>3
    <3> QED
      BY <3>2, <3>3
  <2>7. ASSUME NEW s \in DOMAIN sections', NEW t \in DOMAIN sections',
               LastMarker(sections[s].header)' = LastMarker(sections[t].header)'
        PROVE  s = t
    <3>1. PICK x, y : x = sections'[s] /\ y = sections'[t]
      OBVIOUS
    <3>2. LastMarker(x.header)' = LastMarker(x.header) /\ LastMarker(y.header)' = LastMarker(y.header)
      BY <2>5, <3>1
    <3>3. LastMarker(x.header)' = LastMarker(y.header)'
      BY <2>7, <3>1
    <3> QED
      BY <2>6, <3>1, <3>2, <3>3
  <2>8. ASSUME NEW s \in DOMAIN sections'
        PROVE  (LET m == LastMarker(sections[s].header)
                IN /\ sections[s].header \in DataRows /\ m # LastMarker(Here)
                   /\ sections[s].header = HeaderOf(sections[s].header)
                   /\ sections[s].name = rows[m].name
                   /\ Items(sections[s].records) = After(m) \ {sections[s].header})'
    <3>1. PICK x, m, h : x = sections'[s] /\ m = LastMarker(x.header) /\ h = x.header
      OBVIOUS
    <3>2. /\ x.header \in DataRows /\ m # n /\ m \in 1 .. n - 1
          /\ x.header = HeaderOf(x.header) /\ x.name = rows[m].name
          /\ Items(x.records) = After(m) \ {x.header}
      BY <2>4, <3>1, SMTT(20)
    <3>3. LastMarker(h)' = m
      BY <2>5, <3>1
    <3>4. HeaderOf(h)' = HeaderOf(h) /\ After(m)' = After(m)
      BY <1>5, <3>1, <3>2
    <3>5. rows'[m] = rows[m] /\ m # LastMarker(Here)'
      BY <1>3, <3>2
    <3>6. h = HeaderOf(h)' /\ h \in DataRows' /\ x.name = rows'[m].name
      BY <1>6, <3>1, <3>2, <3>4, <3>5
    <3>7. Items(x.records) = After(m)' \ {h}
      BY <3>1, <3>2, <3>4
    <3> QED
      BY <3>1, <3>3, <3>5, <3>6, <3>7
  <2> QED
    BY <2>7, <2>8 DEF Flushed
<1>12. Filed'
  <2> SUFFICES ASSUME NEW k \in DataRows, k # HeaderOf(k)
               PROVE  \E s \in DOMAIN sections' : k \in Items(sections'[s].records)
    BY <1>4, <1>5 DEF Filed
  <2>1. CASE LastMarker(k) # L
    <3>1. PICK s \in DOMAIN sections : k \in Items(sections[s].records)
      BY <2>1 DEF ScanInv, Filed, L
    <3> QED
      BY <1>10, <3>1
  <2>2. CASE LastMarker(k) = L
    <3>1. k \in After(L)
      BY <2>2 DEF After
    <3>2. /\ header \in After(L) /\ (\A j \in After(L) : header <= j)
          /\ Items(records) = After(L) \ {header}
          /\ current # NoName
      BY <3>1 DEF ScanInv, OpenSection, L
    <3>3. PICK h : h = header
      OBVIOUS
    <3>4. HeadIs(k, h)
      BY <2>2, <3>2, <3>3 DEF HeadIs, After
    <3>5. HeaderOf(k) = h
      BY <1>6, <3>4, HeadIsHead
    <3>6. k # header
      BY <3>3, <3>5
    <3>7. k \in Items(records)
      BY <3>1, <3>2, <3>6
    <3>8. records # <<>>
      BY <3>7 DEF Items
    <3>9. filled /\ k \in Items(new.records)
      BY <3>2, <3>7, <3>8 DEF new, filled
    <3> QED
      BY <1>10, <3>9
  <2> QED
    BY <2>1, <2>2
<1>13. NoError'
  <2>1. ASSUME NEW k \in DataRows'
        PROVE  rows'[k].width <= rows'[HeaderOf(k)'].width
    <3>1. k \in DataRows /\ rows[k].width <= rows[HeaderOf(k)].width
      BY <1>4, <2>1 DEF ScanInv, NoError
    <3>2. k \in 1 .. n - 1 /\ HeaderOf(k) \in 1 .. n - 1 /\ HeaderOf(k)' = HeaderOf(k)
      BY <1>4, <1>5, <3>1
    <3> QED
      BY <1>3, <3>1, <3>2
  <2>2. ASSUME NEW k \in Markers
        PROVE  Closes(k)'
    <3>1. k \in 1 .. n - 1 /\ Closes(k)
      BY <1>3 DEF ScanInv, NoError
    <3> QED
      BY <1>4, <3>1
  <2>3. Closes(n)'
    <3>1. CASE row.type = "start"
      BY <1>3, <3>1 DEF Closes
    <3>2. CASE row.type = "end"
      <4>1. Inside(n) /\ rows[L].name = row.name
        BY <1>1, <3>2 DEF ScanInv, OpenSection, L
      <4>2. L # 0 /\ L \in 1 .. n - 1
        BY <1>1, <1>2, <1>6, <4>1, LastIsMarker DEF Inside, L
      <4>3. LastMarker(n)' = L /\ Inside(n)' /\ rows'[L] = rows[L]
        BY <1>1, <1>3, <1>4, <1>6, <4>1, <4>2 DEF L
      <4> QED
        BY <1>3, <4>1, <4>3 DEF Closes
    <3> QED
      BY <3>1, <3>2
  <2> QED
    BY <1>3, <2>1, <2>2, <2>3 DEF NoError
<1> QED
  BY <1>5, <1>7, <1>11, <1>12, <1>13 DEF ScanInv

\* A row that is no marker leaves the sections before it alone.
LEMMA NoMarker ==
  ASSUME ScanTypeOK, ScanInv, NEW row \in Row, rows' = Append(rows, row),
         row.type \notin {"start", "end"}, sections' = sections, NEW n, n = Here
  PROVE  /\ Chosen' /\ Flushed' /\ Filed'
         /\ \A k \in Markers' : Closes(k)'
         /\ \A k \in DataRows : HeaderOf(k)' = HeaderOf(k)
                                /\ rows'[k].width <= rows'[HeaderOf(k)].width
<1> DEFINE L == LastMarker(n)
<1>1. rows \in Seq(Row) /\ Chosen
  BY DEF ScanTypeOK, ScanInv
<1>2. /\ n \in Nat \ {0} /\ Here' = n + 1
      /\ \A k \in 1 .. n - 1 : rows'[k] = rows[k]
      /\ Markers \subseteq 1 .. n - 1 /\ Markers' = Markers
      /\ \A k \in 1 .. n : LastMarker(k)' = LastMarker(k)
      /\ LastMarker(n + 1)' = L
  <2>1. NewMarker(row, n) = {}
    BY DEF NewMarker
  <2>2. /\ n \in Nat \ {0} /\ Here' = n + 1
        /\ \A k \in 1 .. n - 1 : rows'[k] = rows[k]
        /\ Markers \subseteq 1 .. n - 1 /\ Markers' = Markers \cup NewMarker(row, n)
        /\ \A k \in 1 .. n : LastMarker(k)' = LastMarker(k)
        /\ LastMarker(n + 1)' = IF row.type \in {"start", "end"} THEN n ELSE LastMarker(n)
    BY <1>1, MarkersGrow
  <2> QED
    BY <2>1, <2>2
<1>3. /\ DataRows \subseteq 1 .. n - 1 /\ DataRows' = DataRows \cup NewData(row, n)
      /\ \A k \in 1 .. n - 1 : Closes(k)' = Closes(k)
  BY <1>1, RowsGrow
<1>4. /\ \A m : m # L => After(m)' = After(m)
      /\ \A k \in DataRows : HeaderOf(k) \in DataRows /\ HeaderOf(k)' = HeaderOf(k)
      /\ Chosen'
  <2>1. /\ \A m : After(m)' = After(m) \cup (IF m = LastMarker(n) THEN NewData(row, n) ELSE {})
        /\ \A k \in DataRows : HeaderOf(k) \in DataRows /\ HeaderOf(k)' = HeaderOf(k)
        /\ Chosen'
    BY <1>1, HeadersStay
  <2> QED
    BY <2>1
<1>5. /\ n \in 1 .. n
      /\ \A k \in 1 .. n - 1 : k \in 1 .. n
      /\ \A k \in DataRows : k \in 1 .. n - 1 /\ LastMarker(k) \in 1 .. n - 1
  BY <1>1, <1>2, <1>3, DataRowsLie
<1> HIDE DEF L
<1>6. Flushed'
  <2>1. ASSUME NEW s \in DOMAIN sections', NEW x, x = sections'[s], NEW m, m = LastMarker(x.header)
        PROVE  /\ LastMarker(x.header)' = m /\ x.header \in DataRows' /\ m # LastMarker(Here)'
               /\ x.header = HeaderOf(x.header)' /\ x.name = rows'[m].name
               /\ Items(x.records) = After(m)' \ {x.header}
    <3>1. /\ s \in DOMAIN sections /\ x = sections[s]
          /\ x.header \in DataRows /\ m # L /\ x.header = HeaderOf(x.header)
          /\ x.name = rows[m].name /\ Items(x.records) = After(m) \ {x.header}
      BY <2>1 DEF ScanInv, Flushed, L
    <3>2. PICK h : h = x.header
      OBVIOUS
    <3>3. h \in DataRows /\ h \in 1 .. n /\ m \in 1 .. n - 1
      BY <1>5, <2>1, <3>1, <3>2
    <3>4. LastMarker(h)' = LastMarker(h) /\ m # LastMarker(Here)' /\ rows'[m] = rows[m]
      BY <1>2, <3>1, <3>3
    <3>5. HeaderOf(h)' = HeaderOf(h) /\ After(m)' = After(m) /\ h \in DataRows'
      BY <1>3, <1>4, <3>1, <3>3
    <3> QED
      BY <2>1, <3>1, <3>2, <3>4, <3>5
  <2>2. ASSUME NEW s \in DOMAIN sections', NEW t \in DOMAIN sections',
               LastMarker(sections[s].header)' = LastMarker(sections[t].header)'
        PROVE  s = t
    <3>1. PICK x, y : x = sections'[s] /\ y = sections'[t]
      OBVIOUS
    <3>2. LastMarker(x.header)' = LastMarker(x.header) /\ LastMarker(y.header)' = LastMarker(y.header)
      BY <2>1, <3>1
    <3>3. LastMarker(x.header)' = LastMarker(y.header)'
      BY <2>2, <3>1
    <3>4. LastMarker(sections[s].header) = LastMarker(sections[t].header)
      BY <3>1, <3>2, <3>3
    <3> QED
      BY <3>4 DEF ScanInv, Flushed
  <2>3. ASSUME NEW s \in DOMAIN sections'
        PROVE  (LET m == LastMarker(sections[s].header)
                IN /\ sections[s].header \in DataRows /\ m # LastMarker(Here)
                   /\ sections[s].header = HeaderOf(sections[s].header)
                   /\ sections[s].name = rows[m].name
                   /\ Items(sections[s].records) = After(m) \ {sections[s].header})'
    <3>1. PICK x, m : x = sections'[s] /\ m = LastMarker(x.header)
      OBVIOUS
    <3>2. /\ LastMarker(x.header)' = m /\ x.header \in DataRows' /\ m # LastMarker(Here)'
          /\ x.header = HeaderOf(x.header)' /\ x.name = rows'[m].name
          /\ Items(x.records) = After(m)' \ {x.header}
      BY <2>1, <3>1, ZenonT(60)
    <3> QED
      BY <3>1, <3>2
  <2> QED
    BY <2>2, <2>3 DEF Flushed
<1>7. Filed'
  <2> SUFFICES ASSUME NEW k \in DataRows', LastMarker(k)' # LastMarker(Here)', k # HeaderOf(k)'
               PROVE  \E s \in DOMAIN sections' : k \in Items(sections'[s].records)
    BY DEF Filed
  <2>1. LastMarker(n)' = LastMarker(Here)'
    BY <1>2, <1>5 DEF L
  <2>2. k \in DataRows
    BY <1>3, <2>1 DEF NewData
  <2>3. LastMarker(k)' = LastMarker(k) /\ LastMarker(Here)' = L /\ HeaderOf(k)' = HeaderOf(k)
    BY <1>2, <1>4, <1>5, <2>2
  <2> QED
    BY <2>2, <2>3 DEF ScanInv, Filed, L
<1>8. \A k \in Markers' : Closes(k)'
  BY <1>2, <1>3 DEF ScanInv, NoError
<1>9. ASSUME NEW k \in DataRows
      PROVE  rows'[k].width <= rows'[HeaderOf(k)].width
  <2>1. rows[k].width <= rows[HeaderOf(k)].width
    BY DEF ScanInv, NoError
  <2>2. k \in 1 .. n - 1 /\ HeaderOf(k) \in 1 .. n - 1
    BY <1>4, <1>5
  <2> QED
    BY <1>2, <2>1, <2>2
<1> QED
  BY <1>4, <1>6, <1>7, <1>8, <1>9

-----------------------------------------------------------------------------
(***************************************************************************)
(* The invariant, action by action.                                        *)
(***************************************************************************)
LEMMA ReadSound ==
  ASSUME ScanTypeOK, NEW row \in Row, Read(row)
  PROVE  /\ outcome = "reading" /\ rows' = Append(rows, row) /\ rows' \in Seq(Row)
         /\ Here \in Nat \ {0} /\ Here = Len(rows) + 1 /\ rows'[Here] = row
BY DEF ScanTypeOK, Read, Here

LEMMA FlushType ==
  ASSUME ScanTypeOK, flush
  PROVE  /\ header' \in Nat /\ records' \in Seq(Nat)
         /\ sections' \in Seq([name : Name, header : Nat, records : Seq(Nat)])
<1> DEFINE Sect == [name : Name, header : Nat, records : Seq(Nat)]
           new == [name |-> current, header |-> header, records |-> records]
<1>1. header' = 0 /\ records' = <<>>
  BY DEF flush
<1>2. sections' = sections \/ (current # NoName /\ sections' = Append(sections, new))
  BY DEF flush
<1>3. sections \in Seq(Sect) /\ (current # NoName => new \in Sect)
  BY DEF ScanTypeOK
<1> HIDE DEF Sect, new
<1>4. sections' \in Seq(Sect)
  BY <1>2, <1>3
<1> QED
  BY <1>1, <1>4 DEF Sect

LEMMA StartKeeps ==
  ASSUME DbInv, NEW row \in Row, StartSection(row)
  PROVE  DbInv'
<1>1. /\ Read(row) /\ row.type = "start" /\ flush /\ current' = row.name /\ outcome' = outcome
      /\ ScanTypeOK
  BY DEF StartSection, DbInv
<1>2. /\ outcome = "reading" /\ rows' = Append(rows, row) /\ rows' \in Seq(Row)
  BY <1>1, ReadSound
<1>3. ScanInv'
  BY <1>1, <1>2, FlushAtMarker DEF DbInv
<1>4. ScanTypeOK'
  BY <1>1, <1>2, FlushType, RowType DEF ScanTypeOK
<1> QED
  BY <1>1, <1>2, <1>3, <1>4 DEF DbInv

LEMMA EndKeeps ==
  ASSUME DbInv, NEW row \in Row, EndSection(row)
  PROVE  DbInv'
<1>1. Read(row) /\ row.type = "end" /\ ScanTypeOK
  BY DEF EndSection, DbInv
<1>2. /\ outcome = "reading" /\ rows' = Append(rows, row) /\ rows' \in Seq(Row)
  BY <1>1, ReadSound
<1>3. CASE current = NoName \/ row.name # current
  <2>1. outcome' = "error" /\ UNCHANGED <<current, header, records, sections>>
    BY <1>3 DEF EndSection, ParseError
  <2>2. PICK n : n = Here
    OBVIOUS
  <2>3. rows \in Seq(Row) /\ Chosen /\ OpenSection
    BY <1>1, <1>2 DEF ScanTypeOK, DbInv, ScanInv
  <2>4. /\ n \in Nat \ {0} /\ rows'[n] = row /\ Markers' = Markers \cup NewMarker(row, n)
        /\ \A k \in 1 .. n - 1 : rows'[k] = rows[k]
        /\ \A k \in 1 .. n : LastMarker(k)' = LastMarker(k)
    BY <1>2, <2>2, <2>3, MarkersGrow
  <2>5. \A k \in 1 .. n : Inside(k)' = Inside(k)
    BY <1>2, <2>2, <2>3, RowsGrow
  <2>6. n \in Markers' /\ n \in 1 .. n
    BY <1>1, <2>4 DEF NewMarker
  <2>7. ~ Closes(n)'
    <3>1. CASE ~ Inside(n)
      BY <1>1, <2>4, <2>5, <2>6, <3>1 DEF Closes
    <3>2. CASE Inside(n)
      <4>1. current = rows[LastMarker(n)].name /\ current # NoName
        BY <2>2, <2>3, <3>2 DEF OpenSection, Inside
      <4>2. LastMarker(n) \in 1 .. n - 1
        BY <2>2, <2>3, <2>6, <3>2, LastIsMarker DEF Inside
      <4>3. rows'[LastMarker(n)].name # row.name
        BY <1>3, <2>4, <4>1, <4>2
      <4>4. LastMarker(n)' = LastMarker(n)
        BY <2>4, <2>6
      <4> QED
        BY <1>1, <2>4, <4>3, <4>4 DEF Closes
    <3> QED
      BY <3>1, <3>2
  <2>8. ErrorsAreJustified'
    BY <2>1, <2>6, <2>7 DEF ErrorsAreJustified
  <2>9. RecordsUnderTheirHeader' /\ ScanTypeOK'
    BY <1>1, <1>2, <2>1 DEF RecordsUnderTheirHeader, ScanTypeOK
  <2> QED
    BY <2>1, <2>8, <2>9 DEF DbInv
<1>4. CASE ~ (current = NoName \/ row.name # current)
  <2>1. flush /\ current' = NoName /\ outcome' = outcome
    BY <1>4 DEF EndSection
  <2>2. ScanInv'
    BY <1>1, <1>2, <1>4, <2>1, FlushAtMarker DEF DbInv
  <2>3. ScanTypeOK'
    BY <1>1, <1>2, <2>1, FlushType DEF ScanTypeOK
  <2> QED
    BY <1>2, <2>1, <2>2, <2>3 DEF DbInv
<1> QED
  BY <1>3, <1>4

LEMMA SkipKeeps ==
  ASSUME DbInv, NEW row \in Row, SkipRow(row)
  PROVE  DbInv'
<1>1. /\ Read(row) /\ row.type \notin {"start", "end"} /\ ScanTypeOK
      /\ row.type = "row" => current = NoName
      /\ UNCHANGED <<current, header, records, sections, outcome>>
  BY DEF SkipRow, DbInv
<1>2. /\ outcome = "reading" /\ rows' = Append(rows, row) /\ rows' \in Seq(Row)
  BY <1>1, ReadSound
<1>3. ScanInv /\ rows \in Seq(Row) /\ Chosen /\ OpenSection
  BY <1>1, <1>2 DEF DbInv, ScanInv, ScanTypeOK
<1>4. PICK n : n = Here
  OBVIOUS
<1>5. /\ Chosen' /\ Flushed' /\ Filed'
      /\ \A k \in Markers' : Closes(k)'
      /\ \A k \in DataRows : HeaderOf(k)' = HeaderOf(k)
                             /\ rows'[k].width <= rows'[HeaderOf(k)].width
  BY <1>1, <1>2, <1>3, <1>4, NoMarker
<1>6. NewData(row, n) = {}
  <2>1. row.type = "row" => ~ Inside(n)
    BY <1>1, <1>3, <1>4 DEF OpenSection, Inside
  <2> QED
    BY <2>1 DEF NewData
<1>7. DataRows' = DataRows /\ Inside(n + 1)' = Inside(n)
  BY <1>1, <1>2, <1>3, <1>4, <1>6, RowsGrow
<1>8. /\ n \in Nat \ {0} /\ Here' = n + 1 /\ LastMarker(n + 1)' = LastMarker(n)
      /\ \A k \in 1 .. n - 1 : rows'[k] = rows[k]
  BY <1>1, <1>2, <1>3, <1>4, MarkersGrow
<1>9. \A m : After(m)' = After(m)
  <2>1. \A m : After(m)' = After(m) \cup (IF m = LastMarker(n) THEN NewData(row, n) ELSE {})
    BY <1>2, <1>3, <1>4, HeadersStay
  <2> QED
    BY <1>6, <2>1
<1>10. OpenSection'
  <2>1. PICK m : m = LastMarker(n)
    OBVIOUS
  <2>2. After(m)' = After(m) /\ m = LastMarker(Here)' /\ (Inside(Here)' <=> Inside(n))
    BY <1>7, <1>8, <1>9, <2>1
  <2>3. Inside(n) => rows'[m] = rows[m]
    <3>1. n \in 1 .. Here
      BY <1>4, <1>8
    <3> QED
      BY <1>3, <1>4, <1>8, <2>1, <3>1, LastIsMarker DEF Inside
  <2> QED
    BY <1>1, <1>3, <1>4, <2>1, <2>2, <2>3 DEF OpenSection
<1>11. NoError'
  BY <1>5, <1>7 DEF NoError
<1>12. ScanTypeOK'
  BY <1>1, <1>2 DEF ScanTypeOK
<1> QED
  BY <1>1, <1>2, <1>5, <1>10, <1>11, <1>12 DEF DbInv, ScanInv

\* A row of an open section: it is the header, a record, or too wide.
LEMMA RowOfSection ==
  ASSUME DbInv, NEW row \in Row, Read(row), row.type = "row", current # NoName, NEW n, n = Here,
         NEW m, m = LastMarker(n)
  PROVE  /\ ScanInv /\ rows \in Seq(Row) /\ rows' = Append(rows, row) /\ rows' \in Seq(Row)
         /\ n \in Nat \ {0} /\ Inside(n) /\ current = rows[m].name /\ n \notin DataRows
         /\ DataRows \subseteq 1 .. n - 1 /\ DataRows' = DataRows \cup {n} /\ rows'[n] = row
         /\ \A k \in 1 .. n - 1 : rows'[k] = rows[k]
         /\ After(m)' = After(m) \cup {n}
         /\ LastMarker(Here)' = m /\ Inside(Here)' /\ rows'[m] = rows[m]
         /\ header = 0 => After(m) = {} /\ HeaderOf(n)' = n
         /\ header # 0 => HeaderOf(n)' = header /\ header \in DataRows
<1>1. outcome = "reading" /\ rows' = Append(rows, row) /\ rows' \in Seq(Row) /\ rows'[n] = row
  BY ReadSound DEF DbInv
<1>2. ScanInv /\ rows \in Seq(Row) /\ Chosen /\ OpenSection
  BY <1>1 DEF DbInv, ScanInv, ScanTypeOK
<1>3. Inside(n) /\ current = rows[m].name
  BY <1>2 DEF OpenSection
<1>4. NewData(row, n) = {n}
  BY <1>3 DEF NewData
<1>5. DataRows \subseteq 1 .. n - 1 /\ DataRows' = DataRows \cup {n} /\ Inside(n + 1)' = Inside(n)
  BY <1>1, <1>2, <1>4, RowsGrow
<1>6. /\ n \in Nat \ {0} /\ Here' = n + 1 /\ LastMarker(n + 1)' = m
      /\ \A k \in 1 .. n - 1 : rows'[k] = rows[k]
      /\ \A k \in 1 .. n : LastMarker(k)' = LastMarker(k)
  BY <1>1, <1>2, MarkersGrow
<1>7. /\ After(m)' = After(m) \cup {n}
      /\ \/ HeaderOf(n)' = n /\ After(m) = {}
         \/ HeaderOf(n)' \in After(m)
      /\ Chosen'
  <2>1. /\ After(m)' = After(m) \cup (IF m = LastMarker(n) THEN NewData(row, n) ELSE {})
        /\ n \in DataRows' => \/ HeaderOf(n)' = n /\ After(LastMarker(n)) = {}
                            \/ HeaderOf(n)' \in After(LastMarker(n))
        /\ Chosen'
    BY <1>1, <1>2, HeadersStay
  <2> QED
    BY <1>4, <1>5, <2>1
<1>8. m \in 1 .. n - 1 /\ n \in 1 .. n
  BY <1>2, <1>3, <1>6, LastIsMarker DEF Inside
<1>9. header = 0 => After(m) = {} /\ HeaderOf(n)' = n
  BY <1>2, <1>7 DEF OpenSection
<1>10. ASSUME header # 0
       PROVE  HeaderOf(n)' = header /\ header \in DataRows
  <2>1. header \in After(m) /\ \A j \in After(m) : header <= j
    BY <1>2, <1>10 DEF OpenSection
  <2>2. header \in DataRows /\ LastMarker(header) = m /\ header \in 1 .. n
    BY <1>5, <1>6, <2>1 DEF After
  <2>3. PICK g, h : g = HeaderOf(n)' /\ h = header
    OBVIOUS
  <2>4. g \in After(m)
    BY <1>7, <2>1, <2>3
  <2>5. HeadIs(n, g)'
    BY <1>5, <1>7, <2>3 DEF Chosen
  <2>6. h \in DataRows' /\ LastMarker(h)' = m /\ LastMarker(n)' = m
    BY <1>5, <1>6, <1>8, <2>2, <2>3
  <2>7. g <= h
    BY <2>5, <2>6 DEF HeadIs
  <2>8. h <= g /\ g \in Nat /\ h \in Nat
    BY <1>5, <2>1, <2>2, <2>3, <2>4 DEF After
  <2> QED
    BY <2>2, <2>3, <2>7, <2>8
<1>11. LastMarker(Here)' = m /\ Inside(Here)'
  BY <1>3, <1>5, <1>6
<1>12. rows'[m] = rows[m] /\ n \notin DataRows
  BY <1>5, <1>6, <1>8
<1> QED
  BY <1>1, <1>2, <1>3, <1>5, <1>6, <1>7, <1>9, <1>10, <1>11, <1>12

LEMMA HeaderKeeps ==
  ASSUME DbInv, NEW row \in Row, HeaderRow(row)
  PROVE  DbInv'
<1>1. /\ Read(row) /\ row.type = "row" /\ current # NoName /\ header = 0 /\ header' = Len(rows) + 1
      /\ UNCHANGED <<current, records, sections, outcome>> /\ ScanTypeOK
      /\ outcome = "reading"
  BY DEF HeaderRow, Read, DbInv
<1>2. PICK n, m : n = Here /\ m = LastMarker(n)
  OBVIOUS
<1>3. /\ ScanInv /\ rows \in Seq(Row) /\ rows' = Append(rows, row) /\ rows' \in Seq(Row)
      /\ n \in Nat \ {0} /\ Inside(n) /\ current = rows[m].name
      /\ DataRows' = DataRows \cup {n} /\ rows'[n] = row
      /\ After(m)' = After(m) \cup {n}
      /\ LastMarker(Here)' = m /\ Inside(Here)' /\ rows'[m] = rows[m]
      /\ After(m) = {} /\ HeaderOf(n)' = n
  BY <1>1, <1>2, RowOfSection
<1>4. row.type \notin {"start", "end"}
  BY <1>1
<1>5. /\ Chosen' /\ Flushed' /\ Filed'
      /\ \A k \in Markers' : Closes(k)'
      /\ \A k \in DataRows : HeaderOf(k)' = HeaderOf(k)
                             /\ rows'[k].width <= rows'[HeaderOf(k)].width
  BY <1>1, <1>2, <1>3, <1>4, NoMarker
<1>6. header' = n /\ records' = <<>> /\ header' # 0
  BY <1>1, <1>2, <1>3 DEF ScanInv, OpenSection, Here
<1>7. OpenSection'
  <2>1. After(m)' = {n} /\ current' = rows'[m].name /\ current' # NoName /\ n <= n
    BY <1>1, <1>3
  <2>2. Items(records') = {}
    BY <1>6 DEF Items
  <2> QED
    BY <1>3, <1>6, <2>1, <2>2 DEF OpenSection
<1>8. NoError'
  <2>1. rows'[n].width <= rows'[HeaderOf(n)'].width
    <3>1. row.width \in Nat
      BY RowType
    <3>2. row.width <= row.width
      BY <3>1
    <3> QED
      BY <1>3, <3>2
  <2> QED
    BY <1>3, <1>5, <2>1 DEF NoError
<1>9. ScanTypeOK'
  BY <1>1, <1>3, <1>6 DEF ScanTypeOK
<1> QED
  BY <1>1, <1>5, <1>7, <1>8, <1>9 DEF DbInv, ScanInv

LEMMA RecordKeeps ==
  ASSUME DbInv, NEW row \in Row, RecordRow(row)
  PROVE  DbInv'
<1>1. /\ Read(row) /\ row.type = "row" /\ current # NoName /\ header # 0 /\ ScanTypeOK
      /\ outcome = "reading"
  BY DEF RecordRow, Read, DbInv
<1>2. PICK n, m : n = Here /\ m = LastMarker(n)
  OBVIOUS
<1>3. /\ ScanInv /\ rows \in Seq(Row) /\ rows' = Append(rows, row) /\ rows' \in Seq(Row)
      /\ n \in Nat \ {0} /\ Inside(n) /\ current = rows[m].name /\ n \notin DataRows
      /\ DataRows \subseteq 1 .. n - 1 /\ DataRows' = DataRows \cup {n} /\ rows'[n] = row
      /\ \A k \in 1 .. n - 1 : rows'[k] = rows[k]
      /\ After(m)' = After(m) \cup {n}
      /\ LastMarker(Here)' = m /\ Inside(Here)' /\ rows'[m] = rows[m]
      /\ HeaderOf(n)' = header /\ header \in DataRows
  BY <1>1, <1>2, RowOfSection
<1>4. rows'[header] = rows[header] /\ row.width \in Nat /\ rows[header].width \in Nat
  <2>1. header \in 1 .. n - 1 /\ header \in DOMAIN rows
    BY <1>3 DEF DataRows
  <2>2. rows[header] \in Row
    BY <1>3, <2>1
  <2> QED
    BY <1>3, <2>1, <2>2, RowType
<1>5. CASE row.width > rows[header].width
  <2>1. outcome' = "error" /\ UNCHANGED <<current, header, records, sections>>
    BY <1>5 DEF RecordRow, ParseError
  <2>2. n \in DataRows' /\ rows'[n].width > rows'[HeaderOf(n)'].width
    BY <1>3, <1>4, <1>5
  <2>3. ErrorsAreJustified'
    BY <2>1, <2>2 DEF ErrorsAreJustified
  <2>4. RecordsUnderTheirHeader' /\ ScanTypeOK'
    BY <1>1, <1>3, <2>1 DEF RecordsUnderTheirHeader, ScanTypeOK
  <2> QED
    BY <2>1, <2>3, <2>4 DEF DbInv
<1>6. CASE ~ (row.width > rows[header].width)
  <2>1. records' = Append(records, n) /\ UNCHANGED <<current, header, sections, outcome>>
    BY <1>2, <1>6 DEF RecordRow, Here
  <2>2. row.type \notin {"start", "end"}
    BY <1>1
  <2>3. /\ Chosen' /\ Flushed' /\ Filed'
        /\ \A k \in Markers' : Closes(k)'
        /\ \A k \in DataRows : HeaderOf(k)' = HeaderOf(k)
                               /\ rows'[k].width <= rows'[HeaderOf(k)].width
    BY <1>1, <1>2, <1>3, <2>1, <2>2, NoMarker
  <2>4. Items(records') = Items(records) \cup {n} /\ records' \in Seq(Nat)
    <3>1. records \in Seq(Nat) /\ n \in Nat
      BY <1>1, <1>3 DEF ScanTypeOK
    <3>2. /\ DOMAIN records' = 1 .. Len(records) + 1 /\ DOMAIN records = 1 .. Len(records)
          /\ Len(records) \in Nat /\ records'[Len(records) + 1] = n
          /\ \A j \in 1 .. Len(records) : records'[j] = records[j]
      BY <2>1, <3>1
    <3>3. DOMAIN records' = DOMAIN records \cup {Len(records) + 1}
      BY <3>2
    <3> QED
      BY <2>1, <3>1, <3>2, <3>3 DEF Items
  <2>5. OpenSection'
    <3>1. /\ header \in After(m) /\ \A j \in After(m) : header <= j
          /\ Items(records) = After(m) \ {header}
      BY <1>1, <1>2, <1>3 DEF ScanInv, OpenSection
    <3>2. header <= n /\ header # n
      BY <1>3
    <3>3. /\ header' \in After(m)' /\ \A j \in After(m)' : header' <= j
          /\ Items(records') = After(m)' \ {header'}
      BY <1>3, <2>1, <2>4, <3>1, <3>2
    <3>4. current' = rows'[m].name /\ current' # NoName /\ header' # 0
      BY <1>1, <1>3, <2>1
    <3> QED
      BY <1>3, <3>3, <3>4 DEF OpenSection
  <2>6. NoError'
    <3>1. rows'[n].width <= rows'[HeaderOf(n)'].width
      BY <1>3, <1>4, <1>6
    <3> QED
      BY <1>3, <2>3, <3>1 DEF NoError
  <2>7. ScanTypeOK'
    BY <1>1, <1>3, <2>1, <2>4 DEF ScanTypeOK
  <2> QED
    BY <1>1, <2>1, <2>3, <2>5, <2>6, <2>7 DEF DbInv, ScanInv
<1> QED
  BY <1>5, <1>6

\* An accepted file has its rows where the invariant has them.
LEMMA AcceptedFile ==
  ASSUME rows \in Seq(Row), ScanInv, current = NoName
  PROVE  /\ \A s \in DOMAIN sections : Items(sections[s].records) \subseteq DataRows
         /\ \A k \in DataRows : k # HeaderOf(k) =>
              \E s \in DOMAIN sections :
                /\ k \in Items(sections[s].records)
                /\ \A t \in DOMAIN sections : k \in Items(sections[t].records) => t = s
                /\ sections[s].header = HeaderOf(k)
                /\ sections[s].name = rows[LastMarker(k)].name
         /\ \A k \in DataRows : k = HeaderOf(k) =>
              \A s \in DOMAIN sections : k \notin Items(sections[s].records)
         /\ ~ Inside(Here)
<1>1. Chosen /\ OpenSection /\ Flushed /\ Filed
  BY DEF ScanInv
<1>2. ~ Inside(Here)
  BY <1>1 DEF OpenSection, Inside
<1>3. ASSUME NEW s \in DOMAIN sections, NEW k \in Items(sections[s].records)
      PROVE  /\ k \in DataRows /\ LastMarker(k) = LastMarker(sections[s].header)
             /\ HeaderOf(k) = sections[s].header /\ k # HeaderOf(k)
             /\ sections[s].name = rows[LastMarker(k)].name
  <2>1. PICK h, m : h = sections[s].header /\ m = LastMarker(h)
    OBVIOUS
  <2>2. /\ h \in DataRows /\ h = HeaderOf(h) /\ sections[s].name = rows[m].name
        /\ Items(sections[s].records) = After(m) \ {h}
    BY <1>1, <2>1 DEF Flushed
  <2>3. k \in DataRows /\ LastMarker(k) = m /\ k # h
    BY <1>3, <2>2 DEF After
  <2>4. HeaderOf(h) = HeaderOf(k)
    BY <1>1, <2>1, <2>2, <2>3, SameHeader
  <2> QED
    BY <2>1, <2>2, <2>3, <2>4
<1>4. ASSUME NEW k \in DataRows, k # HeaderOf(k)
      PROVE  \E s \in DOMAIN sections :
                /\ k \in Items(sections[s].records)
                /\ \A t \in DOMAIN sections : k \in Items(sections[t].records) => t = s
                /\ sections[s].header = HeaderOf(k)
                /\ sections[s].name = rows[LastMarker(k)].name
  <2>1. LastMarker(k) # LastMarker(Here)
    BY <1>1, <1>2, DataRowsLie
  <2>2. PICK s \in DOMAIN sections : k \in Items(sections[s].records)
    BY <1>1, <1>4, <2>1 DEF Filed
  <2>3. ASSUME NEW t \in DOMAIN sections, k \in Items(sections[t].records)
        PROVE  t = s
    <3>1. LastMarker(sections[t].header) = LastMarker(sections[s].header)
      BY <1>3, <2>2, <2>3
    <3> QED
      BY <1>1, <3>1 DEF Flushed
  <2> QED
    BY <1>3, <2>2, <2>3
<1>5. \A s \in DOMAIN sections : Items(sections[s].records) \subseteq DataRows
  BY <1>3
<1>6. \A k \in DataRows : k = HeaderOf(k) =>
        \A s \in DOMAIN sections : k \notin Items(sections[s].records)
  BY <1>3
<1> QED
  BY <1>2, <1>4, <1>5, <1>6

LEMMA EndOfFileKeeps ==
  ASSUME DbInv, EndOfFile
  PROVE  DbInv'
<1>1. outcome = "reading" /\ rows' = rows /\ current' = current /\ ScanTypeOK /\ ScanInv
  BY DEF EndOfFile, ParseError, DbInv
<1>2. rows \in Seq(Row) /\ OpenSection /\ NoError
  BY <1>1 DEF ScanTypeOK, ScanInv
<1>3. /\ Markers' = Markers /\ DataRows' = DataRows /\ Here' = Here
      /\ \A k : LastMarker(k)' = LastMarker(k) /\ HeaderOf(k)' = HeaderOf(k)
      /\ \A k : (Inside(k)' <=> Inside(k)) /\ (Closes(k)' <=> Closes(k))
  BY <1>1 DEF Markers, DataRows, Here, LastMarker, HeaderOf, Inside, Closes
<1>4. CASE current # NoName
  <2>1. outcome' = "error" /\ UNCHANGED <<header, records, sections>>
    BY <1>4 DEF EndOfFile, ParseError
  <2>2. Inside(Here)'
    BY <1>2, <1>3, <1>4 DEF OpenSection
  <2>3. ErrorsAreJustified'
    BY <2>1, <2>2 DEF ErrorsAreJustified, Here
  <2>4. RecordsUnderTheirHeader' /\ ScanTypeOK'
    BY <1>1, <2>1 DEF RecordsUnderTheirHeader, ScanTypeOK
  <2> QED
    BY <2>1, <2>3, <2>4 DEF DbInv
<1>5. CASE current = NoName
  <2>1. flush /\ sections' = sections /\ outcome' \in {"csv", "csvError", "sections"}
    BY <1>5 DEF EndOfFile, flush, CSVOutcome
  <2>2. ScanTypeOK'
    BY <1>1, <2>1, FlushType DEF ScanTypeOK
  <2>3. /\ \A s \in DOMAIN sections : Items(sections[s].records) \subseteq DataRows
        /\ \A k \in DataRows : k # HeaderOf(k) =>
             \E s \in DOMAIN sections :
               /\ k \in Items(sections[s].records)
               /\ \A t \in DOMAIN sections : k \in Items(sections[t].records) => t = s
               /\ sections[s].header = HeaderOf(k)
               /\ sections[s].name = rows[LastMarker(k)].name
        /\ \A k \in DataRows : k = HeaderOf(k) =>
             \A s \in DOMAIN sections : k \notin Items(sections[s].records)
        /\ ~ Inside(Here)
    BY <1>1, <1>2, <1>5, AcceptedFile
  <2>4. ErrorsAreJustified'
    <3>1. \A k \in Markers' : Closes(k)'
      BY <1>2, <1>3 DEF NoError
    <3>2. ~ Inside(Len(rows) + 1)'
      BY <1>3, <2>3 DEF Here
    <3>3. \A k \in DataRows' : ~ (rows'[k].width > rows'[HeaderOf(k)'].width)
      <4> SUFFICES ASSUME NEW k \in DataRows
                   PROVE  ~ (rows[k].width > rows[HeaderOf(k)].width)
        BY <1>1, <1>3
      <4>1. k \in DOMAIN rows /\ HeaderOf(k) \in DOMAIN rows
        BY <1>1 DEF ScanInv, Chosen, HeadIs, DataRows
      <4>2. rows[k].width \in Nat /\ rows[HeaderOf(k)].width \in Nat
        BY <1>2, <4>1, RowType
      <4> QED
        BY <1>2, <4>2 DEF NoError
    <3> QED
      BY <2>1, <3>1, <3>2, <3>3 DEF ErrorsAreJustified
  <2>5. RecordsUnderTheirHeader'
    <3>1. ASSUME NEW k \in DOMAIN rows
          PROVE  LET FiledIn == {s \in DOMAIN sections :
                                  \E j \in DOMAIN sections[s].records : sections[s].records[j] = k}
                 IN IF k \in DataRows /\ k # HeaderOf(k)
                      THEN \E s \in DOMAIN sections :
                             /\ FiledIn = {s}
                             /\ sections[s].header = HeaderOf(k)
                             /\ sections[s].name = rows[LastMarker(k)].name
                             /\ rows[k].width <= rows[HeaderOf(k)].width
                      ELSE FiledIn = {}
      <4> DEFINE FiledIn == {s \in DOMAIN sections :
                               \E j \in DOMAIN sections[s].records : sections[s].records[j] = k}
      <4>1. FiledIn = {s \in DOMAIN sections : k \in Items(sections[s].records)}
        BY DEF Items
      <4> HIDE DEF FiledIn
      <4>2. CASE k \in DataRows /\ k # HeaderOf(k)
        <5>1. PICK s \in DOMAIN sections :
                /\ k \in Items(sections[s].records)
                /\ \A t \in DOMAIN sections : k \in Items(sections[t].records) => t = s
                /\ sections[s].header = HeaderOf(k)
                /\ sections[s].name = rows[LastMarker(k)].name
          BY <2>3, <4>2
        <5>2. FiledIn = {s}
          BY <4>1, <5>1
        <5>3. rows[k].width <= rows[HeaderOf(k)].width
          BY <1>2, <4>2 DEF NoError
        <5> QED
          BY <4>2, <5>1, <5>2, <5>3 DEF FiledIn
      <4>3. CASE ~ (k \in DataRows /\ k # HeaderOf(k))
        <5>1. FiledIn = {}
          BY <2>3, <4>1, <4>3
        <5> QED
          BY <4>3, <5>1 DEF FiledIn
      <4> QED
        BY <4>2, <4>3
    <3> QED
      BY <1>1, <1>3, <2>1, <3>1 DEF RecordsUnderTheirHeader
  <2> QED
    BY <2>1, <2>2, <2>4, <2>5 DEF DbInv
<1> QED
  BY <1>4, <1>5

LEMMA InitSound == Init => DbInv
<1> SUFFICES ASSUME Init
             PROVE  DbInv
  OBVIOUS
<1>1. /\ rows = <<>> /\ current = NoName /\ header = 0 /\ records = <<>> /\ sections = <<>>
      /\ outcome = "reading"
  BY DEF Init
<1>2. ScanTypeOK
  BY <1>1 DEF ScanTypeOK
<1>3. Markers = {} /\ DataRows = {} /\ Here = 1
  BY <1>1 DEF Markers, DataRows, Here
<1>4. \A k : LastIs(k, 0) /\ LastMarker(k) = 0
  BY <1>3, LastIsLast DEF LastIs
<1>5. Chosen
  BY <1>3, <1>4 DEF Chosen
<1>6. OpenSection
  BY <1>1, <1>3, <1>4 DEF OpenSection, Inside, After
<1>7. Flushed /\ Filed /\ NoError
  BY <1>1, <1>3 DEF Flushed, Filed, NoError
<1> QED
  BY <1>1, <1>2, <1>5, <1>6, <1>7 DEF DbInv, ScanInv

LEMMA NextSound == DbInv /\ [Next]_vars => DbInv'
<1> SUFFICES ASSUME DbInv, [Next]_vars
             PROVE  DbInv'
  OBVIOUS
<1>1. CASE \E row \in Row : StartSection(row)
  BY <1>1, StartKeeps
<1>2. CASE \E row \in Row : EndSection(row)
  BY <1>2, EndKeeps
<1>3. CASE \E row \in Row : SkipRow(row)
  BY <1>3, SkipKeeps
<1>4. CASE \E row \in Row : HeaderRow(row)
  BY <1>4, HeaderKeeps
<1>5. CASE \E row \in Row : RecordRow(row)
  BY <1>5, RecordKeeps
<1>6. CASE EndOfFile
  BY <1>6, EndOfFileKeeps
<1>7. CASE UNCHANGED vars
  <2>1. /\ rows' = rows /\ current' = current /\ header' = header /\ records' = records
        /\ sections' = sections /\ outcome' = outcome
    BY <1>7 DEF vars
  <2>2. ScanTypeOK'
    BY <2>1 DEF DbInv, ScanTypeOK
  <2>5. /\ Markers' = Markers /\ DataRows' = DataRows /\ Here' = Here
        /\ \A k : LastMarker(k)' = LastMarker(k) /\ HeaderOf(k)' = HeaderOf(k)
        /\ \A k : (Inside(k)' <=> Inside(k)) /\ (Closes(k)' <=> Closes(k))
    BY <2>1 DEF Markers, DataRows, Here, LastMarker, HeaderOf, Inside, Closes
  <2>6. /\ \A k, m : LastIs(k, m)' <=> LastIs(k, m)
        /\ \A k, h : HeadIs(k, h)' <=> HeadIs(k, h)
        /\ \A m : After(m)' = After(m)
    BY <2>5 DEF LastIs, HeadIs, After
  <2>3. outcome = "reading" => ScanInv'
    <3> SUFFICES ASSUME outcome = "reading" PROVE ScanInv'
      OBVIOUS
    <3>1. Chosen /\ OpenSection /\ Flushed /\ Filed /\ NoError
      BY DEF DbInv, ScanInv
    <3>2. Chosen'
      BY <3>1, <2>5, <2>6 DEF Chosen
    <3>3. OpenSection'
      BY <3>1, <2>1, <2>5, <2>6 DEF OpenSection
    <3>4. Flushed'
      BY <3>1, <2>1, <2>5, <2>6 DEF Flushed
    <3>5. Filed'
      BY <3>1, <2>1, <2>5, <2>6 DEF Filed
    <3>6. NoError'
      BY <3>1, <2>1, <2>5, <2>6 DEF NoError
    <3> QED
      BY <3>2, <3>3, <3>4, <3>5, <3>6 DEF ScanInv
  <2>4. outcome # "reading" => RecordsUnderTheirHeader' /\ ErrorsAreJustified'
    <3> SUFFICES ASSUME outcome # "reading" PROVE RecordsUnderTheirHeader' /\ ErrorsAreJustified'
      OBVIOUS
    <3>1. RecordsUnderTheirHeader /\ ErrorsAreJustified
      BY DEF DbInv
    <3>2. RecordsUnderTheirHeader'
      BY <3>1, <2>1, <2>5 DEF RecordsUnderTheirHeader
    <3>3. ErrorsAreJustified'
      BY <3>1, <2>1, <2>5 DEF ErrorsAreJustified
    <3> QED
      BY <3>2, <3>3
  <2> QED
    BY <2>1, <2>2, <2>3, <2>4 DEF DbInv
<1> QED
  BY <1>1, <1>2, <1>3, <1>4, <1>5, <1>6, <1>7 DEF Next, Returned

\* Of every db_csv file, whatever its length and however its sections follow
\* each other, splitDBCSVSections files each data row under the section it is
\* in and reads it under that section's header.
THEOREM RecordsCorrect == Spec => []RecordsUnderTheirHeader
<1>1. DbInv => RecordsUnderTheirHeader
  BY DEF DbInv, RecordsUnderTheirHeader
<1> QED
  BY <1>1, InitSound, NextSound, PTL DEF Spec

\* It fails on an END_ that closes nothing, on a section that is open at the end
\* of the file and on a value without a header, and on no other file.  Sections
\* that a START_ cuts off are accepted.
THEOREM ErrorsCorrect == Spec => []ErrorsAreJustified
<1>1. DbInv => ErrorsAreJustified
  BY DEF DbInv, ErrorsAreJustified
<1> QED
  BY <1>1, InitSound, NextSound, PTL DEF Spec
=============================================================================
