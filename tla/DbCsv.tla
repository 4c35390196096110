-------------------------------- MODULE DbCsv -------------------------------
(***************************************************************************)
(* parseDBCSV of the parser: the scan that cuts the rows of a db_csv file  *)
(* into START_/END_ sections (splitDBCSVSections), and what becomes of the *)
(* file after it, the fallback to plain CSV included.                      *)
(*                                                                         *)
(* A row is what the scan can tell of it: a START_ or END_ marker with its *)
(* section name, a comment, or a row with some number of values.  Rows are *)
(* identified by their position; records and headers are positions.        *)
(***************************************************************************)
EXTENDS Integers, Sequences

CONSTANTS
  Name,      \* section names; "" is the name of a bare "START_"
  MaxWidth,  \* bound on the values of a row
  MaxRows    \* bound on the rows of a file

\* Go's empty string.
NoName == ""

ASSUME BoundsAssumption == MaxWidth \in Nat \ {0} /\ MaxRows \in Nat

VARIABLES
  rows,      \* the rows read so far, for the fallback and the properties
  current,   \* currentName; "" outside of a section
  header,    \* currentHeader: a position, 0 if there is none
  records,   \* currentRecords
  sections,  \* the sections flushed so far: [name, header, records]
  outcome    \* "reading", then how parseDBCSV ends

vars == <<rows, current, header, records, sections, outcome>>

Row ==
  [type : {"start", "end"}, name : Name, width : {1}]
    \cup [type : {"meta"}, name : {NoName}, width : {1}]
    \cup [type : {"row"}, name : {NoName}, width : 1 .. MaxWidth]

Init ==
  /\ rows = <<>>
  /\ current = NoName
  /\ header = 0
  /\ records = <<>>
  /\ sections = <<>>
  /\ outcome = "reading"

-----------------------------------------------------------------------------
\* Mutant: the header of a section stays for the next one.
flushKeepsHeader ==
  /\ records' = <<>>
  /\ sections' =
       IF current # NoName /\ records # <<>>
         THEN Append(sections, [name |-> current, header |-> header, records |-> records])
         ELSE sections
  /\ UNCHANGED header

flush ==
  /\ header' = 0
  /\ records' = <<>>
  /\ sections' =
       IF current # NoName /\ records # <<>>
         THEN Append(sections, [name |-> current, header |-> header, records |-> records])
         ELSE sections

Read(row) ==
  /\ outcome = "reading"
  /\ Len(rows) < MaxRows
  /\ rows' = Append(rows, row)

ParseError == outcome' = "error" /\ UNCHANGED <<current, header, records, sections>>

\* A START_ marker is taken whether or not a section is open.
StartSection(row) ==
  /\ Read(row)
  /\ row.type = "start"
  /\ flush
  /\ current' = row.name
  /\ UNCHANGED outcome

\* Mutant: the name of an END_ marker is not compared.
EndAnySection(row) ==
  /\ Read(row)
  /\ row.type = "end"
  /\ IF current = NoName
       THEN ParseError
       ELSE /\ flush
            /\ current' = NoName
            /\ UNCHANGED outcome

EndSection(row) ==
  /\ Read(row)
  /\ row.type = "end"
  /\ IF current = NoName \/ row.name # current
       THEN ParseError
       ELSE /\ flush
            /\ current' = NoName
            /\ UNCHANGED outcome

\* Rows outside of a section, and comments inside of one.
SkipRow(row) ==
  /\ Read(row)
  /\ row.type = "meta" \/ (row.type = "row" /\ current = NoName)
  /\ UNCHANGED <<current, header, records, sections, outcome>>

HeaderRow(row) ==
  /\ Read(row)
  /\ row.type = "row" /\ current # NoName /\ header = 0
  /\ header' = Len(rows) + 1
  /\ UNCHANGED <<current, records, sections, outcome>>

\* rowToRecord: missing values are allowed, values beyond the header are not.
RecordRow(row) ==
  /\ Read(row)
  /\ row.type = "row" /\ current # NoName /\ header # 0
  /\ IF row.width > rows[header].width
       THEN ParseError
       ELSE /\ records' = Append(records, Len(rows) + 1)
            /\ UNCHANGED <<current, header, sections, outcome>>

\* parseCSV on the same rows: the first one is the header of all others, be
\* they markers, comments or records.
CSVOutcome ==
  IF Len(rows) >= 2 /\ \E k \in 2 .. Len(rows) : rows[k].width > rows[1].width
    THEN "csvError" ELSE "csv"

EndOfFile ==
  /\ outcome = "reading"
  /\ IF current # NoName
       THEN ParseError
       ELSE /\ flush
            /\ outcome' = IF sections' = <<>> THEN CSVOutcome ELSE "sections"
            /\ UNCHANGED current
  /\ UNCHANGED rows

Returned == outcome # "reading" /\ UNCHANGED vars

Next ==
  \/ \E row \in Row :
       \/ StartSection(row)
       \/ EndSection(row)
       \/ SkipRow(row)
       \/ HeaderRow(row)
       \/ RecordRow(row)
  \/ EndOfFile
  \/ Returned

Spec == Init /\ [][Next]_vars

-----------------------------------------------------------------------------
Markers == {k \in DOMAIN rows : rows[k].type \in {"start", "end"}}

\* The marker that decides which section position k belongs to, 0 if none does.
LastMarker(k) ==
  LET before == {m \in Markers : m < k}
  IN IF before = {} THEN 0 ELSE CHOOSE m \in before : \A n \in before : n <= m

Inside(k) == LastMarker(k) # 0 /\ rows[LastMarker(k)].type = "start"
               /\ rows[LastMarker(k)].name # NoName

DataRows == {k \in DOMAIN rows : rows[k].type = "row" /\ Inside(k)}

\* The first data row after the marker names the columns of the others.
HeaderOf(k) ==
  CHOOSE h \in DataRows : /\ LastMarker(h) = LastMarker(k)
                          /\ \A j \in DataRows : LastMarker(j) = LastMarker(k) => h <= j

\* If the file is accepted, every data row of a section but its header is a
\* record of exactly one section: the one whose START_ precedes it, read under
\* that section's header and no other's.
RecordsUnderTheirHeader ==
  outcome = "sections" =>
    LET Filed(k) == {s \in DOMAIN sections :
                       \E j \in DOMAIN sections[s].records : sections[s].records[j] = k}
    IN \A k \in DOMAIN rows :
         IF k \in DataRows /\ k # HeaderOf(k)
           THEN \E s \in DOMAIN sections :
                  /\ Filed(k) = {s}
                  /\ sections[s].header = HeaderOf(k)
                  /\ sections[s].name = rows[LastMarker(k)].name
                  /\ rows[k].width <= rows[HeaderOf(k)].width
           ELSE Filed(k) = {}

Closes(k) == rows[k].type = "end" =>
  Inside(k) /\ rows[LastMarker(k)].name = rows[k].name

\* The scan fails exactly on an END_ that does not close the section of the
\* marker before it, on a section still open at the end of the file, and on a
\* value without a header.  This is what the code refuses, not all that
\* src/README.md:809 says it does: a section that the next START_ cuts off is
\* not closed either, and its records are kept as if an END_ had closed it.
ErrorsAreJustified ==
  outcome # "reading" =>
    LET mismatch == \E k \in Markers : ~ Closes(k)
        openAtEnd == Inside(Len(rows) + 1)
        wide == \E k \in DataRows : rows[k].width > rows[HeaderOf(k)].width
    IN IF outcome = "error"
         THEN mismatch \/ openAtEnd \/ wide
         ELSE ~ (mismatch \/ openAtEnd \/ wide)
=============================================================================
