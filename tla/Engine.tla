------------------------------- MODULE Engine ------------------------------
(***************************************************************************)
(* Engine.Parse of the parser: the source is read (SourceReader), its      *)
(* files become records (Records), the records are merged (Finalize).  The *)
(* composition fixes what a request to the parser promises as a whole: all *)
(* of the source or an error, and a result that can be stored.             *)
(*                                                                         *)
(* The content of a file, entry.file, is what the readers of its format    *)
(* make of the bytes: tables (one for a CSV file, one for each section of  *)
(* a db_csv file, see DbCsv) or lines.                                     *)
(***************************************************************************)
EXTENDS SourceReader, Records, Finalize

Concat == INSTANCE SequencesExt

\* What the readers of a format make of the bytes: rows of values, which may
\* be shorter or longer than their header, or lines.
ASSUME FileAssumption ==
  \A f \in File :
    /\ f.format \in {"blank", "broken", "lines", "tables"}
    /\ f.format \in {"lines", "tables"} => f.name \subseteq STRING
    /\ f.format = "lines" =>
         f.lines \in Seq([type : {"flush", "malformed"}]
                         \cup [type : {"pair"}, key : STRING, value : STRING])
    /\ f.format = "tables" =>
         f.tables \in Seq([name : SUBSET STRING, header : Seq(STRING), rows : Seq(Seq(STRING))])

VARIABLES
  file,     \* the file parseFiles is at
  pending,  \* the records of the file before it that are not converted yet
  result    \* how Parse ends, "" while it runs

parseVars == <<file, pending, result>>
engineVars == <<sourceVars, vars, parseVars>>

EngineInit ==
  /\ SourceInit
  /\ input = [nodes |-> <<>>, infos |-> <<>>, ports |-> <<>>]
  /\ loop = "nodes"
  /\ i = 1
  /\ out = [nodes |-> <<>>, infos |-> <<>>, ports |-> <<>>]
  /\ file = 1
  /\ pending = <<>>
  /\ result = ""

-----------------------------------------------------------------------------
ReadSource ==
  /\ SourceNext
  /\ UNCHANGED <<vars, parseVars>>

Finish(r) ==
  /\ result = ""
  /\ result' = r
  /\ UNCHANGED <<sourceVars, vars, file, pending>>

ReadFailed == reading \in Ends \ {"ok"} /\ Finish(reading)

Content(k) == source.entries[files[k]].file

\* The records of a file with the names under which they are classified.
RecordsOf(f) ==
  LET Named(name, recs) == [k \in DOMAIN recs |-> [name |-> name, raw |-> recs[k]]]
  IN IF f.format = "lines"
       THEN Named(f.name, KeyValueRecords(f.lines))
       ELSE Concat!FlattenSeq([k \in DOMAIN f.tables |->
              Named(f.name \cup f.tables[k].name, TableRecords(f.tables[k]))])

\* Quotes and markers that the format does not allow, a line without a key, a
\* value without a header.
Unreadable(f) ==
  \/ f.format = "broken"
  \/ f.format = "lines" /\ MalformedLine(f.lines)
  \/ f.format = "tables" /\ \E t \in DOMAIN f.tables :
       \E k \in DOMAIN f.tables[t].rows : ExtraValue(f.tables[t].header, f.tables[t].rows[k])

Parsing == reading = "ok" /\ result = ""
AtFile == Parsing /\ pending = <<>> /\ file <= Len(files)

\* A file of white space only has the format "blank".
ParseFile ==
  /\ AtFile
  /\ ~ Unreadable(Content(file))
  /\ pending' = IF Content(file).format = "blank" THEN <<>> ELSE RecordsOf(Content(file))
  /\ file' = file + 1
  /\ UNCHANGED <<sourceVars, vars, result>>

RejectFile == AtFile /\ Unreadable(Content(file)) /\ Finish("ErrParse")

CancelParsing == AtFile /\ Finish("canceled")

\* Mutant: a record with a malformed number is dropped.
ParseRecordOrDrop ==
  /\ Parsing
  /\ pending # <<>>
  /\ \E rec \in normalizeRecord(pending[1].raw) :
       LET class == classifyRecord(pending[1].name, rec)
           bad == \E c \in ColumnsOf(class) : IsMalformed(rec, c)
       IN input' = IF bad THEN input
                   ELSE CASE class = "port" -> [input EXCEPT !.ports = Append(@, ToPort(rec))]
                          [] class = "info" -> [input EXCEPT !.infos = Append(@, ToInfo(rec))]
                          [] class = "node" -> [input EXCEPT !.nodes = Append(@, ToNode(rec))]
                          [] OTHER -> input
  /\ pending' = Tail(pending)
  /\ UNCHANGED <<sourceVars, loop, i, out, file, result>>

\* recordsToParsedLog, one record; one that fits no class is dropped.
ParseRecord ==
  /\ Parsing
  /\ pending # <<>>
  /\ \E rec \in normalizeRecord(pending[1].raw) :
       LET class == classifyRecord(pending[1].name, rec)
       IN /\ \A c \in ColumnsOf(class) : ~ IsMalformed(rec, c)
          /\ input' = CASE class = "port" -> [input EXCEPT !.ports = Append(@, ToPort(rec))]
                        [] class = "info" -> [input EXCEPT !.infos = Append(@, ToInfo(rec))]
                        [] class = "node" -> [input EXCEPT !.nodes = Append(@, ToNode(rec))]
                        [] OTHER -> input
  /\ pending' = Tail(pending)
  /\ UNCHANGED <<sourceVars, loop, i, out, file, result>>

RejectRecord ==
  /\ Parsing
  /\ pending # <<>>
  /\ \E rec \in normalizeRecord(pending[1].raw) :
       \E c \in ColumnsOf(classifyRecord(pending[1].name, rec)) : IsMalformed(rec, c)
  /\ Finish("ErrParse")

AllParsed == Parsing /\ pending = <<>> /\ file > Len(files)

MergeStep ==
  /\ AllParsed
  /\ loop # "end"
  /\ Next
  /\ UNCHANGED <<sourceVars, parseVars>>

ReturnParsed ==
  /\ AllParsed
  /\ loop = "end"
  /\ Finish(IF out.nodes = <<>> THEN "ErrParse" ELSE "ok")

Answered == result # "" /\ UNCHANGED engineVars

EngineNext ==
  \/ ReadSource
  \/ ReadFailed
  \/ ParseFile
  \/ RejectFile
  \/ CancelParsing
  \/ ParseRecord
  \/ RejectRecord
  \/ MergeStep
  \/ ReturnParsed
  \/ Answered

EngineSpec == EngineInit /\ [][EngineNext]_engineVars
-----------------------------------------------------------------------------
\* All records of the source, each with the name of its file or section.
AllRecords ==
  UNION {LET f == Content(k)
         IN IF f.format \in {"lines", "tables"} THEN ItemsOf(RecordsOf(f)) ELSE {} :
           k \in DOMAIN files}

ValuesOf(raw, key) == {raw[c] : c \in {d \in DOMAIN raw : normalizeKey(d) = key}}

\* No record is lost on the way from the bytes to the result: if it says in its
\* column node_guid, or without that in node_id, which node it is about, then
\* the node is in the result, whatever class and file the record belongs to.
GUIDsSurvive ==
  result = "ok" =>
    \A r \in AllRecords :
      LET named == IF ValuesOf(r.raw, "nodeguid") # {} THEN ValuesOf(r.raw, "nodeguid")
                   ELSE ValuesOf(r.raw, "nodeid")
      IN named # {} /\ "" \notin named => named \cap GUIDs(out.nodes) # {}

\* The texts that a column may have in a record: those of the first of its
\* alternatives that is there, in whatever spellings it is there.
TextsOf(raw, column) ==
  LET present == {k \in DOMAIN column : ValuesOf(raw, column[k]) # {}}
  IN IF present = {} THEN {}
     ELSE ValuesOf(raw, column[CHOOSE k \in present : \A j \in present : k <= j])

\* The numeric columns that are read of a record: its class is a matter of which
\* columns there are, not of what is in them.
ReadOf(r) ==
  ColumnsOf(classifyRecord(r.name, [key \in {normalizeKey(c) : c \in DOMAIN r.raw} |-> ""]))

NumberTexts == DOMAIN Number \cup {""}

\* What the parser checks of README:808, "malformed numeric fields" are a parse
\* error.  If a source is accepted, every numeric column that is read of a record,
\* in whatever file, has a text that is a number or empty; if it is refused with
\* ErrParse, there is a reason, which is a file that cannot be read, no node in
\* any of them, or a column that is read and has a text that is no number.
\* What is not read is not checked, contrary to that line: a column of another
\* class (a lone linkwidthactv makes no port), an alternative after the first one
\* that is there (portnumber beside port_num), and of two spellings of one name
\* the one that normalizeRecord drops, so that with one text good and one bad
\* the same source may be accepted or refused.
NumbersAreChecked ==
  /\ result = "ok" =>
       \A r \in AllRecords : \A column \in ReadOf(r) :
         TextsOf(r.raw, column) # {} => TextsOf(r.raw, column) \cap NumberTexts # {}
  /\ result = "ErrParse" =>
       \/ \E k \in DOMAIN files : Unreadable(Content(k))
       \/ loop = "end" /\ out.nodes = <<>>
       \/ \E r \in AllRecords : \E column \in ReadOf(r) :
            TextsOf(r.raw, column) \ NumberTexts # {}
=============================================================================
