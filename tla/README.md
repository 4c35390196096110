# microservice-log-parser in TLA+

The repository is a set of Go services that parse diagnostic archives of an
InfiniBand fabric, store what they find and infer a topology of it. This
directory holds TLA+ models of the services, configurations with which TLC
checks them on small instances, and proofs that hold for instances of every
size.

Paths below are relative to `src/log-services/` unless they start with `src/`.

## 1. The system

```
client ── HTTP ──> app ── gRPC ──> parser        (reads the archive)
                    │ ── gRPC ──> repository ──> PostgreSQL
                    └─── gRPC ──> topology ── gRPC ──> repository
```

| Component | State | Operations | Modelled in |
|---|---|---|---|
| repository: writes (`repository/adapters/db/storage.go`) | tables `logs`, `nodes`, `nodes_info`, `ports`; row locks, transactions | `CreateLog`, `SaveParsedLog`, `FailLog` | `LogLifecycle` (abstract), `LogStore` |
| repository: reads (same file) | what a read of several statements has seen | `GetLog`, `GetNode`, `GetNodesByLog`, `GetPortsByLog`, `GetPortsByNode`, `GetTopologyData` | `LogReads`; columns in `Wire` |
| app: `ParseLog` (`app/core/service.go`) | one request: log id, parsed data, error; calls in flight | create, parse, save, `failLog` | `ParsePipeline` |
| app: reading endpoints (`app/adapters/rest`) | none | the calls behind each GET, pages, payloads | `LogReads`, `LogPages`, `Wire` |
| app: health check (`app/adapters/rest/api.go`) | one deadline | a ping of every service in turn | `AppServer` |
| app: server, shutdown, middleware (`app/main.go`) | deadlines of requests, state of the process | accept, body, handler, answer, shutdown | `AppServer` (partly) |
| error translation (`grpcError`, `mapGRPCError`, `httpStatusFromError`) | none | error → gRPC code → error → HTTP status | `ErrorMapping` |
| topology: edges (`topology/core/service.go`) | ports used so far, edges | `buildEdges` | `TopologyEdges` |
| topology: summary and groups (same file) | none | counts and groups of `GetTopology` | `TopologyView` |
| parser: source reader (`parser/parser/engine.go`, `archive.go`) | files and bytes counted against limits | path resolution; directory, ZIP, TAR, GZIP, file | `SourceReader` |
| parser: db_csv (`parser/parser/dbcsv.go`) | section being read | `splitDBCSVSections`, fallback to CSV | `DbCsv` |
| parser: records (`raw.go`, `section.go`, `dbcsv.go`) | none | rows and lines to records, normalisation, classification, conversion | `Records`, `Engine` |
| parser: finalize (`parser/parser/section.go`) | merged nodes, infos, ports | `finalizeParsedLog` | `Finalize` |
| gRPC interfaces (`proto/`, all adapters) | none | field by field conversions, limit on messages | `Wire` |
| internal services: start and stop | none | wiring, `GracefulStop` | not modelled |
| logging and configuration | none | log lines, values read once | not modelled |

### Interaction

The services share nothing but the database behind the repository. A
`POST /api/v1/parse` is `CreateLog` (a row in status `processing`), `Parse`,
then `SaveParsedLog` (which makes it `parsed`); any error after `CreateLog`
leads to `FailLog` (which makes it `failed`) with a context of its own, so that
it is sent even when the request's deadline is what went wrong. A GET of a
topology goes from the app to the topology service and from there to the
repository; the other GETs go to the repository directly, some with two calls.

### What is hard, and what correctness means there

* **repository, writes.** A `FailLog` that is sent after a timeout meets the
  `SaveParsedLog` it is about; a transaction can fail at each of its
  statements, lose its connection before the commit or after it. Correct
  means: one finalizer wins, a finalized log never changes, and nobody sees
  half of a parsed log.
* **repository, reads.** Commits fall between the statements of one read, and
  between the pages of one list. Correct means: what is returned together
  belongs together.
* **app, ParseLog.** Three services, a deadline for each leg, calls and answers
  that are lost or arrive when nobody listens. Correct means: the HTTP answer
  does not lie about the log, and a log does not stay `processing` except where
  the code knowingly gives up.
* **app, server.** Deadlines of the request, of `failLog` and of the shutdown
  add up; pings share one. Correct means: no handler outlives its deadlines,
  the shutdown cuts off nothing it need not, and the health check is right.
* **errors.** Up to four translations stand between a database error and an
  HTTP status. Correct means: 404, 409, 500 and 503 tell the client the truth.
* **topology.** Two greedy loops share one set of used ports. Correct means: no
  port gets two links, no link is missed, equal links are preferred, and the
  parts of the answer agree.
* **parser.** A source is read under three limits that each format checks at a
  moment of its own; records of one device come in any order, from several
  files, complete or not, under several names; sections may be empty, unnamed,
  nested, not closed. Correct means: all of the source is read or none of it,
  merging loses nothing but what the key of a port confuses, a record is read
  under the header of its own section, and errors are reported for a reason.
* **interfaces.** Every row is copied field by field nine times or more between
  the parser and the client. Correct means: what is shown is what was parsed.

`PROJECT.json` lists every hazard with its line and the properties that are for
it.

## 2. The modules

| Module | What it is |
|---|---|
| `LogLifecycle` | the abstract specification: a log is registered, then published with all of its content in one step, or failed; nothing changes after that |
| `LogStore` | the three writing handlers, one action per SQL statement, over row locks and transactions |
| `LogStoreProofs` | theorems about `LogStore` |
| `LogReads`, `LogReadsProofs` | `LogStore` extended by readers, one action per SQL statement; theorems about them |
| `LogPages` | `LogReads` extended by clients that walk through the pages of a list; `LogReadsProofs` is about it too |
| `ErrorMapping` | the error translations, as operators without state |
| `ParsePipeline` | the app's `ParseLog` and the network, next to `LogStore`, each call of a request being a session of it |
| `ParsePipelineProofs` | proofs about it |
| `AppServer`, `AppServerProofs` | the app's requests against a clock, with their deadlines and the shutdown; theorems about them |
| `TopologyEdges` | `buildEdges`, one step per iteration |
| `TopologyView`, `TopologyProofs` | `GetTopology` around `buildEdges`: counts, nodes, groups and the answer; theorems about both |
| `SourceReader` | `resolvePath` and the readers of all kinds of sources, one step per entry |
| `DbCsv`, `DbCsvProofs` | the scan of a db_csv file, one step per row; theorems about it |
| `Records` | from rows and lines to typed records, as operators without state |
| `Finalize` | `finalizeParsedLog`, one step per record |
| `Engine`, `EngineProofs` | `Engine.Parse`: the composition of `SourceReader`, `Records` and `Finalize`; theorems about the source reader, about `Finalize` and about the whole |
| `Wire`, `WireProofs` | a parsed log on its way through all services into the tables, and back to the client, one step per message; theorems about it |
| `MC*` | definitions for TLC |

`LogPages` extends `LogReads` extends `LogStore`; `ParsePipeline`
extends `LogStore`, with one session per call of a request; `TopologyView` extends `TopologyEdges`; `Engine`
extends the three modules it composes.

### LogStore

A *session* is a gRPC handler with its database connection. `pc` is the
statement it will execute next: `"create"`, `"lock"` (`SELECT status ... FOR
UPDATE`), `"insert"` (one INSERT for each row of the three loops, then the
UPDATE and the COMMIT), `"fail"` (the guarded UPDATE of `FailLog`), `"explain"`
(the SELECT that finds out why the UPDATE changed no row). `tx` holds the rows
a transaction has written and nobody else sees, `rows` the committed ones,
`lock` the owner of each log's row lock. `reply` is what the handler returns.

A row is reduced to the columns that a check or a constraint looks at: the
node's GUID and the port number. That keeps all reasons for which
`SaveParsedLog` refuses a row: an empty GUID, a GUID that is not among the
nodes of the log, a violated unique index.

`StatementFails` ends a handler at any statement (a cancelled context, a broken
connection, an error of the database). `Crash` ends all handlers at once.
`CreateLog`, `CommitParsed` and `FailLog` may report an error although they
committed, because the connection can break between the commit and its
acknowledgement. What PostgreSQL promises is stated in the module next to the
action that relies on it: READ COMMITTED, a row lock that is held to the end of
the transaction, and a WHERE clause that is evaluated on the committed row.

### LogReads and LogPages

A reader is one GET with the statements behind it; `ReadState` records what it
has been told so far. `GetTopologyData` is a REPEATABLE READ transaction: its
first statement takes the snapshot that the later ones see. The topology
service's check of the status is part of the last step, because nothing else
can happen to the data in between. `HttpAnswer` sends the result through the
translations of every service it passes.

`LogPages` adds `limit` and `offset`. A walk is a client that begins at an
offset of its choice and asks for one page after the other; each page reads the
whole list anew and cuts the page out of it (`paginatePorts`).

### ParsePipeline

Each request has three calls that reach the repository, and each call is a
session of the store. `wire` holds the calls that have been sent and not
delivered. `GiveUp` is the app's view of a deadline, a client that left and a
broken connection alike; the handler in the repository goes on by itself, and
its answer is then dropped. The parser is any `ParsedLog` or any error.
`SaveRejected` is a message over gRPC's default limit of 4 MiB, which reaches
no handler. `AppCrash` is the end of the app's process, whatever ended it.

### AppServer

A request goes from its body to its calls, to `failLog` if there is a log to
fail, and to its answer. `now` is a clock; `Tick` waits for every handler whose
deadline has passed, since such a handler has nothing left to wait for. A body
that does not come and a client that does not read have no deadline: only the
end of the process ends them. `Calls` says how many calls a request makes,
`CallError` what errors they end with. The pings of a health check are made in
any order, as the walk over a map is, under one deadline; a ping whose deadline
has passed is `"silent"` if it was waited for and `"late"` if it was never
sent. `Panic` is caught by `Recover`. `server` is the process: it serves, it
drains after a signal, and it stops when all requests are done or
`ShutdownTimeout` is up; what is then unfinished is `"cut"`.

### TopologyEdges and TopologyView

The sorted slices of the code are sets, and a loop takes the first element of
what is left; the order is total because `(node_id, port_num)` is unique. The
inputs are a constant, `Family`: each member gives the possible kinds of nodes
and the possible ports of a snapshot.

`TopologyView` adds the pass over the nodes, which shares nothing with the
edges, and the answer. Names of groups matter only as far as they are valid
UTF-8: a string that is not cannot be put into a protobuf message.

### SourceReader, Records, Finalize, Engine and DbCsv

An entry of a source has its size three times: `stated` in the listing or
header, `stat` when it is about to be read, `size` when it is read. Each kind
of source looks at them at moments of its own, and `addFile` counts what it is
told. An entry that is not `sound` cannot be read: a file, a subdirectory that
the walk cannot list, a header of a TAR. Except in a ZIP, that may be noticed
before or after the size is counted, so that a source which is also too large
ends with one error or the other. Paths are sequences of elements.

`Records` turns the rows of a table, or the lines of a key-value file, into
records with normalised keys. The order in which Go walks through a map decides
which of two columns with the same normalised name survives; `normalizeRecord`
is therefore a set of records, and `ParseRecord` takes any of them. Texts are
model values with tables for what is asked of them: `Spelling` (to the
normalised key), `Number`, `Lower`, `Mentions`.

`Finalize` runs the three loops of the merge. A record has its keys and one or
two of its columns, since the others are merged by the same rule. On its own it
starts from any sequences of records; in `Engine` from what `Records` made of a
source.

The key of a port is what the code makes of it (`PortKey`): the two GUIDs
joined with a `|`, and the number. A `|` in a GUID is not escaped, so that ports
of different nodes can have one key; the second one is then merged into the
first, and its own node loses it. `MergedAndClosed`, `LastValueWins` and
`NothingLost` are about keys of `portIndex`, and the last one says which ports
may be missing: those that are `Confused` with another, and no others. A port
stays in `portIndex` under the key it entered with, even if `mergePort` has
patched its columns; that is the field `key` of a port in `out`.

`NumbersAreChecked` says when the numeric columns decide about a source. If it
is accepted, each column that is *read* of a record has a text that is a number,
or empty. If it is refused with `ErrParse`, there is a reason for that. Not read,
and so not checked, are columns of another class than the record's, the
alternatives after the first one that is there, and of two spellings of one name
the one that `normalizeRecord` drops (see "Where code and documentation differ").

`DbCsv` reads a file row by row; a row is a marker with a name, a comment, or a
number of values; sections hold positions in the file, so that the properties
can ask which header was used for which record. What is an error is what the
code makes one: a section that the next `START_` cuts off is none, whatever the
documentation says. `Engine` takes the sections as given, one table for each.

### Wire

Every field of every row is a value of its own, so that a copy that leaves out
or exchanges fields shows. A value has a text, which is clean, not UTF-8, or
holds a NUL, and a size. `POST /parse` goes through two messages and the tables
(`ParserReturns`, `ParseReplied`, `SaveRequested`, `SaveParsedLog`, `FailLog`);
a GET through a query, one message or two, and the payload. The two ways that
exist for reading, lists and topology, have conversions of their own. A message
over the limit, or with a string that is not UTF-8, is an error of the call; a
string with a NUL, or two ports of one node with one number, is refused by the
tables (`Storable`).
Which ports make an edge is left open here: it is `TopologyEdges`' subject.

## 3. Runs

| Run | Bounds | What it shows |
|---|---|---|
| `log_store` | 2 handlers, 1 log, 8 `ParsedLog`s | `TypeOK`, `DataMatchesStatus`, `CheckedStatusHolds`, `OneFinalizer`, `ImplementsLifecycle`, `HandlersFinish`, `TerminalIsFinal` |
| `log_reads` | 2 handlers, 1 reader, 1 log with 3 ports, pages of 1 or 2 | `TopologyDataIsSnapshot`, `HttpStatusIsTrue`, `ListsAreAllOrNothing`, `NodeBelongsTogether`, `PagesMakeTheList` |
| `parse_pipeline` | 2 requests, 2 logs | `OkMeansStored`, `RefusalIsDefinite`, `ConflictMeansSaved`, `ProcessingHasOwner` |
| `parse_live` | 1 request | `EveryLogSettles` |
| `parse_stuck` | 1 request | violation of `ProcessingMeansUnfinished` |
| `app_server` | 2 requests, 2 services, timeouts of 2, 1 and 3 ticks, 5 ticks | `HandlersAreBounded`, `OnlyLateRequestsAreCut`, `HealthIsTrue`, `ShutdownEnds` |
| `topology` | 3 nodes × 2 ports of 4 kinds; 4 nodes × 3 ports; 4 nodes of 6 kinds | `PortsUsedOnce`, `EdgesAreSound`, `BackboneMaximal`, `HostLinksMaximal`, `LinkMatchPreferred`, `PartsAgree` |
| `topology_name` | 4 nodes of 6 kinds | violation of `EveryKindHasItsGroup` |
| `engine` | paths of up to 4 elements; sources of up to 4 entries around limits of 2, 3 and 4; archives of up to 3 of 22 different files | `PathStaysInside`, `WithinLimits`, `RefusalIsJustified`, `AllOrNothing`, `GUIDsSurvive`, `NumbersAreChecked`, `MergedAndClosed`, `LastValueWins`, `NothingLost` |
| `finalize_ports` | up to 2 records of each class | violation of `PortsAreStorable` |
| `db_csv` | up to 6 rows of up to 2 values, 3 names | `RecordsUnderTheirHeader`, `ErrorsAreJustified` |
| `wire` | 5 results of up to 2 nodes, infos and ports; 6 sizes, 6 flaws | `PostIsTrue`, `ViewsShowWhatWasParsed` |

Why the bounds are enough:

* **log_store.** Handlers meet at one row lock, so one log holds every conflict
  of two handlers. The eight `ParsedLog`s contain each reason for a refusal
  once, in each table it can occur in, and two that can be stored and differ. A
  handler is reused after `Return`, so that two sessions also play a long
  sequence of calls, and repeated and late ones. More handlers and logs are the
  subject of the proofs.
* **log_reads.** A reader changes nothing that others see, so one of them meets
  every interleaving of the writers with its statements. Three ports in pages of
  one or two have a first, a middle and a last page, full or not.
* **parse_pipeline.** Requests interact only through identifiers and crashes;
  two of them exchange both.
* **app_server.** Requests meet only at the shutdown; two of them show one that
  is done and one that is not. The timeouts are in the code's proportions: the
  shutdown's is the sum of the request's and `failLog`'s, the tightest case
  that `ServerAssumption` allows, and five ticks hold a request, a signal and
  the whole of the shutdown. A health check of two services has one before and
  one behind the service that hangs.
* **topology.** Competition for a matching port needs two host ports and two
  switch ports; sharing between the loops needs a host and two switches; a
  switch that is a source and a target needs three switches; a port number 0
  needs a third port; the order of groups needs the three kinds with a place of
  their own and two others.
* **engine.** Three families of requests. Four path elements climb out of the
  data directory, two levels deep, and come back. Sizes from 0 to 3 around
  limits of 2 bytes for a file, 3 files and 4 bytes in all lie on, below and
  above each limit, with sizes that agree or not. Archives of three files, each
  with a record or a defect that the parser treats differently, merge records
  of one node from three of them in any order; among them are numeric columns in
  two spellings or under two names, one text good and one bad, and two different
  ports with one key.
* **finalize_ports.** Two records are what disagrees.
* **db_csv.** Six rows hold a section with header and record, a second marker
  inside or after it, and a row behind that.
* **wire.** Two rows of each table tell a row from its neighbour; infos stand in
  another order than their nodes, and are absent for one. The sizes cross the
  limit at the first message, at the second one, which also carries the id of
  the log, and only at the answer of a read.

`CHECK_DEADLOCK` is off in `app_server` alone, where the process really stops.
In the other modules that may stop a stuttering step of its own says when
(`Finished`, `Returned`, `Done`, `Answered`).

### Fairness

* `LogStore`: `WF` of a handler's own statements, because database/sql and
  PostgreSQL go on executing them; `SF` of the two statements that wait for a
  row lock, because the lock is free again and again and PostgreSQL queues the
  waiters. Nothing is assumed of clients, failures and crashes.
* `ParsePipeline`: the app's handler of a request goes on, at the latest when
  its deadline fires (`APP_TIMEOUT`, `failLogTimeout`); the network delivers or
  loses what was sent; the repository's handlers end. No failure is assumed to
  happen or not to happen, which is why `EveryLogSettles` names the cases in
  which the code gives up on a log.
* `AppServer`: time goes on, a handler whose deadline has passed or that has
  made its calls goes on, and the server notices that it is idle or that
  its time is up. Nothing is assumed of clients, services and signals.

### Mutants

Each property has a mutant in `PROJECT.json`: a definition of the model changed
the way a plausible bug would change the code (no `FOR UPDATE`, INSERTs outside
of the transaction, an unguarded UPDATE, `failLog` forgotten on one path, a
header kept for the next section, a total that is not kept, ...). The mutated
definition stands before the original in its module, under a comment that starts
with `Mutant`, and is used nowhere. Put in the place of the original, TLC
reports the property violated.

### Where code and documentation differ

1. `parse_stuck`. `src/README.md:836` says that a `processing` log is one whose
   parsing or saving is not complete. When `FailLog` itself fails or its five
   seconds run out, `failLog` (`app/core/service.go:129`) logs a warning and
   the log stays `processing` for good.
2. `finalize_ports`. `src/README.md:813` says that duplicate ports are merged at
   the finalize stage. `portIndex` (`parser/parser/section.go:314`) has
   `port_guid` in its key, so two records of one port, of which one lacks the
   GUID, are both kept, and the unique index on `(log_id, node_id, port_num)`
   refuses the whole log.
3. `topology_name`. `src/README.md:917` says that the topology has groups for
   host, switch, unknown and the other kinds. `title`
   (`topology/core/service.go:362`) upper-cases the first byte of a kind, not
   its first letter; a kind that begins with a letter outside of ASCII becomes a
   name that is not UTF-8, and the topology of that log is answered with 500.

Noted on the way; no run is about these:

* `src/README.md:809` says that sections that are not closed are a parse error.
  That holds only of a section that is open at the end of the file. A `START_`
  inside an open section closes it silently, and its records are kept
  (`parser/parser/dbcsv.go:136`, `StartSection`). `ErrorsAreJustified` and
  `ErrorsCorrect` state what the code does and not what that line says: of
  `START_A`, header, record, `START_B`, header, record, `END_B` the code reads
  two sections, and the properties agree.
* `src/README.md:808` says that malformed numeric fields are a parse error. Only
  what `recordsToParsedLog` reads is checked. A lone `linkwidthactv=abc` makes no
  port and is ignored (`parser/parser/section.go:224`); `portnumber=abc` next to
  `port_num=1` is never looked at (`section.go:199`, `getExisting`); of
  `PortNum=abc` and `port_num=1` in one row the order of a map decides which is
  left (`parser/parser/raw.go:17`), so that one and the same source may be
  accepted or refused. `NumbersAreChecked` leaves all three open.
* `src/README.md:813` says that *duplicate* ports are merged. The key joins the
  GUIDs with a `|` that a GUID may contain (`parser/parser/section.go:314`): a
  port `q` of node `A|p` and a port `p|q` of node `A` with the same number are
  merged although they are ports of different nodes, and the second node is left
  without its port. `NothingLost` allows exactly that.
* The comment at `parser/parser/dbcsv.go:54` says that the fallback is for a
  file without `START_`/`END_`. A file whose sections hold no record takes it
  too, with a marker for a header (`EndOfFile`).
* `src/README.md:815` says that `node_kind` is taken from the field if there is
  one. A record in a file whose path contains `port` is taken for a port
  (`parser/parser/section.go:224`), and the node that it names gets the kind
  `unknown` (`classifyRecord`, `ensureNode`).
* `src/README.md:242` says that a service that is unavailable is marked
  `unavailable` by the health check. So is one that was never asked, because
  the service before it used up the deadline they share
  (`app/adapters/rest/api.go:17`). `HealthIsTrue` is therefore about the status
  code, and says of a 503 only that some service failed.
* The text of an error may hold a NUL, from the name of a file in an archive;
  PostgreSQL refuses it, and the log stays `processing` (`Wire`'s `FailLog`).
* The answers for lists and topologies carry more ids than the log that was
  saved. A log just below the limit on messages can be saved and not be shown
  (`Wire`'s `RepositoryReplied`).
* `src/README.md:896` maps `ErrInvalidStatus` to HTTP 409. `RefusalIsDefinite`
  shows that `POST /parse` itself never answers it.

## 4. Proofs

| Theorem | Statement |
|---|---|
| `LogStoreProofs!TypeCorrect` | `Spec => []TypeOK` |
| `LogStoreProofs!CheckedStatusCorrect` | `Spec => []CheckedStatusHolds` |
| `LogStoreProofs!DataCorrect` | `Spec => []DataMatchesStatus` |
| `LogStoreProofs!FinalizerCorrect` | `Spec => []OneFinalizer` |
| `LogStoreProofs!TerminalCorrect` | `Spec => TerminalIsFinal` |
| `LogStoreProofs!LifecycleCorrect` | `Spec => ImplementsLifecycle` |
| `LogReadsProofs!ReadTypeCorrect` | `ReadSpec => []ReadTypeOK` |
| `LogReadsProofs!SnapshotCorrect` | `ReadSpec => []TopologyDataIsSnapshot` |
| `LogReadsProofs!ListsCorrect` | `ReadSpec => []ListsAreAllOrNothing` |
| `LogReadsProofs!StatusCorrect` | `ReadSpec => []HttpStatusIsTrue` |
| `LogReadsProofs!NodesCorrect` | `ReadSpec => []NodeBelongsTogether` |
| `LogReadsProofs!PagesCorrect` | `PageSpec => []PagesMakeTheList` |
| `LogReadsProofs!PagesReadSoundly` | `PageSpec => []` of all of the above about readers |
| `ParsePipelineProofs!OkMeansStoredCorrect` | `ParseSpec => []OkMeansStored` |
| `ParsePipelineProofs!RefusalCorrect` | `ParseSpec => []RefusalIsDefinite` |
| `ParsePipelineProofs!ConflictCorrect` | `ParseSpec => []ConflictMeansSaved` |
| `ParsePipelineProofs!OwnerCorrect` | `ParseSpec => []ProcessingHasOwner` |
| `ParsePipelineProofs!PipelineUsesStore` | `ParseSpec => Spec` (of `LogStore`) |
| `ParsePipelineProofs!SettledStays` | `ParseSpec => TerminalIsFinal /\ ImplementsLifecycle` |
| `AppServerProofs!ServerTypeCorrect` | `ServerSpec => []ServerTypeOK` |
| `AppServerProofs!HandlersBounded` | `ServerSpec => []HandlersAreBounded` |
| `AppServerProofs!ShutdownIsGraceful` | `ServerSpec => []OnlyLateRequestsAreCut` |
| `AppServerProofs!HealthCorrect` | `ServerSpec => []HealthIsTrue` |
| `EngineProofs!SourceTypeCorrect` | `SourceSpec => []SourceTypeOK` |
| `EngineProofs!LimitsCorrect` | `SourceSpec => []WithinLimits` |
| `EngineProofs!WholeSourceRead` | `SourceSpec => []AllOrNothing` |
| `EngineProofs!RefusalsCorrect` | `SourceSpec => []RefusalIsJustified` |
| `EngineProofs!PathsCorrect` | `SourceSpec => []PathStaysInside` |
| `EngineProofs!RecordsSurvive` | `EngineSpec => []GUIDsSurvive` |
| `EngineProofs!MalformedRefused` | `EngineSpec => []NumbersAreChecked` |
| `EngineProofs!EngineMerges` | `EngineSpec => [](MergedAndClosed /\ NothingLost /\ LastValueWins)` |
| `EngineProofs!EngineReads` | `EngineSpec => SourceSpec` |
| `EngineProofs!MergedCorrect` | `Spec => []MergedAndClosed` |
| `EngineProofs!NothingLostCorrect` | `Spec => []NothingLost` |
| `EngineProofs!LastValueCorrect` | `Spec => []LastValueWins` |
| `DbCsvProofs!RecordsCorrect` | `Spec => []RecordsUnderTheirHeader` |
| `DbCsvProofs!ErrorsCorrect` | `Spec => []ErrorsAreJustified` |
| `TopologyProofs!EdgesTypeCorrect` | `Spec => []TypeOK` |
| `TopologyProofs!PortsUsedOnceCorrect` | `Spec => []PortsUsedOnce` |
| `TopologyProofs!EdgesSoundCorrect` | `Spec => []EdgesAreSound` |
| `TopologyProofs!LinkMatchCorrect` | `Spec => []LinkMatchPreferred` |
| `TopologyProofs!HostLinksCorrect` | `Spec => []HostLinksMaximal` |
| `TopologyProofs!BackboneCorrect` | `Spec => []BackboneMaximal` |
| `TopologyProofs!ViewUsesEdges` | `ViewSpec => Spec` (of `TopologyEdges`) |
| `TopologyProofs!PartsCorrect` | `ViewSpec => []PartsAgree` |
| `WireProofs!PostCorrect` | `WireSpec => []PostIsTrue` |
| `WireProofs!ViewsCorrect` | `WireSpec => []ViewsShowWhatWasParsed` |

The assumptions are those that the modules name, and TLC evaluates them in every
run that extends the module: `MaxLogs` is a natural number, `NoSession` is not a
session, and a payload is a record of three sequences of rows (`LogStore`);
there is a GUID (`LogReads`); a client's `limit` and `offset` are integers, at
most one of each, and the configured limits are positive (`LogPages`); a request
has one session for each of its three calls (`ParsePipeline`); the timeouts are positive, and that of the
shutdown is at least the sum of the other two (`AppServer`, where a
configuration with other values is out of what is promised); limits are natural
numbers, the data directory is a clean path, which `filepath.Abs` sees to, a
request has a sequence of path elements, and a source has a kind and entries
(`SourceReader`); what
the readers of a format make of a file are rows of strings under a header, or
lines with a key and a value (`Engine`); what a text is as a number is an
integer, and the lower case of a text is not empty (`Records`); a record has the
columns of its class, its strings and integers, and a node's kind is not empty,
which `deriveNodeKind` sees to (`Finalize`); a row has at least one value
(`DbCsv`); kinds and ports of
a snapshot have the form and the uniqueness that the database gives them, and
there are finitely many (`TopologyEdges`); the alphabetical order of the kinds
lists each normalised kind, and each once (`TopologyView`); what the parser
returns has one row for a node and at most one info, and infos and ports name
nodes that have a row, which is `Finalize`'s `MergedAndClosed`, proved there
(`Wire`; that its ports differ is not assumed, because `finalize_ports` shows
that they may not).

**The store.** `TypeOK` alone is not inductive: `NextRow` indexes the payload
one behind the rows a transaction has, which is only a row while the
transaction has fewer rows than the payload. `TypeInv` adds `WithinParsed`,
which says so. `SafetyInv` is the inductive invariant. Its parts, and why each
one is needed:

* `Discipline`: the operation and log a session works on agree with its `pc`,
  and only a session in `"insert"` holds a lock. Without it a step of one
  handler could be mistaken for a step of another kind.
* `FreshIDs`: identifiers not yet drawn have no row. `CreateLog` writes to one
  of them, and must not overwrite a log.
* `CheckedStatusHolds`: needs the lock; every other action that changes a log
  asks for a free lock or writes to a fresh identifier.
* `TxSound`: what a transaction has written is a prefix of its payload that
  passes the checks. It turns row by row checks into `WellFormed` of the whole
  at the commit.
* `DataMatchesStatus`: from `TxSound` at `CommitParsed`; every other action
  changes logs that have no rows.
* `OneFinalizer`: a second success would need the log in `processing`, and the
  first one has ended that.

`TerminalIsFinal` follows from `SafetyInv` step by step: `CommitParsed` changes
a log that `CheckedStatusHolds` says is `processing`, `FailLog` one that its
guard does, `CreateLog` a fresh one. Under the mapping `status`, `content` of
`LogStore`, `CreateLog` is `Register`, `CommitParsed` is `Publish` of the
session's payload (by `TxSound` what it wrote is exactly that payload, and well
formed), `FailLog` is `Fail`, and all other actions leave both untouched.

**The readers.** The proofs use of the writers only what is proved of each of
their steps: a parsed or failed log does not change any more, and a log that is
not parsed has no rows. `ReadInv` says of every reader that a log which it saw
parsed still is what it saw (`LogStillTrue`), that its snapshot still is what
the log holds, or nothing, if it was not parsed (`SnapshotStillTrue`), that what
it got comes from there (`ReadFromSnapshot`, `ListStillTrue`, `NodeStillTrue`),
and that an error says what the statements before it returned (`Told`, which
`HttpStatusIsTrue` follows from). That is inductive because every step of a
writer changes only logs that were not parsed. `NodeStillTrue` needs that the
node was found: then the log has rows, so it is parsed and keeps them, although
no transaction holds the reader's statements together.

**The pages.** `PageInv` adds `WalkSound`: what a client collected is the list
from its first offset up to the next one, and if it collected anything, the log
was parsed. One more page extends that by the rows from the offset on
(`OFFSET` and `LIMIT` are `SubSeq`). `OfNode` selects rows by a recursive
function; that it exists, and that it keeps rows of the type and at most one
info of a node, is proved by induction (`ByInduction`, from the library's
well-foundedness of the order of the natural numbers).

**The pipeline.** `ParseInv` is `SafetyInv` of the store with, for every request,
`RequestInv`: that a call is on the wire or at work, never both, and has the
request's own arguments (`CallSound`); that the calls come in `ParseLog`'s order,
each once (`Ordered`); which error is going to be returned (`Errors`); that the
identifier on its way to the app is that of a log CreateLog inserted
(`Created`); that, once a log is final, the call that made it so is over and the
other one can only be told of a conflict (`Finalization`); and what the app has
concluded from its answers (`Concluded`). `LogsDiffer` says that no log is drawn
by two requests: without it, a session of another request could finalize a log
of this one. `ProcessingHasOwner` is inductive next to these. Every action has
a lemma about its own request, and one frame lemma (`SameKeepsRequest`) serves
all the others. A step of a session is a step of `LogStore` by definition, and
a step of the app or the wire leaves the store alone: hence `PipelineUsesStore`,
by which every theorem about the store holds of the whole pipeline.

**The server.** `ServerInv` says where a request may be (`InPlace`), that
its deadline is the one its beginning gives and has not been passed unnoticed
(`InTime`), that `todo` counts the services not pinged yet and a ping is late
only after another was silent (`PingsInTurn`), and of one request what
`OnlyLateRequestsAreCut` and `HealthIsTrue` say of all (`CutLate`,
`AnsweredTruly`). `InTime` needs `Tick`'s waiting for expired handlers; with the
sum of the timeouts in `ServerAssumption` it implies that what the shutdown
still finds at its deadline began after the signal.

**The source.** `SourceInv` says that the files read are exactly the files
before `next`, in order, and nothing before it was unreadable (`ReadInOrder`), and
that `limits` agrees with what is
in memory (`Admitted`); each step reads or skips one entry and counts it.
`RefusalInv` adds that the total is the sum of the sizes before `next`
(`Counting`); the sum is a recursive function, of which existence and step are
proved by induction. So is what `Clean` does: an absolute path has no `".."`
left (`CleanIsStraight`), a path without one is clean (`CleanKeepsStraight`), and
one that never climbs loses two elements of its length for every `".."`
(`DescendsStraight`), so that there is always one to lose.

**The merge.** `NothingLost` speaks of the end only. `FinalInv` says the same of
every moment about the records that the loops have been over (`Seen`), next to
`MergedAndClosed`. Each kind of step puts one record into a list: the lemmas
`PutNodeSound`, `PutInfoSound`, `PutPortSound` and `EnsureNodeSound` say that the
list keeps its keys apart and gains exactly the record's key, whether it is
merged or appended, and that a port under a key of its own is the record's
(`TrueTo`); nothing is assumed of keys. `SeenByIteration` says that `Seen` gains exactly the record.

`LastValueWins` needs to know of which record a value is. Its invariant,
`LastInv`, says of every moment what the property says of the end, with the
records that the loops have been over so far (`Been`): a column is the value
of the last one of them that gives one (`Wins`), and no value at all only if
none does. `BeenByIteration` says that each step adds one position behind all the
others, `WinsIsLast` that a value given there wins, and `WinsByRecord` that a
record which gives none leaves the winner as it is. A node that only an info or
a port mentions takes part with the values `ensureNode` gives it.

**The whole parser.** `EngineInv` puts the invariants of the reader and of the merge
together. While a source is read and its files are parsed, the merge is at its
start with the records there are so far, and `"ok"` is answered only when it has
ended (`InStages`); a record of a file that is behind `file` is still in `pending`
or has been converted, with all of its numeric columns accepted
(`FilesInTurn`, `Converted`). At the end every record has been converted, so
that `GUIDsSurvive` follows from `NothingLost` and from what the conversions do
(`NormalIsRecord`: whichever spelling of a column survives, its value is one of
those the record had; `NamedByGUID`: the alternatives are tried in the order
that the property assumes), and one half of `NumbersAreChecked` from
`Converted`. The other half, that a refusal has a reason, is an invariant of its
own (`RefusedForReason`): a record that `RejectRecord` refuses has, in a column
that is read, a text that is no number, and that text is one its spellings gave.
That the
merge may start from these records needs their types: `RecordsOfFile` follows
them through `NonEmpty` and the concatenation of the tables, both by induction, and
`EntityOfRecord` through the conversions. `EngineReads` makes
the theorems about `SourceReader` hold of the engine.

**The sections.** `LastMarker` and `HeaderOf` choose a greatest and a least
position; that there is one is part of the invariant (`Chosen`) and follows
from row to row, since a new row comes behind all the others (`MarkersGrow`,
`RowsGrow`). The rest of `DbInv`, as long as the scan goes on: `current`,
`header` and `records` are those of the last marker (`OpenSection`), what was
flushed are whole sections, each once (`Flushed`), no row of a section that
is closed is missing (`Filed`), and there was no error yet (`NoError`). When the
scan has ended, it is the two properties themselves.

**The edges.** `PortsUsedOnce` is not inductive, since a port that is the end of
an edge could be free for another one. `EdgesInv` adds `EndsAreSpent`: an end of
an edge is marked as used, or is a host port that the first loop is past. A new
edge has ends that are neither.

What the loops leave out is the subject of `GreedyInv`. While the host loop runs,
the used ports are the targets of its links (`HostLoop`); it takes the host
ports in their order (`VisitedInOrder`), a link has a port of each side to itself
(`OneToOne`), and a host port stays without a link only if no switch port is
left (`NothingWasted`). Counting the links by their sources and by their targets
gives `HostLinksMaximal`. The backbone loop also marks ports of a source that get no link, when
a target has fewer than the source has: `MarksAreJustified` says that such a
port belongs to a switch that was a source already, so that no later pair could
have used it, and which neighbour a mark was made for. `SourcesServed` says of
every source that is done what `BackboneMaximal` says of all; that this stays
true rests on the sources being taken in order (`SourcesInOrder`).

**The view.** `GetTopology` leaves `buildEdges` alone, hence `ViewUsesEdges`.
`PartsAgree` compares the parts of the answer, which the code counts separately.
The kinds of the groups and the sum of the nodes' ports (`PortsOfNodes`) are
recursive functions; by induction the first lists the kinds there are, each
once and in order (`KindsAreTaken`), and the second is the number of ports of
the snapshot (`SumOfPorts`). `TwoPortsEach` bounds the edges by `PortsUsedOnce`.

**The data.** `PostInv` says where the handler of `POST /parse` is: what it
carries is what the parser returned (a hop that takes over all of the fields
changes nothing, `TakeLogOfLog`), the log and the tables are untouched until it
is done, and then either everything is there (`Saved`) or nothing is.
`PostIsTrue` follows, since the rows without the columns that the database adds
are the parser's (`StoredIsParsed`).

A reader may ask before the log is parsed and be answered after that, so that
`ViewsShowWhatWasParsed` is not about one state of the tables. `ViewInv` says
that the answer on its way is what the repository has, or what it had before
(`Early`), which only the reads of a whole log can get; a topology that is shown
is of a parsed log, whatever became known in between (`TopologyStillTrue`). It
is inductive because the tables change once, from nothing to `Saved`, and
because unpacking a message gives what was packed (`NodeUnpacked`,
`PortUnpacked`, `LogUnpacked`). Then the properties are about single rows: a row
that is shown is the parser's with or without its raw data (`MaskedOfStored`),
its info is the one found for its GUID (`InfoMatches`, by the uniqueness of
GUIDs: the tables join by `node_id`), the ports of a node are those that name it
(`PortsOfNodeRows`, by induction over a recursive function), a topology counts as
many of them (`PortsCounted`), and the ends of its edges are stored ports
(`EdgeShown`).

### Only model-checked

* `HandlersFinish`, `EveryLogSettles` and `ShutdownEnds`: liveness under
  fairness is out of the prover's reach. Of the passing runs, these are the only
  properties that no theorem states.
* What the sizes of messages add up to: the theorems about `Wire` hold whichever
  messages are refused for their size.

## 5. What is not modelled, and why

* **Internal services: start and stop.** The wiring of addresses and databases,
  and a `GracefulStop` without a deadline. That a service ends at whatever point
  is the action `Crash` of `LogStore` and `AppCrash` of `ParsePipeline`. Migrations run
  before a service listens.
* **Logging and configuration.** The access log and the loggers change no
  state that another component sees; configuration is read once, and what
  matters of it is a constant of `AppServer`, `LogPages` and `SourceReader`.
  HTTP headers and the encoding of JSON are left out of the server for the same
  reason.
* **Generated code, decompression, drivers.** The protobuf and gRPC code is
  generated; ZIP, TAR and GZIP, database/sql, pgx and gRPC are libraries. They
  are modelled by how the code uses them: an entry that cannot be read, a
  message that is too large or not UTF-8, a connection that breaks.
* **Bytes.** Texts are values with the properties that the code asks for. The
  splitting of a line by the CSV reader and `KEY=VALUE` by its separator are
  represented by their outcomes.
* Three quantities that are bounded for TLC are unbounded in the code: log
  identifiers (`MaxLogs`), time (`MaxTime`) and the inputs of the parser's
  modules. The proofs hold for every value of the first two, and for sources of
  every length.
