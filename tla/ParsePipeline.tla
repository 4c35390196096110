--------------------------- MODULE ParsePipeline ----------------------------
(***************************************************************************)
(* POST /api/v1/parse end to end: the app's ParseLog, the gRPC calls it    *)
(* makes and the store they act on.                                        *)
(*                                                                         *)
(* A call travels as a message that may be delivered late or never.  The   *)
(* app stops waiting for it at any time: the request's deadline            *)
(* (APP_TIMEOUT, failLogTimeout), a client that went away and a broken     *)
(* connection look alike to it.  The handler in the repository then goes   *)
(* on, fails or commits without anybody listening.                         *)
(*                                                                         *)
(* The parser is external to this module: it returns some ParsedLog or     *)
(* some error.                                                             *)
(***************************************************************************)
EXTENDS LogStore, ErrorMapping

CONSTANT Request

\* The calls of one request that reach the repository.
Rpc == {"create", "save", "fail"}

\* Every call has a handler of its own.
ASSUME SessionAssumption == Session = Request \X Rpc

VARIABLES
  app,    \* where the app's handler of each request is
  wire    \* the calls that are sent and not yet delivered

parseVars == <<logs, rows, nextID, lock, pc, call, tx, reply, app, wire>>

AppError == {"ErrBadArguments", "ErrNotFound", "ErrConflict", "ErrUnavailable", "other"}

Handler ==
  [at : {"idle", "create", "parse", "save", "fail", "answered", "gone"},
   log : LogId \cup {0},              \* the log_id CreateLog returned
   parsed : Payload \cup {EmptyRows},
   cause : AppError \cup {"none"},    \* the error ParseLog returns
   failed : {"none", "ok", "conflict", "unknown"}]  \* what failLog got back

Idle == [at |-> "idle", log |-> 0, parsed |-> EmptyRows, cause |-> "none",
         failed |-> "none"]

ParseInit ==
  /\ Init
  /\ app = [r \in Request |-> Idle]
  /\ wire = {}

-----------------------------------------------------------------------------
Send(r, k, x) ==
  /\ app' = [app EXCEPT ![r] = [x EXCEPT !.at = k]]
  /\ wire' = wire \cup {<<r, k>>}

Respond(r, x) ==
  /\ app' = [app EXCEPT ![r] = [x EXCEPT !.at = "answered"]]
  /\ UNCHANGED wire

\* failLog gets a context of its own: it is sent whatever became of the request's.
failLog(r, err) == Send(r, "fail", [app[r] EXCEPT !.cause = err])

\* The body is refused (not JSON, unknown fields, an empty path) or accepted.
Post(r) ==
  /\ app[r].at = "idle"
  /\ \/ Respond(r, [app[r] EXCEPT !.cause = "ErrBadArguments"])
     \/ Send(r, "create", app[r])
  /\ UNCHANGED vars

\* The repository's handler starts, possibly after the app stopped waiting.
Deliver(r, k) ==
  /\ <<r, k>> \in wire
  /\ wire' = wire \ {<<r, k>>}
  /\ \/ k = "create" /\ CallCreateLog(<<r, k>>)
     \/ k = "save" /\ CallSaveParsedLog(<<r, k>>, app[r].log, app[r].parsed)
     \/ k = "fail" /\ CallFailLog(<<r, k>>, app[r].log)
  /\ UNCHANGED app

\* The repository's answer to a call, as the app's client reports it.
ErrorOf(r, k) ==
  IF reply[<<r, k>>] = "unavailable"
    THEN FromRepository("Unavailable")
    ELSE FromRepository(RepositoryCode(reply[<<r, k>>]))

Replied(r, k) == pc[<<r, k>>] = "done" /\ app[r].at = k

CreateReplied(r) ==
  /\ Replied(r, "create")
  /\ IF reply[<<r, "create">>] = "ok"
       THEN /\ app' = [app EXCEPT ![r].at = "parse", ![r].log = call[<<r, "create">>].log]
            /\ UNCHANGED wire
       ELSE Respond(r, [app[r] EXCEPT !.cause = ErrorOf(r, "create")])
  /\ Return(<<r, "create">>)

\* Mutant: an error of the parser is returned without failLog.
ParseRepliedOnly(r) ==
  /\ app[r].at = "parse"
  /\ \/ \E p \in Payload : Send(r, "save", [app[r] EXCEPT !.parsed = p])
     \/ Respond(r, [app[r] EXCEPT !.cause = "ErrBadArguments"])
  /\ UNCHANGED vars

ParseReplied(r) ==
  /\ app[r].at = "parse"
  /\ \/ \E p \in Payload : Send(r, "save", [app[r] EXCEPT !.parsed = p])
     \/ \E err \in {"ErrBadArguments", "ErrNotFound", "ErrParse", "ErrUnsupportedFormat", "io"} :
          failLog(r, FromParser(ParserCode(err)))
  /\ UNCHANGED vars

\* Mutant: the error of SaveParsedLog is ignored.
SaveRepliedUnchecked(r) ==
  /\ Replied(r, "save")
  /\ Respond(r, app[r])
  /\ Return(<<r, "save">>)

\* Mutant: an error of SaveParsedLog is returned without failLog.
SaveRepliedOnly(r) ==
  /\ Replied(r, "save")
  /\ IF reply[<<r, "save">>] = "ok"
       THEN Respond(r, app[r])
       ELSE Respond(r, [app[r] EXCEPT !.cause = ErrorOf(r, "save")])
  /\ Return(<<r, "save">>)

SaveReplied(r) ==
  /\ Replied(r, "save")
  /\ IF reply[<<r, "save">>] = "ok"
       THEN Respond(r, app[r])
       ELSE failLog(r, ErrorOf(r, "save"))
  /\ Return(<<r, "save">>)

\* A ParsedLog over gRPC's 4 MiB message limit never reaches the handler:
\* ResourceExhausted, which the client does not map.
SaveRejected(r) ==
  /\ <<r, "save">> \in wire
  /\ app[r].at = "save"
  /\ app' = [app EXCEPT ![r].at = "fail", ![r].cause = FromRepository("ResourceExhausted")]
  /\ wire' = (wire \ {<<r, "save">>}) \cup {<<r, "fail">>}
  /\ UNCHANGED vars

\* An ErrConflict is only logged, at debug level; any other error is a warning.
FailReplied(r) ==
  /\ Replied(r, "fail")
  /\ Respond(r, [app[r] EXCEPT !.failed =
       CASE reply[<<r, "fail">>] = "ok" -> "ok"
         [] ErrorOf(r, "fail") = "ErrConflict" -> "conflict"
         [] OTHER -> "unknown"])
  /\ Return(<<r, "fail">>)

\* The app stops waiting: DeadlineExceeded, Canceled or Unavailable.
GiveUp(r) ==
  /\ \/ app[r].at = "create" /\ Respond(r, [app[r] EXCEPT !.cause = "ErrUnavailable"])
     \/ app[r].at \in {"parse", "save"} /\ failLog(r, "ErrUnavailable")
     \/ app[r].at = "fail" /\ Respond(r, [app[r] EXCEPT !.failed = "unknown"])
  /\ UNCHANGED vars

\* The repository's answer finds nobody waiting.
DropReply(r, k) ==
  /\ pc[<<r, k>>] = "done"
  /\ app[r].at # k
  /\ Return(<<r, k>>)
  /\ UNCHANGED <<app, wire>>

LoseCall(r, k) ==
  /\ <<r, k>> \in wire
  /\ wire' = wire \ {<<r, k>>}
  /\ UNCHANGED <<app, vars>>

\* The app process ends: killed, or the 10 seconds Shutdown grants ran out.
AppCrash ==
  /\ \E r \in Request : app[r].at \in {"create", "parse", "save", "fail"}
  /\ app' = [r \in Request |->
       IF app[r].at \in {"create", "parse", "save", "fail"}
         THEN [app[r] EXCEPT !.at = "gone"] ELSE app[r]]
  /\ UNCHANGED <<wire, vars>>

\* The repository at work on its own; a crash of it is one more outcome.
Repository ==
  /\ \/ \E s \in Session :
          Work(s) \/ CreateLogFails(s) \/ StatementFails(s)
     \/ Crash
  /\ UNCHANGED <<app, wire>>

Finished ==
  /\ wire = {}
  /\ \A r \in Request : app[r].at \in {"answered", "gone"}
  /\ \A s \in Session : pc[s] = "idle"
  /\ UNCHANGED parseVars

ParseNext ==
  \/ \E r \in Request :
       \/ Post(r)
       \/ CreateReplied(r)
       \/ ParseReplied(r)
       \/ SaveReplied(r)
       \/ SaveRejected(r)
       \/ FailReplied(r)
       \/ GiveUp(r)
       \/ \E k \in Rpc : Deliver(r, k) \/ DropReply(r, k) \/ LoseCall(r, k)
  \/ AppCrash
  \/ Repository
  \/ Finished

ParseSpec == ParseInit /\ [][ParseNext]_parseVars

\* Deadlines fire, the network delivers or drops what was sent, a handler that
\* can go on does, and a row lock is handed to those who wait for it.  Nothing
\* makes a failure happen.
ParseFairness ==
  /\ \A r \in Request :
       /\ WF_parseVars(CreateReplied(r) \/ ParseReplied(r) \/ SaveReplied(r)
                    \/ FailReplied(r) \/ GiveUp(r))
       /\ \A k \in Rpc :
            /\ WF_parseVars(Deliver(r, k) \/ LoseCall(r, k))
            /\ WF_parseVars(DropReply(r, k))
  /\ \A s \in Session :
       WF_parseVars((Work(s) \/ StatementFails(s)) /\ UNCHANGED <<app, wire>>)

FairParseSpec == ParseSpec /\ ParseFairness

-----------------------------------------------------------------------------
Answered(r) == app[r].at = "answered"
HttpAnswer(r) == IF app[r].cause = "none" THEN 200 ELSE HttpStatus(app[r].cause)
StatusOf(r) == logs[app[r].log].status

\* 200 is only answered for a log that is parsed, with the very data the parser
\* returned to this request.
OkMeansStored ==
  \A r \in Request : Answered(r) /\ HttpAnswer(r) = 200 =>
    /\ StatusOf(r) = "parsed"
    /\ rows[app[r].log] = app[r].parsed

\* A client that is told 400 or 404 can rely on it: the log, if there is one,
\* is not parsed and, since failLog's answer decides nothing here, never will
\* be.  (After 500 and 503 it may well be.)  It is never told 409: nobody but
\* the request itself finalizes the log it created, and the conflict that its
\* FailLog may meet is not its answer.
RefusalIsDefinite ==
  \A r \in Request : Answered(r) =>
    /\ HttpAnswer(r) # 409
    /\ app[r].log # 0 /\ HttpAnswer(r) \in {400, 404} => StatusOf(r) # "parsed"

\* failLog takes ErrConflict for "log was already finalized": it is, by the
\* request's own SaveParsedLog whose answer got lost.
ConflictMeansSaved ==
  \A r \in Request :
    /\ app[r].failed = "conflict" =>
         StatusOf(r) = "parsed" /\ rows[app[r].log] = app[r].parsed
    /\ app[r].failed = "ok" => StatusOf(r) = "failed"

\* Nobody will finalize the log of this request any more: the app does not know
\* its id, does not know what became of FailLog, or is gone.
Abandoned(r) ==
  \/ app[r].at = "gone"
  \/ app[r].failed = "unknown"
  \/ Answered(r) /\ app[r].log = 0 /\ app[r].cause \in {"ErrUnavailable", "other"}

Owns(r, l) ==
  \/ app[r].at \in {"parse", "save", "fail"} /\ app[r].log = l
  \/ app[r].at = "create" /\ pc[<<r, "create">>] = "done"
     /\ call[<<r, "create">>].log \in {0, l}

\* A log that is still "processing" has a request that will finalize it, or one
\* of the three reasons for which the code gives up on it.  Errors of the
\* parser and of SaveParsedLog, lost calls and lost answers are no such reason.
ProcessingHasOwner ==
  \A l \in LogId : logs[l].status = "processing" =>
    \E r \in Request :
      Owns(r, l) \/ (Abandoned(r) /\ app[r].log \in {0, l})

\* Every log is eventually parsed or failed, save for those reasons.
EveryLogSettles ==
  \A l \in LogId :
    logs[l].status = "processing" ~>
      \/ logs[l].status \in {"parsed", "failed"}
      \/ \E r \in Request : Abandoned(r) /\ app[r].log \in {0, l}

\* The README's table of statuses: a "processing" log is one whose parsing or
\* saving has not ended.  The code cannot keep this when FailLog itself fails.
ProcessingMeansUnfinished ==
  \A r \in Request : Answered(r) /\ app[r].log # 0 => StatusOf(r) # "processing"
=============================================================================
