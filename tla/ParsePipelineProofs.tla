------------------------ MODULE ParsePipelineProofs -------------------------
(***************************************************************************)
(* Proofs about ParsePipeline, for every number of requests and logs and   *)
(* every set of ParsedLogs.                                                *)
(*                                                                         *)
(* The pipeline uses the store as LogStore says that clients may, so that  *)
(* everything proved of LogStore holds here.  What is added is which       *)
(* request a log belongs to, and that only its own two calls finalize it.  *)
(***************************************************************************)
EXTENDS ParsePipeline, LogStoreProofs

\* A call is under way: on the wire, or at work in the repository.
Sent(r, k) == <<r, k>> \in wire \/ pc[<<r, k>>] # "idle"

AppTypeOK ==
  /\ app \in [Request -> Handler]
  /\ wire \subseteq Session

\* A call has its handler to itself, and the request's own arguments.
CallSound(r, k) ==
  /\ <<r, k>> \in wire => pc[<<r, k>>] = "idle"
  /\ IF pc[<<r, k>>] = "idle" THEN call[<<r, k>>] = NoCall ELSE call[<<r, k>>].op = k
  /\ pc[<<r, k>>] # "idle" /\ k # "create" => call[<<r, k>>].log = app[r].log
  /\ pc[<<r, k>>] # "idle" /\ k = "save" => call[<<r, k>>].parsed = app[r].parsed

\* The order in which ParseLog makes its calls, each of them once.
Ordered(r) ==
  /\ app[r].at = "idle" => ~ Sent(r, "create")
  /\ app[r].at \in {"idle", "create"} => app[r].log = 0
  /\ app[r].log = 0 => /\ ~ Sent(r, "save") /\ ~ Sent(r, "fail")
                       /\ app[r].at \notin {"parse", "save", "fail"}
                       /\ app[r].failed = "none"
  /\ app[r].log # 0 => ~ Sent(r, "create")
  /\ app[r].at = "parse" => ~ Sent(r, "save")
  /\ app[r].at \in {"parse", "save"} => ~ Sent(r, "fail")
  /\ app[r].at = "save" \/ Sent(r, "save") => app[r].parsed \in Payload

\* The error ParseLog is going to return, and the outcome of its failLog.
Errors(r) ==
  /\ app[r].at \in {"idle", "create", "parse", "save"} => app[r].cause = "none"
  /\ app[r].at = "fail" => app[r].cause # "none"
  /\ app[r].at \in {"idle", "create", "parse", "save", "fail"} => app[r].failed = "none"
  /\ app[r].cause # "ErrConflict"
  /\ Answered(r) /\ app[r].cause # "none" /\ app[r].log # 0 => app[r].failed # "none"
  /\ app[r].at \notin {"idle", "create"} /\ Sent(r, "create") => Abandoned(r)

\* The log that CreateLog inserted, and its identifier on the way to the app.
Created(r) ==
  /\ pc[<<r, "create">>] \in {"idle", "create", "done"}
  /\ pc[<<r, "create">>] = "create" => call[<<r, "create">>].log = 0
  /\ reply[<<r, "create">>] \in {"none", "ok", "dbError", "unavailable"}
  /\ reply[<<r, "create">>] = "ok" => call[<<r, "create">>].log # 0
  /\ call[<<r, "create">>].log # 0 =>
       /\ call[<<r, "create">>].log < nextID
       /\ logs[call[<<r, "create">>].log].status = "processing"
  /\ app[r].log # 0 => app[r].log < nextID /\ StatusOf(r) # "none"

\* A call is over, and did not end with an error of its own.
Over(r, k) ==
  /\ <<r, k>> \notin wire
  /\ pc[<<r, k>>] \in {"idle", "done"}
  /\ reply[<<r, k>>] \in {"none", "ok", "dbError", "unavailable"}

\* Who finalized the log of a request, and what that means for the others.
Finalization(r) ==
  app[r].log # 0 =>
    /\ StatusOf(r) = "parsed" => /\ rows[app[r].log] = app[r].parsed
                                 /\ Over(r, "save") /\ app[r].at # "parse"
    /\ StatusOf(r) = "failed" => Over(r, "fail") /\ app[r].at \notin {"parse", "save"}
    /\ pc[<<r, "fail">>] = "explain" => StatusOf(r) = "parsed"
    /\ reply[<<r, "fail">>] = "ErrInvalidStatus" => StatusOf(r) = "parsed"
    /\ reply[<<r, "save">>] = "ErrInvalidStatus" => StatusOf(r) = "failed"

\* What the app has concluded about the log.
Concluded(r) ==
  /\ app[r].log # 0 =>
       /\ app[r].failed = "conflict" => StatusOf(r) = "parsed"
       /\ app[r].failed = "ok" => StatusOf(r) = "failed"
       /\ app[r].cause \in {"ErrBadArguments", "ErrNotFound"} =>
            ~ Sent(r, "save") /\ StatusOf(r) # "parsed"
  /\ Answered(r) /\ app[r].cause = "none" => app[r].log # 0 /\ StatusOf(r) = "parsed"

RequestInv(r) ==
  /\ \A k \in Rpc : CallSound(r, k)
  /\ Ordered(r)
  /\ Errors(r)
  /\ Created(r)
  /\ Finalization(r)
  /\ Concluded(r)

\* The identifiers a request has been given, or is going to be.
Drew(r, l) == l # 0 /\ (app[r].log = l \/ call[<<r, "create">>].log = l)

LogsDiffer ==
  \A r \in Request, q \in Request : \A l \in LogId : Drew(r, l) /\ Drew(q, l) => r = q

ParseInv ==
  /\ SafetyInv
  /\ AppTypeOK
  /\ \A r \in Request : RequestInv(r)
  /\ LogsDiffer
  /\ ProcessingHasOwner

-----------------------------------------------------------------------------
(***************************************************************************)
(* The pipeline and the store.                                             *)
(***************************************************************************)
LEMMA SessionOf ==
  ASSUME NEW r \in Request, NEW k \in Rpc
  PROVE  <<r, k>> \in Session
BY SessionAssumption

LEMMA RpcOf ==
  ASSUME NEW s \in Session
  PROVE  \E r \in Request, k \in Rpc : s = <<r, k>>
BY SessionAssumption

\* Every step of the pipeline is one that LogStore allows its clients.
LEMMA DeliverIsReceive ==
  ASSUME AppTypeOK, NEW r \in Request, Ordered(r), NEW k \in Rpc, Deliver(r, k)
  PROVE  Receive(<<r, k>>)
<1>1. app[r].log \in LogId \cup {0}
  BY DEF AppTypeOK, Handler
<1>2. <<r, k>> \in wire
  BY DEF Deliver
<1>3. CASE k = "create" /\ CallCreateLog(<<r, k>>)
  BY <1>3 DEF Receive
<1>4. CASE k = "save" /\ CallSaveParsedLog(<<r, k>>, app[r].log, app[r].parsed)
  BY <1>1, <1>2, <1>4 DEF Receive, Ordered, Sent
<1>5. CASE k = "fail" /\ CallFailLog(<<r, k>>, app[r].log)
  BY <1>1, <1>5 DEF Receive
<1> QED
  BY <1>3, <1>4, <1>5 DEF Deliver

LEMMA ReturnsAreReturn ==
  ASSUME NEW r \in Request,
         CreateReplied(r) \/ SaveReplied(r) \/ FailReplied(r) \/ \E k \in Rpc : DropReply(r, k)
  PROVE  \E k \in Rpc : Return(<<r, k>>)
BY DEF CreateReplied, SaveReplied, FailReplied, DropReply, Rpc

LEMMA QuietSteps ==
  ASSUME NEW r \in Request,
         \/ Post(r) \/ ParseReplied(r) \/ SaveRejected(r) \/ GiveUp(r)
         \/ \E k \in Rpc : LoseCall(r, k)
  PROVE  UNCHANGED vars
BY DEF Post, ParseReplied, SaveRejected, GiveUp, LoseCall

LEMMA StoreStep ==
  ASSUME AppTypeOK, \A r \in Request : Ordered(r), [ParseNext]_parseVars
  PROVE  [Next]_vars
<1>1. ASSUME NEW r \in Request, NEW k \in Rpc, Deliver(r, k) PROVE Next
  BY <1>1, DeliverIsReceive, SessionOf DEF Next, Step
<1>2. ASSUME NEW r \in Request,
             CreateReplied(r) \/ SaveReplied(r) \/ FailReplied(r) \/ \E k \in Rpc : DropReply(r, k)
      PROVE  Next
  BY <1>2, ReturnsAreReturn, SessionOf DEF Next, Step
<1>3. ASSUME NEW r \in Request,
             \/ Post(r) \/ ParseReplied(r) \/ SaveRejected(r) \/ GiveUp(r)
             \/ \E k \in Rpc : LoseCall(r, k)
      PROVE  UNCHANGED vars
  BY <1>3, QuietSteps
<1>4. CASE AppCrash
  BY <1>4 DEF AppCrash
<1>5. CASE Repository
  BY <1>5 DEF Repository, Next, Step
<1>6. CASE Finished \/ UNCHANGED parseVars
  BY <1>6 DEF Finished, parseVars, vars
<1> QED
  BY <1>1, <1>2, <1>3, <1>4, <1>5, <1>6 DEF ParseNext

-----------------------------------------------------------------------------
(***************************************************************************)
(* Requests that a step is not about.                                      *)
(***************************************************************************)
Same(r) ==
  /\ app'[r] = app[r]
  /\ \A k \in Rpc : Untouched(<<r, k>>) /\ (<<r, k>> \in wire' <=> <<r, k>> \in wire)

LogsKept(r) ==
  /\ \A l \in LogId : Drew(r, l) => logs'[l] = logs[l] /\ rows'[l] = rows[l]
  /\ nextID' >= nextID

LEMMA SameKeepsRequest ==
  ASSUME TypeOK, TypeOK', AppTypeOK, NEW r \in Request, RequestInv(r), Same(r), LogsKept(r)
  PROVE  RequestInv(r)'
<1> USE DEF RequestInv
<1>0. /\ \A k \in Rpc : <<r, k>> \in Session
      /\ app[r].log \in LogId \cup {0} /\ call[<<r, "create">>].log \in LogId \cup {0}
      /\ nextID \in Int /\ nextID' \in Int
      /\ app[r].log \in Int /\ call[<<r, "create">>].log \in Int
  BY SessionOf DEF AppTypeOK, Handler, TypeOK, Call, Rpc, LogId
<1>1. \A k \in Rpc : CallSound(r, k)' /\ (Sent(r, k)' <=> Sent(r, k))
  BY DEF Same, Untouched, CallSound, Sent
<1>2. Ordered(r)'
  BY <1>1 DEF Same, Ordered, Rpc
<1>3. Errors(r)'
  BY <1>1 DEF Same, Errors, Abandoned, Answered, Rpc
<1>4. app[r].log # 0 => /\ logs'[app[r].log] = logs[app[r].log]
                        /\ rows'[app[r].log] = rows[app[r].log]
  BY <1>0 DEF LogsKept, Drew
<1>5. Created(r)'
  <2>1. call[<<r, "create">>].log # 0 =>
          logs'[call[<<r, "create">>].log] = logs[call[<<r, "create">>].log]
    BY <1>0 DEF LogsKept, Drew
  <2>2. nextID' >= nextID
    BY DEF LogsKept
  <2>3. app'[r] = app[r] /\ Untouched(<<r, "create">>)
    BY DEF Same, Rpc
  <2>4. Created(r)
    OBVIOUS
  <2>5. app[r].log # 0 => app'[r].log < nextID' /\ StatusOf(r)' # "none"
    BY <1>0, <1>4, <2>2, <2>3, <2>4 DEF Created, StatusOf
  <2>6. call[<<r, "create">>].log # 0 =>
          /\ call'[<<r, "create">>].log < nextID'
          /\ logs'[call'[<<r, "create">>].log].status = "processing"
    BY <1>0, <2>1, <2>2, <2>3, <2>4 DEF Untouched, Created
  <2> QED
    BY <2>3, <2>4, <2>5, <2>6 DEF Untouched, Created
<1>6. Finalization(r)'
  BY <1>4 DEF Same, Untouched, Finalization, Over, StatusOf, Rpc
<1>7. Concluded(r)'
  BY <1>1, <1>4 DEF Same, Concluded, Answered, StatusOf, Rpc
<1> QED
  BY <1>1, <1>2, <1>3, <1>5, <1>6, <1>7

-----------------------------------------------------------------------------
(***************************************************************************)
(* The steps of the app's handler that leave the store alone.              *)
(***************************************************************************)
LEMMA SendFields ==
  ASSUME AppTypeOK, NEW r \in Request, NEW k \in Rpc, NEW x \in Handler, Send(r, k, x)
  PROVE  /\ app'[r].at = k /\ app'[r].log = x.log /\ app'[r].parsed = x.parsed
         /\ app'[r].cause = x.cause /\ app'[r].failed = x.failed
         /\ app'[r] \in Handler
         /\ \A q \in Request \ {r} : app'[q] = app[q]
         /\ wire' = wire \cup {<<r, k>>}
BY DEF Send, AppTypeOK, Handler, Rpc

LEMMA RespondFields ==
  ASSUME AppTypeOK, NEW r \in Request, NEW x \in Handler, Respond(r, x)
  PROVE  /\ app'[r].at = "answered" /\ app'[r].log = x.log /\ app'[r].parsed = x.parsed
         /\ app'[r].cause = x.cause /\ app'[r].failed = x.failed
         /\ app'[r] \in Handler
         /\ \A q \in Request \ {r} : app'[q] = app[q]
         /\ wire' = wire
BY DEF Respond, AppTypeOK, Handler

\* What app[r] keeps when a step sets its cause, or its parsed.
LEMMA CauseFields ==
  ASSUME NEW x \in Handler, NEW err \in AppError
  PROVE  LET y == [x EXCEPT !.cause = err]
         IN /\ y \in Handler /\ y.cause = err /\ y.log = x.log
            /\ y.parsed = x.parsed /\ y.failed = x.failed
BY DEF Handler

LEMMA failLogFields ==
  ASSUME AppTypeOK, NEW r \in Request, NEW err \in AppError, failLog(r, err)
  PROVE  /\ app'[r].at = "fail" /\ app'[r].log = app[r].log /\ app'[r].parsed = app[r].parsed
         /\ app'[r].cause = err /\ app'[r].failed = app[r].failed
         /\ app'[r] \in Handler
         /\ \A q \in Request \ {r} : app'[q] = app[q]
         /\ wire' = wire \cup {<<r, "fail">>}
<1>1. app[r] \in Handler /\ "fail" \in Rpc
  BY DEF AppTypeOK, Rpc
<1> DEFINE y == [app[r] EXCEPT !.cause = err]
<1>2. /\ y \in Handler /\ y.cause = err /\ y.log = app[r].log
      /\ y.parsed = app[r].parsed /\ y.failed = app[r].failed
  BY <1>1, CauseFields
<1>3. Send(r, "fail", y)
  BY DEF failLog
<1> HIDE DEF y
<1> QED
  BY <1>1, <1>2, <1>3, SendFields

LEMMA RespondCauseFields ==
  ASSUME AppTypeOK, NEW r \in Request, NEW err \in AppError,
         Respond(r, [app[r] EXCEPT !.cause = err])
  PROVE  /\ app'[r].at = "answered" /\ app'[r].log = app[r].log
         /\ app'[r].parsed = app[r].parsed
         /\ app'[r].cause = err /\ app'[r].failed = app[r].failed
         /\ app'[r] \in Handler
         /\ \A q \in Request \ {r} : app'[q] = app[q]
         /\ wire' = wire
<1>1. app[r] \in Handler
  BY DEF AppTypeOK
<1> DEFINE y == [app[r] EXCEPT !.cause = err]
<1>2. /\ y \in Handler /\ y.cause = err /\ y.log = app[r].log
      /\ y.parsed = app[r].parsed /\ y.failed = app[r].failed
  BY <1>1, CauseFields
<1>3. Respond(r, y)
  OBVIOUS
<1> HIDE DEF y
<1> QED
  BY <1>2, <1>3, RespondFields

\* The store at rest, as far as one request is concerned.
LEMMA QuietStore ==
  ASSUME UNCHANGED vars, NEW r \in Request
  PROVE  /\ \A k \in Rpc : Untouched(<<r, k>>)
         /\ logs' = logs /\ rows' = rows /\ nextID' = nextID
BY DEF vars, Untouched

LEMMA PostKeepsRequest ==
  ASSUME AppTypeOK, NEW r \in Request, RequestInv(r), Post(r)
  PROVE  RequestInv(r)' /\ app'[r] \in Handler
<1> USE DEF RequestInv
<1>1. /\ \A k \in Rpc : Untouched(<<r, k>>)
      /\ logs' = logs /\ rows' = rows /\ nextID' = nextID
  BY QuietStore DEF Post
<1>2. /\ app[r].at = "idle" /\ app[r].log = 0 /\ app[r].cause = "none" /\ app[r].failed = "none"
      /\ \A k \in Rpc : ~ Sent(r, k)
  BY DEF Post, Ordered, Errors, Rpc
<1>3. /\ app'[r] \in Handler
      /\ app'[r].log = 0 /\ app'[r].failed = "none"
      /\ \/ app'[r].at = "answered" /\ app'[r].cause = "ErrBadArguments" /\ wire' = wire
         \/ app'[r].at = "create" /\ app'[r].cause = "none" /\ wire' = wire \cup {<<r, "create">>}
  <2>1. app[r] \in Handler /\ "create" \in Rpc /\ "ErrBadArguments" \in AppError
    BY DEF AppTypeOK, Rpc, AppError
  <2> QED
    BY <1>2, <2>1, RespondCauseFields, SendFields DEF Post
<1>4. \A k \in Rpc : pc[<<r, k>>] = "idle" /\ pc'[<<r, k>>] = "idle" /\ call'[<<r, k>>] = call[<<r, k>>]
                     /\ reply'[<<r, k>>] = reply[<<r, k>>]
  BY <1>1, <1>2 DEF Untouched, Sent
<1>5. \A k \in Rpc : CallSound(r, k)'
  BY <1>3, <1>4 DEF CallSound
<1>6. ~ Sent(r, "save")' /\ ~ Sent(r, "fail")' /\ (app'[r].at = "answered" => ~ Sent(r, "create")')
  BY <1>2, <1>3, <1>4 DEF Sent, Rpc
<1>7. Ordered(r)' /\ Errors(r)'
  BY <1>3, <1>6 DEF Ordered, Errors, Answered
<1>8. Created(r)'
  BY <1>1, <1>2, <1>3, <1>4 DEF Created, Rpc
<1>9. Finalization(r)' /\ Concluded(r)'
  BY <1>3 DEF Finalization, Concluded, Answered
<1> QED
  BY <1>3, <1>5, <1>7, <1>8, <1>9

LEMMA RespondFailedFields ==
  ASSUME AppTypeOK, NEW r \in Request, NEW f \in {"ok", "conflict", "unknown"},
         Respond(r, [app[r] EXCEPT !.failed = f])
  PROVE  /\ app'[r].at = "answered" /\ app'[r].log = app[r].log
         /\ app'[r].parsed = app[r].parsed
         /\ app'[r].cause = app[r].cause /\ app'[r].failed = f
         /\ app'[r] \in Handler
         /\ \A q \in Request \ {r} : app'[q] = app[q]
         /\ wire' = wire
<1> DEFINE y == [app[r] EXCEPT !.failed = f]
<1>1. /\ y \in Handler /\ y.cause = app[r].cause /\ y.log = app[r].log
      /\ y.parsed = app[r].parsed /\ y.failed = f
  BY DEF AppTypeOK, Handler
<1>2. Respond(r, y)
  OBVIOUS
<1> HIDE DEF y
<1> QED
  BY <1>1, <1>2, RespondFields

\* A handler that is idle has nothing to say.
LEMMA IdleIsSilent ==
  ASSUME Discipline, NEW r \in Request, NEW k \in Rpc, ~ Sent(r, k)
  PROVE  <<r, k>> \notin wire /\ pc[<<r, k>>] = "idle" /\ reply[<<r, k>>] = "none"
BY SessionOf DEF Discipline, Disciplined, Sent

\* Nobody has finalized the log of a request before its save, or, if that is
\* not under way, before its failLog.
LEMMA NotFinalizedYet ==
  ASSUME NEW r \in Request, RequestInv(r), app[r].at \in {"parse", "save"}
  PROVE  /\ app[r].log # 0 /\ StatusOf(r) # "failed" /\ ~ Sent(r, "fail") /\ ~ Sent(r, "create")
         /\ app[r].at = "parse" => StatusOf(r) # "parsed" /\ ~ Sent(r, "save")
         /\ app[r].cause = "none" /\ app[r].failed = "none"
BY DEF RequestInv, Finalization, Ordered, Errors

LEMMA ParseRepliedKeepsRequest ==
  ASSUME AppTypeOK, Discipline, NEW r \in Request, RequestInv(r), ParseReplied(r)
  PROVE  RequestInv(r)' /\ app'[r] \in Handler
<1> USE DEF RequestInv
<1>1. /\ \A k \in Rpc : Untouched(<<r, k>>)
      /\ logs' = logs /\ rows' = rows /\ nextID' = nextID
  BY QuietStore DEF ParseReplied
<1>2. /\ app[r].log # 0 /\ StatusOf(r) \notin {"parsed", "failed"}
      /\ \A k \in Rpc : ~ Sent(r, k)
      /\ app[r].cause = "none" /\ app[r].failed = "none"
  BY NotFinalizedYet DEF ParseReplied, Rpc
<1>3. /\ app'[r] \in Handler /\ app'[r].log = app[r].log /\ app'[r].failed = "none"
      /\ \/ /\ app'[r].at = "save" /\ app'[r].parsed \in Payload /\ app'[r].cause = "none"
            /\ wire' = wire \cup {<<r, "save">>}
         \/ /\ app'[r].at = "fail" /\ app'[r].cause \in {"ErrBadArguments", "ErrNotFound", "other"}
            /\ wire' = wire \cup {<<r, "fail">>}
  <2>1. app[r] \in Handler /\ "save" \in Rpc
    BY DEF AppTypeOK, Rpc
  <2>2. ASSUME NEW p \in Payload, Send(r, "save", [app[r] EXCEPT !.parsed = p])
        PROVE  <1>3
    <3> DEFINE y == [app[r] EXCEPT !.parsed = p]
    <3>1. /\ y \in Handler /\ y.cause = app[r].cause /\ y.log = app[r].log
          /\ y.parsed = p /\ y.failed = app[r].failed
      BY <2>1 DEF Handler
    <3>2. Send(r, "save", y)
      BY <2>2
    <3> HIDE DEF y
    <3> QED
      BY <1>2, <2>1, <3>1, <3>2, SendFields
  <2>3. ASSUME NEW err \in {"ErrBadArguments", "ErrNotFound", "ErrParse", "ErrUnsupportedFormat", "io"},
               failLog(r, FromParser(ParserCode(err)))
        PROVE  <1>3
    <3>1. FromParser(ParserCode(err)) \in {"ErrBadArguments", "ErrNotFound", "other"}
      BY DEF FromParser, ParserCode, TransportCodes
    <3>2. FromParser(ParserCode(err)) \in AppError
      BY <3>1 DEF AppError
    <3> QED
      BY <1>2, <2>3, <3>1, <3>2, failLogFields
  <2> QED
    BY <2>2, <2>3 DEF ParseReplied
<1>4. \A k \in Rpc : /\ pc[<<r, k>>] = "idle" /\ pc'[<<r, k>>] = "idle"
                     /\ call'[<<r, k>>] = call[<<r, k>>] /\ reply'[<<r, k>>] = "none"
  BY <1>1, <1>2, IdleIsSilent DEF Untouched
<1>5. \A k \in Rpc : CallSound(r, k)'
  BY <1>3, <1>4 DEF CallSound
<1>6. /\ ~ Sent(r, "create")'
      /\ app'[r].at = "save" => ~ Sent(r, "fail")'
      /\ app'[r].at = "fail" => ~ Sent(r, "save")'
  BY <1>2, <1>3, <1>4 DEF Sent, Rpc
<1>7. Ordered(r)' /\ Errors(r)'
  BY <1>2, <1>3, <1>6 DEF Ordered, Errors, Answered
<1>8. Created(r)'
  BY <1>1, <1>2, <1>3, <1>4 DEF Created, StatusOf, Rpc
<1>9. StatusOf(r)' = StatusOf(r)
  BY <1>1, <1>3 DEF StatusOf
<1>10. Finalization(r)'
  BY <1>2, <1>4, <1>9 DEF Finalization, Rpc
<1>11. Concluded(r)'
  BY <1>2, <1>3, <1>6, <1>9 DEF Concluded, Answered
<1> QED
  BY <1>3, <1>5, <1>7, <1>8, <1>10, <1>11

LEMMA SaveRejectedKeepsRequest ==
  ASSUME AppTypeOK, Discipline, NEW r \in Request, RequestInv(r), SaveRejected(r)
  PROVE  RequestInv(r)' /\ app'[r] \in Handler
<1> USE DEF RequestInv
<1>1. /\ \A k \in Rpc : Untouched(<<r, k>>)
      /\ logs' = logs /\ rows' = rows /\ nextID' = nextID
  BY QuietStore DEF SaveRejected
<1>2. /\ app[r].log # 0 /\ StatusOf(r) \notin {"parsed", "failed"}
      /\ ~ Sent(r, "fail") /\ ~ Sent(r, "create") /\ app[r].failed = "none"
      /\ pc[<<r, "save">>] = "idle"
  BY NotFinalizedYet DEF SaveRejected, Finalization, Over, CallSound, Rpc
<1>3. /\ app'[r] \in Handler /\ app'[r].log = app[r].log /\ app'[r].failed = "none"
      /\ app'[r].at = "fail" /\ app'[r].cause = "other"
      /\ wire' = (wire \ {<<r, "save">>}) \cup {<<r, "fail">>}
  <2>1. FromRepository("ResourceExhausted") = "other"
    BY DEF FromRepository, TransportCodes
  <2> QED
    BY <1>2, <2>1 DEF SaveRejected, AppTypeOK, Handler, AppError
<1>4. \A k \in Rpc : /\ pc[<<r, k>>] = "idle" /\ pc'[<<r, k>>] = "idle"
                     /\ call'[<<r, k>>] = call[<<r, k>>] /\ reply'[<<r, k>>] = "none"
  BY <1>1, <1>2, SessionOf DEF Untouched, Sent, Rpc, Discipline, Disciplined
<1>5. \A k \in Rpc : CallSound(r, k)'
  BY <1>3, <1>4 DEF CallSound
<1>6. ~ Sent(r, "create")' /\ ~ Sent(r, "save")'
  BY <1>2, <1>3, <1>4 DEF Sent, Rpc
<1>7. Ordered(r)' /\ Errors(r)'
  BY <1>2, <1>3, <1>6 DEF Ordered, Errors, Answered
<1>8. Created(r)'
  BY <1>1, <1>2, <1>3, <1>4 DEF Created, StatusOf, Rpc
<1>9. StatusOf(r)' = StatusOf(r)
  BY <1>1, <1>3 DEF StatusOf
<1>10. Finalization(r)' /\ Concluded(r)'
  BY <1>2, <1>3, <1>4, <1>6, <1>9 DEF Finalization, Concluded, Answered, Rpc
<1> QED
  BY <1>3, <1>5, <1>7, <1>8, <1>10

LEMMA GiveUpKeepsRequest ==
  ASSUME AppTypeOK, Discipline, NEW r \in Request, RequestInv(r), GiveUp(r)
  PROVE  RequestInv(r)' /\ app'[r] \in Handler
<1> USE DEF RequestInv
<1>1. /\ \A k \in Rpc : Untouched(<<r, k>>)
      /\ logs' = logs /\ rows' = rows /\ nextID' = nextID
  BY QuietStore DEF GiveUp
<1>2. "ErrUnavailable" \in AppError
  BY DEF AppError
<1>3. CASE app[r].at = "create" /\ Respond(r, [app[r] EXCEPT !.cause = "ErrUnavailable"])
  <2>1. app[r].log = 0 /\ app[r].failed = "none" /\ app[r].cause = "none"
        /\ ~ Sent(r, "save") /\ ~ Sent(r, "fail")
    BY <1>3 DEF Ordered, Errors, Answered
  <2>2. /\ app'[r].at = "answered" /\ app'[r].log = 0 /\ app'[r].cause = "ErrUnavailable"
        /\ app'[r].failed = "none" /\ app'[r].parsed = app[r].parsed
        /\ app'[r] \in Handler /\ wire' = wire
    BY <1>2, <1>3, <2>1, RespondCauseFields
  <2>3. \A k \in Rpc : CallSound(r, k)' /\ (Sent(r, k)' <=> Sent(r, k))
    BY <1>1, <2>1, <2>2 DEF CallSound, Untouched, Sent
  <2>4. Ordered(r)' /\ Errors(r)'
    BY <2>1, <2>2, <2>3 DEF Ordered, Errors, Abandoned, Answered, Rpc
  <2>5. Created(r)'
    BY <1>1, <2>2 DEF Created, Untouched, Rpc
  <2>6. Finalization(r)' /\ Concluded(r)'
    BY <2>2 DEF Finalization, Concluded
  <2> QED
    BY <2>2, <2>3, <2>4, <2>5, <2>6
<1>4. CASE app[r].at \in {"parse", "save"} /\ failLog(r, "ErrUnavailable")
  <2>1. /\ app[r].log # 0 /\ StatusOf(r) # "failed" /\ ~ Sent(r, "fail") /\ ~ Sent(r, "create")
        /\ app[r].failed = "none"
    BY <1>4, NotFinalizedYet
  <2>2. /\ app'[r].at = "fail" /\ app'[r].log = app[r].log /\ app'[r].cause = "ErrUnavailable"
        /\ app'[r].failed = "none" /\ app'[r].parsed = app[r].parsed
        /\ app'[r] \in Handler /\ wire' = wire \cup {<<r, "fail">>}
    BY <1>2, <1>4, <2>1, failLogFields
  <2>3. /\ \A k \in Rpc : CallSound(r, k)'
        /\ ~ Sent(r, "create")' /\ (Sent(r, "save")' <=> Sent(r, "save"))
    BY <1>1, <2>1, <2>2 DEF CallSound, Untouched, Sent, Rpc
  <2>4. Ordered(r)' /\ Errors(r)'
    BY <2>1, <2>2, <2>3 DEF Ordered, Errors, Answered
  <2>5. StatusOf(r)' = StatusOf(r)
    BY <1>1, <2>2 DEF StatusOf
  <2>6. Created(r)'
    BY <1>1, <2>2, <2>5 DEF Created, Untouched, Rpc
  <2>7. Finalization(r)'
    BY <1>1, <2>1, <2>2, <2>5 DEF Finalization, Over, Untouched, Rpc
  <2>8. Concluded(r)'
    BY <2>1, <2>2 DEF Concluded, Answered
  <2> QED
    BY <2>2, <2>3, <2>4, <2>6, <2>7, <2>8
<1>5. CASE app[r].at = "fail" /\ Respond(r, [app[r] EXCEPT !.failed = "unknown"])
  <2>1. app[r].log # 0 /\ ~ Sent(r, "create") /\ app[r].cause # "none"
    BY <1>5 DEF Ordered, Errors, Answered
  <2>2. /\ app'[r].at = "answered" /\ app'[r].log = app[r].log /\ app'[r].cause = app[r].cause
        /\ app'[r].failed = "unknown" /\ app'[r].parsed = app[r].parsed
        /\ app'[r] \in Handler /\ wire' = wire
    BY <1>5, RespondFailedFields
  <2>3. \A k \in Rpc : CallSound(r, k)' /\ (Sent(r, k)' <=> Sent(r, k))
    BY <1>1, <2>1, <2>2 DEF CallSound, Untouched, Sent
  <2>4. Ordered(r)' /\ Errors(r)'
    BY <2>1, <2>2, <2>3 DEF Ordered, Errors, Answered, Rpc
  <2>5. StatusOf(r)' = StatusOf(r)
    BY <1>1, <2>2 DEF StatusOf
  <2>6. Created(r)'
    BY <1>1, <2>2, <2>5 DEF Created, Untouched, Rpc
  <2>7. Finalization(r)'
    BY <1>1, <1>5, <2>1, <2>2, <2>5 DEF Finalization, Over, Untouched, Rpc
  <2>8. Concluded(r)'
    BY <2>1, <2>2, <2>3, <2>5 DEF Concluded, Answered, Rpc
  <2> QED
    BY <2>2, <2>3, <2>4, <2>6, <2>7, <2>8
<1> QED
  BY <1>3, <1>4, <1>5 DEF GiveUp

LEMMA LoseCallKeepsRequest ==
  ASSUME NEW r \in Request, RequestInv(r), NEW j \in Rpc, LoseCall(r, j)
  PROVE  RequestInv(r)'
<1> USE DEF RequestInv
<1>1. /\ \A k \in Rpc : Untouched(<<r, k>>)
      /\ logs' = logs /\ rows' = rows /\ nextID' = nextID
  BY QuietStore DEF LoseCall
<1>2. app' = app /\ \A k \in Rpc : <<r, k>> \in wire' => <<r, k>> \in wire
  BY DEF LoseCall
<1>3. \A k \in Rpc : CallSound(r, k)' /\ (Sent(r, k)' => Sent(r, k))
  BY <1>1, <1>2 DEF CallSound, Untouched, Sent
<1>4. Ordered(r)'
  BY <1>2, <1>3 DEF Ordered, Rpc
<1>5. Errors(r)'
  BY <1>2, <1>3 DEF Errors, Abandoned, Answered, Rpc
<1>6. Created(r)'
  BY <1>1, <1>2 DEF Created, Untouched, StatusOf, Rpc
<1>7. Finalization(r)'
  BY <1>1, <1>2 DEF Finalization, Over, Untouched, StatusOf, Rpc
<1>8. Concluded(r)'
  BY <1>1, <1>2, <1>3 DEF Concluded, Answered, StatusOf, Rpc
<1> QED
  BY <1>3, <1>4, <1>5, <1>6, <1>7, <1>8

LEMMA AppCrashKeepsRequest ==
  ASSUME AppTypeOK, NEW r \in Request, RequestInv(r), AppCrash
  PROVE  RequestInv(r)' /\ app'[r] \in Handler
<1> USE DEF RequestInv
<1>1. /\ \A k \in Rpc : Untouched(<<r, k>>)
      /\ logs' = logs /\ rows' = rows /\ nextID' = nextID
  BY QuietStore DEF AppCrash
<1>2. wire' = wire
  BY DEF AppCrash
<1>3. CASE app'[r] = app[r]
  <2>1. Same(r)
    BY <1>1, <1>2, <1>3 DEF Same
  <2>2. \A k \in Rpc : CallSound(r, k)' /\ (Sent(r, k)' <=> Sent(r, k))
    BY <2>1 DEF Same, Untouched, CallSound, Sent
  <2>3. Ordered(r)' /\ Errors(r)'
    BY <1>3, <2>2 DEF Ordered, Errors, Abandoned, Answered, Rpc
  <2>4. Created(r)' /\ Finalization(r)'
    BY <1>1, <1>2, <1>3 DEF Created, Finalization, Over, Untouched, StatusOf, Rpc
  <2>5. Concluded(r)'
    BY <1>1, <1>3, <2>2 DEF Concluded, Answered, StatusOf, Rpc
  <2> QED
    BY <1>3, <2>2, <2>3, <2>4, <2>5 DEF AppTypeOK
<1>4. CASE app'[r] # app[r]
  <2>1. /\ app'[r] \in Handler /\ app'[r].at = "gone" /\ app'[r].log = app[r].log
        /\ app'[r].parsed = app[r].parsed /\ app'[r].cause = app[r].cause
        /\ app'[r].failed = app[r].failed
    BY <1>4 DEF AppCrash, AppTypeOK, Handler
  <2>2. \A k \in Rpc : CallSound(r, k)' /\ (Sent(r, k)' <=> Sent(r, k))
    BY <1>1, <1>2, <2>1 DEF Untouched, CallSound, Sent
  <2>3. Ordered(r)' /\ Errors(r)'
    BY <2>1, <2>2 DEF Ordered, Errors, Abandoned, Answered, Rpc
  <2>4. StatusOf(r)' = StatusOf(r)
    BY <1>1, <2>1 DEF StatusOf
  <2>5. Created(r)' /\ Finalization(r)'
    BY <1>1, <1>2, <2>1, <2>4 DEF Created, Finalization, Over, Untouched, Rpc
  <2>6. Concluded(r)'
    BY <2>1, <2>2, <2>4 DEF Concluded, Answered, Rpc
  <2> QED
    BY <2>1, <2>2, <2>3, <2>5, <2>6
<1> QED
  BY <1>3, <1>4

-----------------------------------------------------------------------------
(***************************************************************************)
(* The steps in which a message passes between app and repository.         *)
(***************************************************************************)
LEMMA DeliverFields ==
  ASSUME TypeOK, Discipline, NEW r \in Request, RequestInv(r), NEW j \in Rpc, Deliver(r, j)
  PROVE  /\ app' = app /\ wire' = wire \ {<<r, j>>} /\ <<r, j>> \in wire
         /\ logs' = logs /\ rows' = rows /\ nextID' = nextID
         /\ \A k \in Rpc \ {j} : Untouched(<<r, k>>)
         /\ pc[<<r, j>>] = "idle" /\ reply'[<<r, j>>] = "none"
         /\ pc'[<<r, j>>] = IF j = "save" THEN "lock" ELSE j
         /\ call'[<<r, j>>].op = j
         /\ j = "create" => call'[<<r, j>>].log = 0
         /\ j # "create" => call'[<<r, j>>].log = app[r].log /\ app[r].log # 0
         /\ j = "save" => call'[<<r, j>>].parsed = app[r].parsed
<1> DEFINE s == <<r, j>>
<1>1. /\ s \in wire /\ s \in Session /\ \A k \in Rpc \ {j} : <<r, k>> \in Session \ {s}
      /\ app' = app /\ wire' = wire \ {s}
  BY SessionOf DEF Deliver
<1>2. pc[s] = "idle" /\ reply[s] = "none"
  BY <1>1 DEF RequestInv, CallSound, Discipline, Disciplined
<1>3. j # "create" => app[r].log # 0
  BY <1>1 DEF RequestInv, Ordered, Sent, Rpc
<1>4. CASE j = "create" /\ CallCreateLog(s)
  <2> DEFINE c == [op |-> "create", log |-> 0, parsed |-> EmptyRows]
  <2>1. c.op = "create" /\ c.log = 0 /\ Begin(s, "create", c)
    BY <1>4 DEF CallCreateLog
  <2>2. ~ (c.op # "create" /\ c.log = 0)
    BY <2>1
  <2>3. pc' = [pc EXCEPT ![s] = "create"] /\ UNCHANGED reply
    BY <2>1, <2>2 DEF Begin
  <2> HIDE DEF c
  <2>4. pc'[s] = "create" /\ reply'[s] = "none"
    BY <1>1, <1>2, <2>3 DEF TypeOK
  <2> QED
    BY <1>1, <1>2, <1>4, <2>1, <2>4, BeginFrame
<1>5. CASE j = "save" /\ CallSaveParsedLog(s, app[r].log, app[r].parsed)
  <2> DEFINE c == [op |-> "save", log |-> app[r].log, parsed |-> app[r].parsed]
  <2>1. c.op = "save" /\ c.log = app[r].log /\ c.parsed = app[r].parsed /\ Begin(s, "lock", c)
    BY <1>5 DEF CallSaveParsedLog
  <2>2. ~ (c.op # "create" /\ c.log = 0)
    BY <1>3, <1>5, <2>1
  <2>3. pc' = [pc EXCEPT ![s] = "lock"] /\ UNCHANGED reply
    BY <2>1, <2>2 DEF Begin
  <2> HIDE DEF c
  <2>4. pc'[s] = "lock" /\ reply'[s] = "none"
    BY <1>1, <1>2, <2>3 DEF TypeOK
  <2> QED
    BY <1>1, <1>2, <1>3, <1>5, <2>1, <2>4, BeginFrame
<1>6. CASE j = "fail" /\ CallFailLog(s, app[r].log)
  <2> DEFINE c == [op |-> "fail", log |-> app[r].log, parsed |-> EmptyRows]
  <2>1. c.op = "fail" /\ c.log = app[r].log /\ Begin(s, "fail", c)
    BY <1>6 DEF CallFailLog
  <2>2. ~ (c.op # "create" /\ c.log = 0)
    BY <1>3, <1>6, <2>1
  <2>3. pc' = [pc EXCEPT ![s] = "fail"] /\ UNCHANGED reply
    BY <2>1, <2>2 DEF Begin
  <2> HIDE DEF c
  <2>4. pc'[s] = "fail" /\ reply'[s] = "none"
    BY <1>1, <1>2, <2>3 DEF TypeOK
  <2> QED
    BY <1>1, <1>2, <1>3, <1>6, <2>1, <2>4, BeginFrame
<1> QED
  BY <1>4, <1>5, <1>6 DEF Deliver

LEMMA DeliverKeepsRequest ==
  ASSUME TypeOK, Discipline, NEW r \in Request, RequestInv(r), NEW j \in Rpc, Deliver(r, j)
  PROVE  RequestInv(r)'
<1> USE DEF RequestInv
<1>1. /\ app' = app /\ wire' = wire \ {<<r, j>>} /\ <<r, j>> \in wire
      /\ logs' = logs /\ rows' = rows /\ nextID' = nextID
      /\ \A k \in Rpc \ {j} : Untouched(<<r, k>>)
      /\ reply'[<<r, j>>] = "none" /\ pc'[<<r, j>>] # "idle"
      /\ pc'[<<r, j>>] = IF j = "save" THEN "lock" ELSE j
      /\ call'[<<r, j>>].op = j
      /\ j = "create" => call'[<<r, j>>].log = 0
      /\ j # "create" => call'[<<r, j>>].log = app[r].log
      /\ j = "save" => call'[<<r, j>>].parsed = app[r].parsed
  BY DeliverFields DEF Rpc
<1>2. \A k \in Rpc : CallSound(r, k)' /\ (Sent(r, k)' <=> Sent(r, k))
  <2>1. CallSound(r, j)' /\ Sent(r, j)' /\ Sent(r, j)
    BY <1>1 DEF CallSound, Sent
  <2>2. \A k \in Rpc \ {j} : CallSound(r, k)' /\ (Sent(r, k)' <=> Sent(r, k))
    BY <1>1 DEF CallSound, Untouched, Sent
  <2> QED
    BY <2>1, <2>2
<1>3. Ordered(r)' /\ Errors(r)'
  BY <1>1, <1>2 DEF Ordered, Errors, Abandoned, Answered, Rpc
<1>4. StatusOf(r)' = StatusOf(r)
  BY <1>1 DEF StatusOf
<1>5. Created(r)'
  BY <1>1, <1>4 DEF Created, Untouched, Rpc
<1>6. Finalization(r)'
  BY <1>1, <1>4 DEF Finalization, Over, Untouched, Rpc
<1>7. Concluded(r)'
  BY <1>1, <1>2, <1>4 DEF Concluded, Answered, Rpc
<1> QED
  BY <1>2, <1>3, <1>5, <1>6, <1>7

LEMMA ReturnFields ==
  ASSUME TypeOK, NEW r \in Request, RequestInv(r), NEW j \in Rpc, Return(<<r, j>>)
  PROVE  /\ logs' = logs /\ rows' = rows /\ nextID' = nextID
         /\ \A k \in Rpc \ {j} : Untouched(<<r, k>>)
         /\ <<r, j>> \notin wire
         /\ pc[<<r, j>>] = "done" /\ call[<<r, j>>].op = j
         /\ pc'[<<r, j>>] = "idle" /\ call'[<<r, j>>] = NoCall /\ reply'[<<r, j>>] = "none"
<1>1. <<r, j>> \in Session /\ \A k \in Rpc \ {j} : <<r, k>> \in Session \ {<<r, j>>}
  BY SessionOf
<1> QED
  BY <1>1 DEF Return, TypeOK, RequestInv, CallSound, Untouched

\* The request has not moved on, or only to conclude from the answer: what is
\* said of its calls and of the log needs no more than this.
LEMMA ReturnKeepsCalls ==
  ASSUME TypeOK, Discipline, NEW r \in Request, RequestInv(r), NEW j \in Rpc, Return(<<r, j>>),
         app'[r].log = app[r].log, app'[r].parsed = app[r].parsed,
         \A k \in Rpc \ {j} : <<r, k>> \in wire' => <<r, k>> \in wire \/ ~ Sent(r, k),
         <<r, j>> \notin wire'
  PROVE  /\ \A k \in Rpc : CallSound(r, k)'
         /\ ~ Sent(r, j)'
         /\ Created(r)'
         /\ StatusOf(r)' = StatusOf(r)
<1> USE DEF RequestInv
<1>1. /\ logs' = logs /\ rows' = rows /\ nextID' = nextID
      /\ \A k \in Rpc \ {j} : Untouched(<<r, k>>)
      /\ pc'[<<r, j>>] = "idle" /\ call'[<<r, j>>] = NoCall /\ reply'[<<r, j>>] = "none"
  BY ReturnFields
<1>2. \A k \in Rpc \ {j} : CallSound(r, k)'
  BY <1>1 DEF CallSound, Untouched, Sent
<1>3. CallSound(r, j)' /\ ~ Sent(r, j)'
  BY <1>1 DEF CallSound, Sent
<1>4. StatusOf(r)' = StatusOf(r)
  BY <1>1 DEF StatusOf
<1>5. Created(r)'
  <2>1. CASE j = "create"
    BY <1>1, <1>4, <2>1 DEF Created, NoCall
  <2>2. CASE j # "create"
    BY <1>1, <1>4, <2>2 DEF Created, Untouched, Rpc
  <2> QED
    BY <2>1, <2>2
<1> QED
  BY <1>2, <1>3, <1>4, <1>5

LEMMA DropReplyKeepsRequest ==
  ASSUME TypeOK, Discipline, NEW r \in Request, RequestInv(r), NEW j \in Rpc, DropReply(r, j)
  PROVE  RequestInv(r)'
<1> USE DEF RequestInv
<1>1. Return(<<r, j>>) /\ app' = app /\ wire' = wire
  BY DEF DropReply
<1>2. /\ logs' = logs /\ rows' = rows
      /\ \A k \in Rpc \ {j} : Untouched(<<r, k>>)
      /\ pc'[<<r, j>>] = "idle" /\ reply'[<<r, j>>] = "none" /\ <<r, j>> \notin wire
  BY <1>1, ReturnFields
<1>3. /\ \A k \in Rpc : CallSound(r, k)'
      /\ ~ Sent(r, j)' /\ Created(r)' /\ StatusOf(r)' = StatusOf(r)
  BY <1>1, <1>2, ReturnKeepsCalls
<1>4. \A k \in Rpc : Sent(r, k)' => Sent(r, k)
  BY <1>1, <1>2, <1>3 DEF Sent, Untouched
<1>5. Ordered(r)' /\ Errors(r)'
  BY <1>1, <1>4 DEF Ordered, Errors, Abandoned, Answered, Rpc
<1>6. Finalization(r)'
  BY <1>1, <1>2, <1>3 DEF Finalization, Over, Untouched, Rpc
<1>7. Concluded(r)'
  BY <1>1, <1>3, <1>4 DEF Concluded, Answered, Rpc
<1> QED
  BY <1>3, <1>5, <1>6, <1>7

LEMMA CreateRepliedKeepsRequest ==
  ASSUME TypeOK, AppTypeOK, Discipline, NEW r \in Request, RequestInv(r), CreateReplied(r)
  PROVE  RequestInv(r)' /\ app'[r] \in Handler
<1> USE DEF RequestInv
<1> DEFINE s == <<r, "create">>
<1>0. "create" \in Rpc /\ Return(s) /\ app[r].at = "create" /\ app[r] \in Handler /\ s \in Session
  BY SessionOf DEF CreateReplied, Replied, Rpc, AppTypeOK
<1>1. /\ logs' = logs /\ rows' = rows /\ nextID' = nextID
      /\ \A k \in Rpc \ {"create"} : Untouched(<<r, k>>)
      /\ s \notin wire /\ pc[s] = "done"
      /\ pc'[s] = "idle" /\ call'[s] = NoCall /\ reply'[s] = "none"
  BY <1>0, ReturnFields
<1>2. /\ app[r].log = 0 /\ app[r].cause = "none" /\ app[r].failed = "none"
      /\ ~ Sent(r, "save") /\ ~ Sent(r, "fail")
  BY <1>0 DEF Ordered, Errors, Answered
<1>3. \A k \in {"save", "fail"} : /\ pc'[<<r, k>>] = "idle" /\ <<r, k>> \notin wire
                                  /\ reply'[<<r, k>>] = "none"
  <2> SUFFICES ASSUME NEW k \in {"save", "fail"}
               PROVE  /\ pc'[<<r, k>>] = "idle" /\ <<r, k>> \notin wire
                      /\ reply'[<<r, k>>] = "none"
    OBVIOUS
  <2>1. k \in Rpc /\ k \in Rpc \ {"create"} /\ ~ Sent(r, k)
    BY <1>2 DEF Rpc
  <2>2. <<r, k>> \notin wire /\ pc[<<r, k>>] = "idle" /\ reply[<<r, k>>] = "none"
    BY <2>1, IdleIsSilent
  <2> QED
    BY <1>1, <2>1, <2>2 DEF Untouched
<1>4. CASE reply[s] = "ok"
  <2>1. /\ call[s].log \in LogId /\ call[s].log < nextID
        /\ logs[call[s].log].status = "processing"
    BY <1>0, <1>4 DEF Created, TypeOK, Call
  <2>2. /\ app'[r].at = "parse" /\ app'[r].log = call[s].log /\ app'[r].cause = "none"
        /\ app'[r].failed = "none" /\ app'[r] \in Handler /\ wire' = wire
    BY <1>0, <1>2, <1>4, <2>1 DEF CreateReplied, AppTypeOK, Handler
  <2>3. app'[r].log # 0 /\ StatusOf(r)' = "processing"
    BY <1>1, <2>1, <2>2 DEF StatusOf, LogId
  <2>4. \A k \in Rpc : CallSound(r, k)' /\ ~ Sent(r, k)'
    <3>1. CallSound(r, "create")' /\ ~ Sent(r, "create")'
      BY <1>1, <2>2 DEF CallSound, Sent
    <3>2. \A k \in {"save", "fail"} : CallSound(r, k)' /\ ~ Sent(r, k)'
      BY <1>1, <1>2, <1>3, <2>2 DEF CallSound, Sent, Untouched, Rpc
    <3> QED
      BY <3>1, <3>2 DEF Rpc
  <2>5. Ordered(r)' /\ Errors(r)'
    BY <2>2, <2>3, <2>4 DEF Ordered, Errors, Answered, Rpc
  <2>6. Created(r)'
    BY <1>1, <2>1, <2>2, <2>3 DEF Created, NoCall
  <2>7. Finalization(r)' /\ Concluded(r)'
    BY <1>3, <2>2, <2>3, <1>1 DEF Finalization, Concluded, Answered, Rpc
  <2> QED
    BY <2>2, <2>4, <2>5, <2>6, <2>7
<1>5. CASE reply[s] # "ok"
  <2> DEFINE err == ErrorOf(r, "create")
  <2>1. reply[s] \in {"none", "dbError", "unavailable"}
    BY <1>5 DEF Created
  <2>2. err \in {"other", "ErrUnavailable"}
    BY <2>1 DEF ErrorOf, RepositoryCode, FromRepository, TransportCodes
  <2>3. Respond(r, [app[r] EXCEPT !.cause = err])
    BY <1>5 DEF CreateReplied
  <2>4. err \in AppError
    BY <2>2 DEF AppError
  <2> HIDE DEF err
  <2>5. /\ app'[r].at = "answered" /\ app'[r].log = 0 /\ app'[r].cause = err
        /\ app'[r].parsed = app[r].parsed
        /\ app'[r].failed = "none" /\ app'[r] \in Handler /\ wire' = wire
    BY <1>2, <2>3, <2>4, RespondCauseFields
  <2>6. /\ \A k \in Rpc : CallSound(r, k)'
        /\ ~ Sent(r, "create")' /\ Created(r)'
    BY <1>0, <1>1, <1>2, <2>5, ReturnKeepsCalls
  <2>7. ~ Sent(r, "save")' /\ ~ Sent(r, "fail")'
    BY <1>3, <2>5 DEF Sent
  <2>8. Ordered(r)' /\ Errors(r)'
    BY <2>2, <2>5, <2>6, <2>7 DEF Ordered, Errors, Answered
  <2>9. Finalization(r)' /\ Concluded(r)'
    BY <2>2, <2>5 DEF Finalization, Concluded
  <2> QED
    BY <2>5, <2>6, <2>8, <2>9
<1> QED
  BY <1>4, <1>5

\* What the app's client makes of the repository's errors.
LEMMA ErrorFields ==
  ASSUME NEW r \in Request, NEW k \in Rpc,
         reply[<<r, k>>] \in Reply \ {"ok"}
  PROVE  /\ ErrorOf(r, k) \in AppError
         /\ ErrorOf(r, k) = "ErrConflict" <=> reply[<<r, k>>] = "ErrInvalidStatus"
         /\ ErrorOf(r, k) = "ErrBadArguments" <=> reply[<<r, k>>] = "ErrBadArguments"
         /\ ErrorOf(r, k) = "ErrNotFound" <=> reply[<<r, k>>] = "ErrNotFound"
BY DEF ErrorOf, RepositoryCode, FromRepository, TransportCodes, AppError, Reply

LEMMA SaveRepliedKeepsRequest ==
  ASSUME TypeOK, AppTypeOK, Discipline, OneFinalizer,
         NEW r \in Request, RequestInv(r), SaveReplied(r)
  PROVE  RequestInv(r)' /\ app'[r] \in Handler
<1> USE DEF RequestInv
<1> DEFINE s == <<r, "save">>
<1>0. "save" \in Rpc /\ Return(s) /\ app[r].at = "save" /\ app[r] \in Handler /\ s \in Session
  BY SessionOf DEF SaveReplied, Replied, Rpc, AppTypeOK
<1>1. /\ logs' = logs /\ rows' = rows /\ nextID' = nextID
      /\ \A k \in Rpc \ {"save"} : Untouched(<<r, k>>)
      /\ s \notin wire /\ pc[s] = "done" /\ call[s].op = "save"
      /\ pc'[s] = "idle" /\ call'[s] = NoCall /\ reply'[s] = "none"
  BY <1>0, ReturnFields
<1>2. /\ app[r].log # 0 /\ StatusOf(r) # "failed" /\ ~ Sent(r, "fail") /\ ~ Sent(r, "create")
      /\ app[r].cause = "none" /\ app[r].failed = "none"
  BY <1>0, NotFinalizedYet
<1>3. call[s].log = app[r].log /\ app[r].parsed \in Payload
  BY <1>0, <1>1 DEF CallSound, Ordered
<1>4. CASE reply[s] = "ok"
  <2>1. StatusOf(r) = "parsed"
    BY <1>0, <1>1, <1>3, <1>4 DEF OneFinalizer, Finalized, StatusOf
  <2>2. Respond(r, app[r])
    BY <1>4 DEF SaveReplied
  <2>3. /\ app'[r].at = "answered" /\ app'[r].log = app[r].log /\ app'[r].cause = "none"
        /\ app'[r].parsed = app[r].parsed
        /\ app'[r].failed = "none" /\ app'[r] \in Handler /\ wire' = wire
    BY <1>0, <1>2, <2>2, RespondFields
  <2>4. /\ \A k \in Rpc : CallSound(r, k)'
        /\ ~ Sent(r, "save")' /\ Created(r)' /\ StatusOf(r)' = StatusOf(r)
    BY <1>0, <1>1, <2>3, ReturnKeepsCalls
  <2>5. ~ Sent(r, "create")' /\ ~ Sent(r, "fail")'
    BY <1>1, <1>2, <2>3 DEF Sent, Untouched, Rpc
  <2>6. Ordered(r)' /\ Errors(r)'
    BY <1>2, <2>3, <2>4, <2>5 DEF Ordered, Errors, Answered
  <2>7. Finalization(r)'
    BY <1>1, <1>2, <2>1, <2>3, <2>4 DEF Finalization, Over, Untouched, Rpc
  <2>8. Concluded(r)'
    BY <1>2, <2>1, <2>3, <2>4 DEF Concluded, Answered
  <2> QED
    BY <2>3, <2>4, <2>6, <2>7, <2>8
<1>5. CASE reply[s] # "ok"
  <2> DEFINE err == ErrorOf(r, "save")
  <2>1. reply[s] \in Reply \ {"ok"}
    BY <1>0, <1>5 DEF TypeOK
  <2>2. reply[s] # "ErrInvalidStatus"
    BY <1>2 DEF Finalization
  <2>3. /\ err \in AppError /\ err # "ErrConflict"
        /\ err \in {"ErrBadArguments", "ErrNotFound"} => StatusOf(r) # "parsed"
    BY <1>0, <1>2, <2>1, <2>2, ErrorFields DEF Finalization, Over
  <2>4. failLog(r, err)
    BY <1>5 DEF SaveReplied
  <2> HIDE DEF err
  <2>5. /\ app'[r].at = "fail" /\ app'[r].log = app[r].log /\ app'[r].cause = err
        /\ app'[r].parsed = app[r].parsed
        /\ app'[r].failed = "none" /\ app'[r] \in Handler /\ wire' = wire \cup {<<r, "fail">>}
    BY <1>2, <2>3, <2>4, failLogFields
  <2>6. /\ \A k \in Rpc : CallSound(r, k)'
        /\ ~ Sent(r, "save")' /\ Created(r)' /\ StatusOf(r)' = StatusOf(r)
    BY <1>0, <1>1, <1>2, <2>5, ReturnKeepsCalls
  <2>7. ~ Sent(r, "create")'
    BY <1>1, <1>2, <2>5 DEF Sent, Untouched, Rpc
  <2>8. err # "none"
    BY <2>3 DEF AppError
  <2>9. Ordered(r)' /\ Errors(r)'
    BY <1>2, <2>3, <2>5, <2>6, <2>7, <2>8 DEF Ordered, Errors, Answered
  <2>10. Finalization(r)'
    BY <1>1, <1>2, <2>5, <2>6 DEF Finalization, Over, Untouched, Rpc
  <2>11. Concluded(r)'
    BY <1>2, <2>3, <2>5, <2>6 DEF Concluded, Answered
  <2> QED
    BY <2>5, <2>6, <2>9, <2>10, <2>11
<1> QED
  BY <1>4, <1>5

LEMMA FailRepliedKeepsRequest ==
  ASSUME TypeOK, AppTypeOK, Discipline, OneFinalizer,
         NEW r \in Request, RequestInv(r), FailReplied(r)
  PROVE  RequestInv(r)' /\ app'[r] \in Handler
<1> USE DEF RequestInv
<1> DEFINE s == <<r, "fail">>
           f == CASE reply[s] = "ok" -> "ok"
                  [] ErrorOf(r, "fail") = "ErrConflict" -> "conflict"
                  [] OTHER -> "unknown"
<1>0. "fail" \in Rpc /\ Return(s) /\ app[r].at = "fail" /\ app[r] \in Handler /\ s \in Session
  BY SessionOf DEF FailReplied, Replied, Rpc, AppTypeOK
<1>1. /\ logs' = logs /\ rows' = rows /\ nextID' = nextID
      /\ \A k \in Rpc \ {"fail"} : Untouched(<<r, k>>)
      /\ s \notin wire /\ pc[s] = "done" /\ call[s].op = "fail"
      /\ pc'[s] = "idle" /\ call'[s] = NoCall /\ reply'[s] = "none"
  BY <1>0, ReturnFields
<1>2. app[r].log # 0 /\ ~ Sent(r, "create") /\ app[r].cause # "none" /\ app[r].failed = "none"
  BY <1>0 DEF Ordered, Errors, Answered
<1>3. call[s].log = app[r].log
  BY <1>0, <1>1 DEF CallSound
<1>4. reply[s] = "ok" => StatusOf(r) = "failed"
  BY <1>0, <1>1, <1>3 DEF OneFinalizer, Finalized, StatusOf
<1>5. reply[s] # "ok" /\ ErrorOf(r, "fail") = "ErrConflict" => StatusOf(r) = "parsed"
  <2>1. reply[s] \in Reply
    BY <1>0 DEF TypeOK
  <2> QED
    BY <1>0, <1>2, <2>1, ErrorFields DEF Finalization
<1>6. /\ f \in {"ok", "conflict", "unknown"}
      /\ f = "ok" => StatusOf(r) = "failed"
      /\ f = "conflict" => StatusOf(r) = "parsed"
  <2>1. CASE reply[s] = "ok"
    <3>1. ErrorOf(r, "fail") # "ErrConflict"
      BY <2>1 DEF ErrorOf, RepositoryCode, FromRepository, TransportCodes
    <3> QED
      BY <1>4, <2>1, <3>1
  <2>2. CASE reply[s] # "ok" /\ ErrorOf(r, "fail") = "ErrConflict"
    BY <1>5, <2>2
  <2>3. CASE reply[s] # "ok" /\ ErrorOf(r, "fail") # "ErrConflict"
    BY <2>3
  <2> QED
    BY <2>1, <2>2, <2>3
<1>7. Respond(r, [app[r] EXCEPT !.failed = f])
  BY DEF FailReplied
<1> HIDE DEF f
<1>8. /\ app'[r].at = "answered" /\ app'[r].log = app[r].log /\ app'[r].cause = app[r].cause
      /\ app'[r].parsed = app[r].parsed
      /\ app'[r].failed = f /\ app'[r] \in Handler /\ wire' = wire
  BY <1>6, <1>7, RespondFailedFields
<1>9. /\ \A k \in Rpc : CallSound(r, k)'
      /\ ~ Sent(r, "fail")' /\ Created(r)' /\ StatusOf(r)' = StatusOf(r)
  BY <1>0, <1>1, <1>8, ReturnKeepsCalls
<1>10. ~ Sent(r, "create")' /\ (Sent(r, "save")' => Sent(r, "save"))
  BY <1>1, <1>2, <1>8 DEF Sent, Untouched, Rpc
<1>11. Ordered(r)' /\ Errors(r)'
  BY <1>2, <1>6, <1>8, <1>9, <1>10 DEF Ordered, Errors, Answered
<1>12. Finalization(r)'
  BY <1>1, <1>8, <1>9 DEF Finalization, Over, Untouched, Rpc
<1>13. Concluded(r)'
  BY <1>2, <1>6, <1>8, <1>9, <1>10 DEF Concluded, Answered
<1> QED
  BY <1>8, <1>9, <1>11, <1>12, <1>13

-----------------------------------------------------------------------------
(***************************************************************************)
(* The steps of the repository's handlers.                                 *)
(***************************************************************************)
LEMMA OwnCalls ==
  ASSUME NEW r \in Request, RequestInv(r), NEW j \in Rpc,
         app' = app, wire' = wire, \A k \in Rpc \ {j} : Untouched(<<r, k>>),
         pc[<<r, j>>] # "idle", pc'[<<r, j>>] # "idle",
         call'[<<r, j>>].op = call[<<r, j>>].op,
         j # "create" => call'[<<r, j>>].log = call[<<r, j>>].log,
         j = "save" => call'[<<r, j>>].parsed = call[<<r, j>>].parsed
  PROVE  /\ \A k \in Rpc : CallSound(r, k)' /\ (Sent(r, k)' <=> Sent(r, k))
         /\ Ordered(r)' /\ Errors(r)'
<1> USE DEF RequestInv
<1>1. CallSound(r, j)' /\ Sent(r, j)' /\ Sent(r, j)
  BY DEF CallSound, Sent
<1>2. \A k \in Rpc \ {j} : CallSound(r, k)' /\ (Sent(r, k)' <=> Sent(r, k))
  BY DEF CallSound, Sent, Untouched
<1>3. \A k \in Rpc : CallSound(r, k)' /\ (Sent(r, k)' <=> Sent(r, k))
  BY <1>1, <1>2
<1>4. Ordered(r)' /\ Errors(r)'
  BY <1>3 DEF Ordered, Errors, Abandoned, Answered, Rpc
<1> QED
  BY <1>3, <1>4

\* A handler at a statement is one of the call that the statement belongs to.
LEMMA WhoseStatement ==
  ASSUME Discipline, NEW r \in Request, RequestInv(r), NEW j \in Rpc,
         pc[<<r, j>>] \notin {"idle", "done"}
  PROVE  /\ <<r, j>> \notin wire /\ Sent(r, j) /\ reply[<<r, j>>] = "none"
         /\ pc[<<r, j>>] \in {"lock", "insert"} => j = "save"
         /\ pc[<<r, j>>] \in {"fail", "explain"} => j = "fail"
         /\ pc[<<r, j>>] = "create" => j = "create"
         /\ j # "create" => /\ app[r].log # 0 /\ ~ Sent(r, "create")
                            /\ call[<<r, j>>].log = app[r].log
                            /\ LockedStatus(<<r, j>>) = StatusOf(r)
                            /\ app[r].at # "parse"
         /\ j = "save" => /\ app[r].parsed = call[<<r, j>>].parsed
                          /\ StatusOf(r) # "parsed"
         /\ j = "fail" => StatusOf(r) # "failed" /\ app[r].at \notin {"parse", "save"}
<1>1. <<r, j>> \in Session /\ Disciplined(<<r, j>>)
  BY SessionOf DEF Discipline
<1>2. <<r, j>> \notin wire /\ Sent(r, j) /\ call[<<r, j>>].op = j
  BY DEF RequestInv, CallSound, Sent
<1>3. /\ reply[<<r, j>>] = "none"
      /\ pc[<<r, j>>] \in {"lock", "insert"} => j = "save"
      /\ pc[<<r, j>>] \in {"fail", "explain"} => j = "fail"
      /\ pc[<<r, j>>] = "create" => j = "create"
  BY <1>1, <1>2 DEF Disciplined
<1>4. j # "create" => /\ app[r].log # 0 /\ ~ Sent(r, "create")
                      /\ call[<<r, j>>].log = app[r].log
                      /\ app[r].at # "parse"
                      /\ j = "fail" => app[r].at # "save"
  BY <1>2 DEF RequestInv, Ordered, CallSound, Rpc
<1>5. j = "save" => app[r].parsed = call[<<r, j>>].parsed
  BY DEF RequestInv, CallSound
<1>6. /\ j = "save" => StatusOf(r) # "parsed"
      /\ j = "fail" => StatusOf(r) # "failed"
  BY <1>4 DEF RequestInv, Finalization, Over
<1> QED
  BY <1>2, <1>3, <1>4, <1>5, <1>6 DEF LockedStatus, StatusOf

LEMMA RollbackKeepsRequest ==
  ASSUME TypeOK, Discipline, NEW r \in Request, RequestInv(r), NEW j \in {"save", "fail"},
         app' = app, wire' = wire,
         pc[<<r, j>>] \notin {"idle", "done"},
         NEW e \in Reply, Rollback(<<r, j>>, e),
         e = "ErrInvalidStatus" => StatusOf(r) = IF j = "save" THEN "failed" ELSE "parsed"
  PROVE  RequestInv(r)'
<1> USE DEF RequestInv
<1> DEFINE s == <<r, j>>
<1>0. j \in Rpc /\ s \in Session /\ \A k \in Rpc \ {j} : <<r, k>> \in Session \ {s}
  BY SessionOf DEF Rpc
<1>1. /\ \A k \in Rpc \ {j} : Untouched(<<r, k>>)
      /\ pc'[s] = "done" /\ reply'[s] = e
      /\ logs' = logs /\ rows' = rows /\ nextID' = nextID /\ call' = call
  BY <1>0, RollbackFrame
<1>2. /\ \A k \in Rpc : CallSound(r, k)' /\ (Sent(r, k)' <=> Sent(r, k))
      /\ Ordered(r)' /\ Errors(r)'
  BY <1>0, <1>1, OwnCalls
<1>3. StatusOf(r)' = StatusOf(r)
  BY <1>1 DEF StatusOf
<1>4. Created(r)'
  BY <1>1, <1>3 DEF Created, Untouched, Rpc
<1>5. Finalization(r)'
  <2>1. CASE j = "save"
    <3>1. StatusOf(r) # "parsed"
      BY <1>0, <2>1, WhoseStatement
    <3> QED
      BY <1>1, <1>3, <2>1, <3>1 DEF Finalization, Over, Untouched, Rpc
  <2>2. CASE j = "fail"
    <3>1. StatusOf(r) # "failed"
      BY <1>0, <2>2, WhoseStatement
    <3> QED
      BY <1>1, <1>3, <2>2, <3>1 DEF Finalization, Over, Untouched, Rpc
  <2> QED
    BY <2>1, <2>2
<1>6. Concluded(r)'
  BY <1>2, <1>3 DEF Concluded, Answered, Rpc
<1> QED
  BY <1>2, <1>4, <1>5, <1>6

\* The steps that CreateLog, SaveParsedLog and FailLog consist of.
LEMMA CreateLogKeepsRequest ==
  ASSUME TypeOK, Discipline, NEW r \in Request, RequestInv(r), NEW j \in Rpc,
         app' = app, wire' = wire, \A k \in Rpc \ {j} : Untouched(<<r, k>>),
         CreateLog(<<r, j>>) \/ CreateLogFails(<<r, j>>)
  PROVE  RequestInv(r)'
<1> USE DEF RequestInv
<1> DEFINE s == <<r, j>>
<1>1. pc[s] = "create" /\ s \in Session
  BY SessionOf DEF CreateLog, CreateLogFails
<1>2. j = "create" /\ reply[s] = "none" /\ call[s].log = 0
  BY <1>1, WhoseStatement DEF Created
<1>3. app[r].log = 0
  BY <1>1, <1>2 DEF Ordered, Sent
<1>4. /\ pc'[s] = "done"
      /\ call'[s].op = call[s].op
      /\ \/ reply'[s] = "dbError" /\ call'[s].log = 0
         \/ /\ reply'[s] = "ok" /\ call'[s].log = nextID /\ nextID \in LogId
            /\ nextID' = nextID + 1 /\ logs'[nextID].status = "processing"
  <2>1. CASE CreateLog(s)
    <3>1. nextID \in LogId /\ nextID' = nextID + 1 /\ logs'[nextID].status = "processing"
      BY <2>1 DEF CreateLog, TypeOK, NoLog
    <3>2. pc'[s] = "done"
      BY <1>1, <2>1 DEF CreateLog, Answer, TypeOK
    <3>3. CASE Answer(s, "ok") /\ call' = [call EXCEPT ![s].log = nextID]
      <4>1. call'[s] = [call[s] EXCEPT !.log = nextID] /\ reply'[s] = "ok" /\ call[s] \in Call
        BY <1>1, <3>3 DEF Answer, TypeOK
      <4> QED
        BY <3>1, <3>2, <4>1 DEF Call
    <3>4. CASE Answer(s, "dbError") /\ UNCHANGED call
      BY <1>1, <1>2, <3>2, <3>4 DEF Answer, TypeOK
    <3> QED
      BY <2>1, <3>3, <3>4 DEF CreateLog
  <2>2. CASE CreateLogFails(s)
    BY <1>1, <1>2, <2>2 DEF CreateLogFails, Answer, TypeOK
  <2> QED
    BY <2>1, <2>2
<1>5. /\ \A k \in Rpc : CallSound(r, k)' /\ (Sent(r, k)' <=> Sent(r, k))
      /\ Ordered(r)' /\ Errors(r)'
  BY <1>1, <1>2, <1>4, OwnCalls
<1>6. Created(r)'
  BY <1>2, <1>3, <1>4 DEF Created, LogId, TypeOK
<1>7. Finalization(r)' /\ Concluded(r)'
  BY <1>3, <1>5 DEF Finalization, Concluded, Answered
<1> QED
  BY <1>5, <1>6, <1>7

LEMMA LockLogKeepsRequest ==
  ASSUME TypeOK, Discipline, NEW r \in Request, RequestInv(r), NEW j \in Rpc,
         app' = app, wire' = wire, \A k \in Rpc \ {j} : Untouched(<<r, k>>),
         LockLog(<<r, j>>) \/ FailLogMisses(<<r, j>>)
  PROVE  RequestInv(r)'
<1> USE DEF RequestInv
<1> DEFINE s == <<r, j>>
<1>1. s \in Session /\ pc[s] \in {"lock", "fail"}
  BY SessionOf DEF LockLog, FailLogMisses
<1>2. /\ app[r].log # 0 /\ j \in {"save", "fail"} /\ LockedStatus(s) = StatusOf(r)
      /\ j = "save" <=> LockLog(s)
      /\ reply[s] = "none" /\ (j = "fail" => StatusOf(r) # "failed")
  BY <1>1, WhoseStatement DEF LockLog, FailLogMisses
<1>3. /\ logs' = logs /\ rows' = rows /\ nextID' = nextID /\ call' = call /\ reply' = reply
      /\ pc'[s] = IF j = "save" THEN "insert" ELSE "explain"
  BY <1>1, <1>2 DEF LockLog, FailLogMisses, TypeOK
<1>4. /\ \A k \in Rpc : CallSound(r, k)' /\ (Sent(r, k)' <=> Sent(r, k))
      /\ Ordered(r)' /\ Errors(r)'
  BY <1>1, <1>3, OwnCalls
<1>5. StatusOf(r)' = StatusOf(r)
  BY <1>3 DEF StatusOf
<1>6. Created(r)'
  BY <1>2, <1>3, <1>5 DEF Created, Untouched, Rpc
<1>7. StatusOf(r) \in Status
  <2>1. call[s].log \in LogId /\ StatusOf(r) = logs[call[s].log].status
    BY <1>1, <1>2 DEF Discipline, Disciplined, LockedStatus
  <2> QED
    BY <2>1 DEF TypeOK, LogRow
<1>8. CASE j = "save"
  <2>1. StatusOf(r) = "processing"
    BY <1>2, <1>8 DEF LockLog
  <2>2. Finalization(r)'
    BY <1>3, <1>5, <1>8, <2>1 DEF Finalization, Over, Untouched, Rpc
  <2>3. Concluded(r)'
    BY <1>4, <1>5 DEF Concluded, Answered, Rpc
  <2> QED
    BY <1>4, <1>6, <2>2, <2>3
<1>9. CASE j = "fail"
  <2>1. StatusOf(r) = "parsed"
    BY <1>2, <1>7, <1>9 DEF FailLogMisses, Created, Status
  <2>2. Finalization(r)'
    BY <1>3, <1>5, <1>9, <2>1 DEF Finalization, Over, Untouched, Rpc
  <2>3. Concluded(r)'
    BY <1>4, <1>5 DEF Concluded, Answered, Rpc
  <2> QED
    BY <1>4, <1>6, <2>2, <2>3
<1> QED
  BY <1>2, <1>8, <1>9

LEMMA CommitKeepsRequest ==
  ASSUME TypeOK, Discipline, CheckedStatusHolds, TxSound,
         NEW r \in Request, RequestInv(r), NEW j \in Rpc,
         app' = app, wire' = wire, \A k \in Rpc \ {j} : Untouched(<<r, k>>),
         CommitParsed(<<r, j>>)
  PROVE  RequestInv(r)'
<1> USE DEF RequestInv
<1> DEFINE s == <<r, j>>
<1>1. s \in Session /\ pc[s] = "insert"
  BY SessionOf DEF CommitParsed
<1>2. /\ j = "save" /\ app[r].log # 0 /\ ~ Sent(r, "create") /\ Sent(r, "save")
      /\ call[s].log = app[r].log /\ app[r].parsed = call[s].parsed
      /\ s \notin wire /\ app[r].at # "parse"
  BY <1>1, WhoseStatement
<1>3. app[r].log \in LogId /\ StatusOf(r) = "processing"
  BY <1>1, <1>2, HowFinalized DEF Finalizes, StatusOf
<1>4. tx[s] = app[r].parsed
  BY <1>1, <1>2, WholeInserted DEF CommitParsed, TxSound
<1>5. /\ pc'[s] = "done" /\ reply'[s] \in {"ok", "dbError"}
      /\ call' = call /\ nextID' = nextID
  BY <1>1 DEF CommitParsed, Answer, TypeOK
<1>6. StatusOf(r)' = "parsed" /\ rows'[app[r].log] = app[r].parsed
  BY <1>1, <1>2, <1>3, <1>4 DEF CommitParsed, TypeOK, StatusOf
<1>7. /\ \A k \in Rpc : CallSound(r, k)' /\ (Sent(r, k)' <=> Sent(r, k))
      /\ Ordered(r)' /\ Errors(r)'
  BY <1>1, <1>5, OwnCalls
<1>8. Created(r)'
  <2>1. Untouched(<<r, "create">>) /\ call[<<r, "create">>].log = 0
    BY <1>2 DEF Sent, CallSound, NoCall, Rpc
  <2> QED
    BY <1>5, <1>6, <2>1 DEF Created, Untouched
<1>9. Finalization(r)'
  BY <1>2, <1>3, <1>5, <1>6 DEF Finalization, Over, Untouched, Rpc
<1>10. Concluded(r)'
  BY <1>2, <1>3, <1>6, <1>7 DEF Concluded, Answered
<1> QED
  BY <1>7, <1>8, <1>9, <1>10

LEMMA FailLogKeepsRequest ==
  ASSUME TypeOK, Discipline, CheckedStatusHolds,
         NEW r \in Request, RequestInv(r), NEW j \in Rpc,
         app' = app, wire' = wire, \A k \in Rpc \ {j} : Untouched(<<r, k>>),
         FailLog(<<r, j>>)
  PROVE  RequestInv(r)'
<1> USE DEF RequestInv
<1> DEFINE s == <<r, j>>
<1>1. s \in Session /\ pc[s] = "fail"
  BY SessionOf DEF FailLog
<1>2. /\ j = "fail" /\ app[r].log # 0 /\ ~ Sent(r, "create") /\ Sent(r, "fail")
      /\ call[s].log = app[r].log
      /\ s \notin wire /\ app[r].at \notin {"parse", "save"}
  BY <1>1, WhoseStatement
<1>3. app[r].log \in LogId /\ StatusOf(r) = "processing"
  BY <1>1, <1>2, HowFinalized DEF Finalizes, StatusOf
<1>4. /\ pc'[s] = "done" /\ reply'[s] \in {"ok", "dbError"}
      /\ call' = call /\ nextID' = nextID
  BY <1>1 DEF FailLog, Answer, TypeOK
<1>5. StatusOf(r)' = "failed"
  BY <1>1, <1>2, <1>3 DEF FailLog, TypeOK, LogRow, StatusOf
<1>6. /\ \A k \in Rpc : CallSound(r, k)' /\ (Sent(r, k)' <=> Sent(r, k))
      /\ Ordered(r)' /\ Errors(r)'
  BY <1>1, <1>4, OwnCalls
<1>7. Created(r)'
  <2>1. Untouched(<<r, "create">>) /\ call[<<r, "create">>].log = 0
    BY <1>2 DEF Sent, CallSound, NoCall, Rpc
  <2> QED
    BY <1>4, <1>5, <2>1 DEF Created, Untouched
<1>8. Finalization(r)'
  BY <1>2, <1>3, <1>4, <1>5 DEF Finalization, Over, Untouched, Rpc
<1>9. Concluded(r)'
  BY <1>2, <1>3, <1>5, <1>6 DEF Concluded, Answered, Rpc
<1> QED
  BY <1>6, <1>7, <1>8, <1>9

LEMMA WorkKeepsRequest ==
  ASSUME SafetyInv, NEW r \in Request, RequestInv(r), NEW j \in Rpc,
         app' = app, wire' = wire,
         Work(<<r, j>>) \/ CreateLogFails(<<r, j>>) \/ StatementFails(<<r, j>>)
  PROVE  RequestInv(r)'
<1> DEFINE s == <<r, j>>
<1>0. /\ s \in Session /\ TypeOK /\ Discipline /\ CheckedStatusHolds /\ TxSound
      /\ Step(s)
  BY SessionOf DEF SafetyInv, TypeInv, Step
<1>1. \A k \in Rpc \ {j} : Untouched(<<r, k>>)
  BY <1>0, SessionOf, OthersUntouched
<1>2. CASE LockRefused(s)
  <2>1. j = "save" /\ LockedStatus(s) = StatusOf(r) /\ StatusOf(r) # "parsed"
    BY <1>2, <1>0, WhoseStatement DEF LockRefused
  <2>2. PICK e \in {"ErrNotFound", "ErrInvalidStatus"} :
          Rollback(s, e) /\ (e = "ErrInvalidStatus" => StatusOf(r) = "failed")
    BY <1>2, <2>1 DEF LockRefused, Terminal
  <2>3. e \in Reply /\ pc[s] \notin {"idle", "done"}
    BY <1>2 DEF LockRefused, Reply
  <2> QED
    BY <1>0, <2>1, <2>2, <2>3, RollbackKeepsRequest
<1>3. ASSUME NEW t \in Table, RejectRow(s, t) PROVE RequestInv(r)'
  <2>1. pc[s] = "insert"
    BY <1>3 DEF RejectRow, Inserting
  <2>2. j = "save"
    BY <1>0, <2>1, WhoseStatement
  <2>3. PICK e \in {"ErrBadArguments", "dbError"} : Rollback(s, e)
    BY <1>3 DEF RejectRow
  <2>4. e \in Reply /\ e # "ErrInvalidStatus"
    BY DEF Reply
  <2> QED
    BY <1>0, <2>1, <2>2, <2>3, <2>4, RollbackKeepsRequest
<1>4. CASE FailLogExplains(s)
  <2>1. pc[s] = "explain"
    BY <1>4 DEF FailLogExplains
  <2>2. j = "fail" /\ app[r].log # 0
    BY <1>0, <2>1, WhoseStatement
  <2>3. StatusOf(r) = "parsed"
    BY <2>1, <2>2 DEF RequestInv, Finalization
  <2>4. PICK e \in {"ErrNotFound", "ErrInvalidStatus"} : Rollback(s, e)
    BY <1>4 DEF FailLogExplains
  <2>5. e \in Reply
    BY DEF Reply
  <2> QED
    BY <1>0, <2>1, <2>2, <2>3, <2>4, <2>5, RollbackKeepsRequest
<1>5. CASE StatementFails(s)
  <2>1. pc[s] \in {"lock", "insert", "fail", "explain"} /\ Rollback(s, "dbError")
    BY <1>5 DEF StatementFails
  <2>2. j \in {"save", "fail"}
    BY <1>0, <2>1, WhoseStatement
  <2>3. "dbError" \in Reply
    BY DEF Reply
  <2> QED
    BY <1>0, <2>1, <2>2, <2>3, RollbackKeepsRequest
<1>6. ASSUME NEW t \in Table, InsertRow(s, t) PROVE RequestInv(r)'
  <2>1. /\ logs' = logs /\ rows' = rows /\ nextID' = nextID
        /\ pc' = pc /\ call' = call /\ reply' = reply
    BY <1>6 DEF InsertRow
  <2> QED
    BY <2>1 DEF RequestInv, CallSound, Ordered, Errors, Created, Finalization, Concluded,
                Over, Sent, Abandoned, Answered, StatusOf
<1>7. CASE CreateLog(s) \/ CreateLogFails(s)
  BY <1>0, <1>1, <1>7, CreateLogKeepsRequest
<1>8. CASE LockLog(s) \/ FailLogMisses(s)
  BY <1>0, <1>1, <1>8, LockLogKeepsRequest
<1>9. CASE CommitParsed(s)
  BY <1>0, <1>1, <1>9, CommitKeepsRequest
<1>10. CASE FailLog(s)
  BY <1>0, <1>1, <1>10, FailLogKeepsRequest
<1> QED
  BY <1>2, <1>3, <1>4, <1>5, <1>6, <1>7, <1>8, <1>9, <1>10 DEF Work

LEMMA CrashKeepsRequest ==
  ASSUME TypeOK, NEW r \in Request, RequestInv(r), app' = app, wire' = wire, Crash
  PROVE  RequestInv(r)'
<1> USE DEF RequestInv
<1>1. /\ \A k \in Rpc : IF pc[<<r, k>>] = "idle"
                          THEN pc'[<<r, k>>] = "idle" /\ reply'[<<r, k>>] = "none"
                          ELSE pc'[<<r, k>>] = "done" /\ reply'[<<r, k>>] = "unavailable"
      /\ logs' = logs /\ rows' = rows /\ nextID' = nextID /\ call' = call
  BY SessionOf DEF Crash
<1>2. \A k \in Rpc : CallSound(r, k)' /\ (Sent(r, k)' <=> Sent(r, k))
  BY <1>1 DEF CallSound, Sent
<1>3. Ordered(r)' /\ Errors(r)'
  BY <1>2 DEF Ordered, Errors, Abandoned, Answered, Rpc
<1>4. StatusOf(r)' = StatusOf(r)
  BY <1>1 DEF StatusOf
<1>5. Created(r)'
  BY <1>1, <1>4 DEF Created, Rpc
<1>6. Finalization(r)'
  BY <1>1, <1>4 DEF Finalization, Over, Rpc
<1>7. Concluded(r)'
  BY <1>2, <1>4 DEF Concluded, Answered, Rpc
<1> QED
  BY <1>2, <1>3, <1>5, <1>6, <1>7

-----------------------------------------------------------------------------
(***************************************************************************)
(* A step of one request, seen from all of them.                           *)
(***************************************************************************)
Acts(r) ==
  \/ Post(r)
  \/ CreateReplied(r)
  \/ ParseReplied(r)
  \/ SaveReplied(r)
  \/ SaveRejected(r)
  \/ FailReplied(r)
  \/ GiveUp(r)
  \/ \E k \in Rpc : Deliver(r, k) \/ DropReply(r, k) \/ LoseCall(r, k)

Works(r) ==
  /\ \E k \in Rpc :
       Work(<<r, k>>) \/ CreateLogFails(<<r, k>>) \/ StatementFails(<<r, k>>)
  /\ UNCHANGED <<app, wire>>

LEMMA WhoSteps ==
  ASSUME ParseNext
  PROVE  \/ \E r \in Request : Acts(r) \/ Works(r)
         \/ AppCrash
         \/ Crash /\ UNCHANGED <<app, wire>>
         \/ UNCHANGED parseVars
<1>1. CASE Repository
  <2>1. ASSUME NEW s \in Session, Work(s) \/ CreateLogFails(s) \/ StatementFails(s)
        PROVE  \E r \in Request : Works(r)
    BY <1>1, <2>1, RpcOf DEF Works, Repository
  <2> QED
    BY <1>1, <2>1 DEF Repository
<1>2. ASSUME NEW r \in Request,
             \/ Post(r) \/ CreateReplied(r) \/ ParseReplied(r) \/ SaveReplied(r)
             \/ SaveRejected(r) \/ FailReplied(r) \/ GiveUp(r)
             \/ \E k \in Rpc : Deliver(r, k) \/ DropReply(r, k) \/ LoseCall(r, k)
      PROVE  Acts(r)
  BY <1>2 DEF Acts
<1> QED
  BY <1>1, <1>2 DEF ParseNext, Finished

LEMMA OwnStep ==
  ASSUME SafetyInv, AppTypeOK, NEW r \in Request, RequestInv(r), Acts(r) \/ Works(r)
  PROVE  RequestInv(r)' /\ app'[r] \in Handler
<1>1. TypeOK /\ Discipline /\ OneFinalizer /\ app[r] \in Handler
  BY DEF SafetyInv, TypeInv, AppTypeOK
<1>2. ASSUME NEW k \in Rpc, Deliver(r, k) \/ DropReply(r, k) \/ LoseCall(r, k)
      PROVE  RequestInv(r)' /\ app' = app
  BY <1>1, <1>2, DeliverKeepsRequest, DropReplyKeepsRequest, LoseCallKeepsRequest
  DEF Deliver, DropReply, LoseCall
<1>3. CASE Works(r)
  BY <1>1, <1>3, WorkKeepsRequest DEF Works
<1> QED
  BY <1>1, <1>2, <1>3, PostKeepsRequest, CreateRepliedKeepsRequest, ParseRepliedKeepsRequest,
     SaveRepliedKeepsRequest, SaveRejectedKeepsRequest, FailRepliedKeepsRequest,
     GiveUpKeepsRequest
  DEF Acts

LEMMA StoreOfStep ==
  ASSUME AppTypeOK, NEW r \in Request, Ordered(r), Acts(r) \/ Works(r)
  PROVE  UNCHANGED vars \/ \E k \in Rpc : Step(<<r, k>>)
<1>1. CASE Works(r)
  BY <1>1 DEF Works, Step
<1>2. ASSUME NEW k \in Rpc, Deliver(r, k) PROVE Step(<<r, k>>)
  BY <1>2, DeliverIsReceive DEF Step
<1>3. ASSUME CreateReplied(r) \/ SaveReplied(r) \/ FailReplied(r) \/ \E k \in Rpc : DropReply(r, k)
      PROVE  \E k \in Rpc : Step(<<r, k>>)
  BY <1>3, ReturnsAreReturn DEF Step
<1> QED
  BY <1>1, <1>2, <1>3, QuietSteps DEF Acts

LEMMA OthersSame ==
  ASSUME TypeOK, AppTypeOK, NEW r \in Request, Ordered(r), Acts(r) \/ Works(r),
         NEW q \in Request \ {r}
  PROVE  Same(q)
<1>1. \A k \in Rpc : Untouched(<<q, k>>)
  <2>1. CASE UNCHANGED vars
    BY <2>1, QuietStore
  <2>2. ASSUME NEW j \in Rpc, Step(<<r, j>>), NEW k \in Rpc PROVE Untouched(<<q, k>>)
    BY <2>2, SessionOf, OthersUntouched
  <2> QED
    BY <2>1, <2>2, StoreOfStep
<1>2. app'[q] = app[q] /\ \A k \in Rpc : <<q, k>> \in wire' <=> <<q, k>> \in wire
  <2>1. CASE Works(r)
    BY <2>1 DEF Works
  <2>2. ASSUME NEW k \in Rpc, Deliver(r, k) \/ DropReply(r, k) \/ LoseCall(r, k)
        PROVE  <1>2
    BY <2>2 DEF Deliver, DropReply, LoseCall
  <2>3. CASE Post(r) \/ ParseReplied(r)
    BY <2>3 DEF Post, ParseReplied, failLog, Send, Respond, AppTypeOK
  <2>4. CASE CreateReplied(r)
    BY <2>4 DEF CreateReplied, Respond, AppTypeOK
  <2>5. CASE SaveReplied(r) \/ FailReplied(r)
    BY <2>5 DEF SaveReplied, FailReplied, failLog, Send, Respond, AppTypeOK
  <2>6. CASE SaveRejected(r) \/ GiveUp(r)
    BY <2>6 DEF SaveRejected, GiveUp, failLog, Send, Respond, AppTypeOK
  <2> QED
    BY <2>1, <2>2, <2>3, <2>4, <2>5, <2>6 DEF Acts
<1> QED
  BY <1>1, <1>2 DEF Same

\* A request's step changes no log but its own, and the one it creates.
LEMMA OthersLogsKept ==
  ASSUME SafetyInv, AppTypeOK, LogsDiffer, [Next]_vars,
         NEW r \in Request, RequestInv(r), Acts(r) \/ Works(r),
         NEW q \in Request \ {r}, RequestInv(q)
  PROVE  LogsKept(q)
<1>1. TypeOK /\ Discipline /\ Ordered(r)
  BY DEF SafetyInv, TypeInv, RequestInv
<1>2. ASSUME NEW l \in LogId, Drew(q, l), NEW k \in Rpc, Step(<<r, k>>)
      PROVE  logs'[l] = logs[l] /\ rows'[l] = rows[l]
  <2> DEFINE s == <<r, k>>
  <2>1. s \in Session
    BY SessionOf
  <2>2. l < nextID
    BY <1>2 DEF Drew, RequestInv, Created
  <2>3. l # nextID
    BY <1>1, <2>2 DEF TypeOK, LogId
  <2>4. ASSUME Finalizes(s), l = call[s].log PROVE FALSE
    <3>1. pc[s] \in {"insert", "fail"}
      BY <2>4 DEF Finalizes, CommitParsed, FailLog
    <3>2. call[s].log = app[r].log
      BY <1>1, <3>1, WhoseStatement
    <3>3. Drew(r, l)
      BY <2>4, <3>2, <1>2 DEF Drew
    <3> QED
      BY <1>2, <3>3 DEF LogsDiffer
  <2> QED
    BY <1>1, <1>2, <2>1, <2>3, <2>4, WhoChanges
<1>3. \A l \in LogId : Drew(q, l) => logs'[l] = logs[l] /\ rows'[l] = rows[l]
  <2>1. CASE UNCHANGED vars
    BY <2>1 DEF vars
  <2> QED
    BY <1>1, <1>2, <2>1, StoreOfStep
<1> QED
  BY <1>1, <1>3, SequenceGrows DEF LogsKept

LEMMA AllRequests ==
  ASSUME SafetyInv, TypeOK', AppTypeOK, \A p \in Request : RequestInv(p), LogsDiffer,
         [Next]_vars, NEW r \in Request, Acts(r) \/ Works(r)
  PROVE  /\ \A p \in Request : RequestInv(p)'
         /\ AppTypeOK'
<1>1. TypeOK /\ Ordered(r)
  BY DEF SafetyInv, TypeInv, RequestInv
<1>2. RequestInv(r)' /\ app'[r] \in Handler
  BY OwnStep
<1>3. ASSUME NEW q \in Request \ {r} PROVE Same(q) /\ RequestInv(q)'
  BY <1>1, <1>3, OthersSame, OthersLogsKept, SameKeepsRequest
<1>4. app' \in [Request -> Handler]
  <2>1. \A q \in Request : app'[q] \in Handler
    BY <1>2, <1>3 DEF Same, AppTypeOK
  <2>2. app' \in [Request -> Handler] \/ \E x : app' = [app EXCEPT ![r] = x]
    <3>1. CASE Works(r)
      BY <3>1 DEF Works, AppTypeOK
    <3>2. ASSUME NEW k \in Rpc, Deliver(r, k) \/ DropReply(r, k) \/ LoseCall(r, k)
          PROVE  app' \in [Request -> Handler]
      BY <3>2 DEF Deliver, DropReply, LoseCall, AppTypeOK
    <3>3. CASE Post(r) \/ ParseReplied(r)
      BY <3>3 DEF Post, ParseReplied, failLog, Send, Respond, AppTypeOK
    <3>4. CASE CreateReplied(r)
      <4>1. CASE reply[<<r, "create">>] = "ok"
        <5>1. app' = [app EXCEPT ![r].at = "parse", ![r].log = call[<<r, "create">>].log]
          BY <3>4, <4>1 DEF CreateReplied
        <5>2. app' = [app EXCEPT ![r] = [app[r] EXCEPT !.at = "parse",
                                                       !.log = call[<<r, "create">>].log]]
          BY <5>1 DEF AppTypeOK
        <5> QED
          BY <5>2 DEF AppTypeOK
      <4> QED
        BY <3>4, <4>1 DEF CreateReplied, Respond, AppTypeOK
    <3>5. CASE SaveReplied(r) \/ FailReplied(r)
      BY <3>5 DEF SaveReplied, FailReplied, failLog, Send, Respond, AppTypeOK
    <3>6. CASE SaveRejected(r)
      <4>1. app' = [app EXCEPT ![r] = [app[r] EXCEPT !.at = "fail",
                                              !.cause = FromRepository("ResourceExhausted")]]
        BY <3>6 DEF SaveRejected, AppTypeOK
      <4> QED
        BY <4>1 DEF AppTypeOK
    <3>7. CASE GiveUp(r)
      BY <3>7 DEF GiveUp, failLog, Send, Respond, AppTypeOK
    <3> QED
      BY <3>1, <3>2, <3>3, <3>4, <3>5, <3>6, <3>7 DEF Acts
  <2> QED
    BY <2>1, <2>2 DEF AppTypeOK
<1>5. wire' \subseteq Session
  <2>1. \A k \in Rpc : <<r, k>> \in Session
    BY SessionOf
  <2>2. wire' \subseteq wire \cup {<<r, k>> : k \in Rpc}
    BY DEF Acts, Works, Post, CreateReplied, ParseReplied, SaveReplied, SaveRejected,
           FailReplied, GiveUp, Deliver, DropReply, LoseCall, failLog, Send, Respond, Rpc
  <2> QED
    BY <2>1, <2>2 DEF AppTypeOK
<1> QED
  BY <1>2, <1>3, <1>4, <1>5 DEF AppTypeOK

LEMMA LogOfExcept ==
  ASSUME NEW x \in Handler, NEW k, NEW v
  PROVE  /\ [x EXCEPT !.at = k].log = x.log
         /\ [[x EXCEPT !.cause = v] EXCEPT !.at = k].log = x.log
         /\ [[x EXCEPT !.parsed = v] EXCEPT !.at = k].log = x.log
         /\ [[x EXCEPT !.failed = v] EXCEPT !.at = k].log = x.log
         /\ [[x EXCEPT !.at = k] EXCEPT !.cause = v].log = x.log
         /\ [[x EXCEPT !.at = k] EXCEPT !.log = v].log = v
BY DEF Handler

\* The log of a request is the one that its CreateLog returned.
LEMMA LogFrom ==
  ASSUME AppTypeOK, NEW r \in Request, RequestInv(r), Acts(r) \/ Works(r)
  PROVE  /\ app[r].log # 0 => app'[r].log = app[r].log
         /\ app'[r].log \in {app[r].log, call[<<r, "create">>].log}
<1>0. app[r] \in Handler /\ app \in [Request -> Handler]
  BY DEF AppTypeOK
<1>1. ASSUME NEW k, NEW x \in Handler, Send(r, k, x) \/ Respond(r, x), x.log = app[r].log
      PROVE  app'[r].log = app[r].log
  <2>1. \E c : app' = [app EXCEPT ![r] = [x EXCEPT !.at = c]]
    BY <1>1 DEF Send, Respond
  <2> QED
    BY <1>0, <1>1, <2>1, LogOfExcept
<1>2. ASSUME NEW k, NEW v,
             \/ Send(r, k, [app[r] EXCEPT !.cause = v]) \/ Respond(r, [app[r] EXCEPT !.cause = v])
             \/ Send(r, k, [app[r] EXCEPT !.parsed = v])
             \/ Respond(r, [app[r] EXCEPT !.failed = v])
      PROVE  app'[r].log = app[r].log
  <2>1. PICK c : \/ app' = [app EXCEPT ![r] = [[app[r] EXCEPT !.cause = v] EXCEPT !.at = c]]
                 \/ app' = [app EXCEPT ![r] = [[app[r] EXCEPT !.parsed = v] EXCEPT !.at = c]]
                 \/ app' = [app EXCEPT ![r] = [[app[r] EXCEPT !.failed = v] EXCEPT !.at = c]]
    BY <1>2 DEF Send, Respond
  <2>2. /\ [[app[r] EXCEPT !.cause = v] EXCEPT !.at = c].log = app[r].log
        /\ [[app[r] EXCEPT !.parsed = v] EXCEPT !.at = c].log = app[r].log
        /\ [[app[r] EXCEPT !.failed = v] EXCEPT !.at = c].log = app[r].log
    BY <1>0, LogOfExcept
  <2>3. app'[r] \in {[[app[r] EXCEPT !.cause = v] EXCEPT !.at = c],
                     [[app[r] EXCEPT !.parsed = v] EXCEPT !.at = c],
                     [[app[r] EXCEPT !.failed = v] EXCEPT !.at = c]}
    BY <1>0, <2>1
  <2> QED
    BY <2>2, <2>3
<1>3. CASE CreateReplied(r)
  <2>1. app[r].log = 0
    BY <1>3 DEF CreateReplied, Replied, RequestInv, Ordered
  <2>2. CASE reply[<<r, "create">>] = "ok"
    <3>1. app'[r] = [[app[r] EXCEPT !.at = "parse"] EXCEPT !.log = call[<<r, "create">>].log]
      BY <1>0, <1>3, <2>2 DEF CreateReplied
    <3> QED
      BY <1>0, <2>1, <3>1, LogOfExcept
  <2>3. CASE reply[<<r, "create">>] # "ok"
    BY <1>2, <1>3, <2>3 DEF CreateReplied
  <2> QED
    BY <2>1, <2>2, <2>3
<1>4. CASE Works(r)
  BY <1>4 DEF Works
<1>5. ASSUME NEW k \in Rpc, Deliver(r, k) \/ DropReply(r, k) \/ LoseCall(r, k)
      PROVE  app'[r].log = app[r].log
  BY <1>5 DEF Deliver, DropReply, LoseCall
<1>6. CASE Post(r) \/ ParseReplied(r)
  BY <1>0, <1>1, <1>2, <1>6 DEF Post, ParseReplied, failLog
<1>7. CASE SaveReplied(r)
  BY <1>0, <1>1, <1>2, <1>7 DEF SaveReplied, failLog
<1>8. CASE FailReplied(r) \/ GiveUp(r)
  BY <1>2, <1>8 DEF FailReplied, GiveUp, failLog
<1>9. CASE SaveRejected(r)
  <2>1. app'[r] = [[app[r] EXCEPT !.at = "fail"]
                      EXCEPT !.cause = FromRepository("ResourceExhausted")]
    BY <1>0, <1>9 DEF SaveRejected
  <2> QED
    BY <1>0, <2>1, LogOfExcept
<1> QED
  BY <1>3, <1>4, <1>5, <1>6, <1>7, <1>8, <1>9 DEF Acts

LEMMA CallLogFrom ==
  ASSUME TypeOK, NEW s \in Session, Step(s), call[s].op = "create" \/ pc[s] = "idle"
  PROVE  \/ call'[s].log \in {0, call[s].log}
         \/ CreateLog(s) /\ call'[s].log = nextID
         \/ call'[s].op # "create"
<1>1. CASE Receive(s)
  <2>1. CASE CallCreateLog(s)
    BY <2>1, BeginFrame DEF CallCreateLog
  <2>2. ASSUME NEW l, NEW p, CallSaveParsedLog(s, l, p) PROVE call'[s].op = "save"
    BY <2>2, BeginFrame DEF CallSaveParsedLog
  <2>3. ASSUME NEW l, CallFailLog(s, l) PROVE call'[s].op = "fail"
    BY <2>3, BeginFrame DEF CallFailLog
  <2> QED
    BY <1>1, <2>1, <2>2, <2>3 DEF Receive
<1>2. CASE Return(s)
  BY <1>2 DEF Return, TypeOK, NoCall
<1>3. CASE CreateLog(s)
  BY <1>3 DEF CreateLog, TypeOK, Call
<1>4. CASE LockRefused(s) \/ FailLogExplains(s) \/ StatementFails(s)
  BY <1>4, RollbackFrame DEF LockRefused, FailLogExplains, StatementFails
<1>5. ASSUME NEW t \in Table, RejectRow(s, t) PROVE call'[s].log = call[s].log
  BY <1>5, RollbackFrame DEF RejectRow
<1>6. ASSUME NEW t \in Table, InsertRow(s, t) PROVE call'[s].log = call[s].log
  BY <1>6 DEF InsertRow
<1>7. CASE LockLog(s) \/ CommitParsed(s) \/ FailLog(s) \/ FailLogMisses(s) \/ CreateLogFails(s)
  BY <1>7 DEF LockLog, CommitParsed, FailLog, FailLogMisses, CreateLogFails
<1> QED
  BY <1>1, <1>2, <1>3, <1>4, <1>5, <1>6, <1>7 DEF Step, Work

LEMMA DrewFrom ==
  ASSUME TypeOK, AppTypeOK, NEW r \in Request, RequestInv(r), RequestInv(r)',
         Acts(r) \/ Works(r), NEW l \in LogId, Drew(r, l)'
  PROVE  Drew(r, l) \/ l = nextID
<1> DEFINE s == <<r, "create">>
<1>0. l # 0 /\ s \in Session /\ "create" \in Rpc
  <2>1. "create" \in Rpc
    BY DEF Rpc
  <2>2. s \in Session
    BY <2>1, SessionOf
  <2> QED
    BY <2>1, <2>2 DEF LogId
<1>1. CASE app'[r].log = l
  BY <1>0, <1>1, LogFrom DEF Drew
<1>2. CASE call'[s].log = l
  <2>1. CASE UNCHANGED vars
    BY <1>0, <1>2, <2>1 DEF vars, Drew
  <2>2. ASSUME NEW k \in Rpc, Step(<<r, k>>), k # "create" PROVE Drew(r, l)
    <3>1. <<r, k>> \in Session /\ s # <<r, k>>
      BY <2>2, SessionOf
    <3> QED
      BY <1>0, <1>2, <2>2, <3>1, OthersUntouched DEF Untouched, Drew
  <2>3. ASSUME Step(s) PROVE Drew(r, l) \/ l = nextID
    <3>1. call[s].op = "create" \/ pc[s] = "idle"
      BY <1>0 DEF RequestInv, CallSound
    <3>2. call'[s].op = "create"
      BY <1>0, <1>2 DEF RequestInv, CallSound, NoCall
    <3> QED
      BY <1>0, <1>2, <2>3, <3>1, <3>2, CallLogFrom DEF Drew
  <2> QED
    BY <2>1, <2>2, <2>3, StoreOfStep DEF RequestInv
<1> QED
  BY <1>1, <1>2 DEF Drew

LEMMA LogsDifferStep ==
  ASSUME TypeOK, AppTypeOK, \A p \in Request : RequestInv(p), \A p \in Request : RequestInv(p)',
         LogsDiffer, NEW r \in Request, Acts(r) \/ Works(r)
  PROVE  LogsDiffer'
<1>1. \A q \in Request \ {r} : Same(q)
  BY OthersSame DEF RequestInv
<1>2. ASSUME NEW q \in Request \ {r}, NEW l \in LogId, Drew(q, l)' PROVE Drew(q, l)
  BY <1>1, <1>2 DEF Drew, Same, Untouched, Rpc
<1>3. ASSUME NEW q \in Request \ {r}, NEW l \in LogId, Drew(q, l)', Drew(r, l)' PROVE FALSE
  <2>1. Drew(q, l)
    BY <1>2, <1>3
  <2>2. l < nextID
    BY <2>1 DEF Drew, RequestInv, Created
  <2>3. l # nextID
    BY <2>2 DEF TypeOK, LogId
  <2>4. Drew(r, l)
    BY <1>3, <2>3, DrewFrom
  <2> QED
    BY <2>1, <2>4 DEF LogsDiffer
<1> QED
  BY <1>2, <1>3 DEF LogsDiffer

-----------------------------------------------------------------------------
(***************************************************************************)
(* Who answers for a log that is still "processing".                       *)
(***************************************************************************)
Covered(r, l) == Owns(r, l) \/ (Abandoned(r) /\ app[r].log \in {0, l})

LEMMA LogIsCovered ==
  ASSUME NEW r \in Request, RequestInv(r)', app'[r] \in Handler, NEW l \in LogId,
         app'[r].log = l, logs'[l].status = "processing"
  PROVE  Covered(r, l)'
<1>1. l # 0 /\ StatusOf(r)' = "processing"
  BY DEF LogId, StatusOf
<1>2. app'[r].at \in {"parse", "save", "fail", "answered", "gone"}
  BY <1>1 DEF Handler, RequestInv, Ordered
<1>3. CASE app'[r].at = "answered"
  <2>1. app'[r].cause # "none" /\ app'[r].failed # "none"
    BY <1>1, <1>3 DEF RequestInv, Concluded, Errors, Answered
  <2>2. app'[r].failed = "unknown"
    BY <1>1, <2>1 DEF RequestInv, Concluded, Handler
  <2> QED
    BY <2>2 DEF Covered, Abandoned
<1> QED
  BY <1>2, <1>3 DEF Covered, Owns, Abandoned

LEMMA CoveredStep ==
  ASSUME AppTypeOK, TypeOK, NEW r \in Request, RequestInv(r), RequestInv(r)',
         app'[r] \in Handler, Acts(r) \/ Works(r),
         NEW l \in LogId, Covered(r, l), logs'[l].status = "processing"
  PROVE  Covered(r, l)'
<1> DEFINE s == <<r, "create">>
<1>0. l # 0 /\ s \in Session /\ "create" \in Rpc /\ app[r] \in Handler
  <2>1. "create" \in Rpc
    BY DEF Rpc
  <2>2. s \in Session
    BY <2>1, SessionOf
  <2> QED
    BY <2>1, <2>2 DEF LogId, AppTypeOK
<1>1. CASE app'[r].log = l
  BY <1>1, LogIsCovered
<1>2. CASE app'[r].log # l
  <2>1. app[r].log = 0
    BY <1>0, <1>2, LogFrom DEF Covered, Owns, Abandoned, RequestInv, Ordered
  <2>2. app[r].failed = "none" /\ app[r].at \notin {"parse", "save", "fail"}
    BY <2>1 DEF RequestInv, Ordered
  <2>3. CASE Abandoned(r)
    <3>1. app[r].at \in {"gone", "answered"}
      BY <2>2, <2>3 DEF Abandoned, Answered
    <3>2. app' = app
      BY <3>1 DEF Acts, Works, Post, CreateReplied, ParseReplied, SaveReplied, SaveRejected,
                  FailReplied, GiveUp, Deliver, DropReply, LoseCall, Replied
    <3> QED
      BY <2>1, <2>3, <3>2 DEF Covered, Abandoned, Answered
  <2>4. CASE app[r].at = "create" /\ pc[s] = "done" /\ call[s].log \in {0, l}
    <3>1. CASE CreateReplied(r)
      <4>1. CASE reply[s] = "ok"
        <5>1. app'[r].log = call[s].log /\ call[s].log # 0
          BY <1>0, <3>1, <4>1 DEF CreateReplied, AppTypeOK, Handler, RequestInv, Created
        <5> QED
          BY <1>2, <2>4, <5>1
      <4>2. CASE reply[s] # "ok"
        <5> DEFINE err == ErrorOf(r, "create")
        <5>1. err \in {"other", "ErrUnavailable"}
          BY <4>2 DEF ErrorOf, RepositoryCode, FromRepository, TransportCodes,
                      RequestInv, Created
        <5>2. err \in AppError /\ Respond(r, [app[r] EXCEPT !.cause = err])
          BY <3>1, <4>2, <5>1 DEF CreateReplied, AppError
        <5> HIDE DEF err
        <5>3. app'[r].at = "answered" /\ app'[r].log = 0 /\ app'[r].cause = err
          BY <2>1, <5>2, RespondCauseFields
        <5> QED
          BY <5>1, <5>3 DEF Covered, Abandoned, Answered
      <4> QED
        BY <4>1, <4>2
    <3>2. CASE GiveUp(r)
      <4>1. "ErrUnavailable" \in AppError /\ Respond(r, [app[r] EXCEPT !.cause = "ErrUnavailable"])
        BY <2>4, <3>2 DEF GiveUp, AppError
      <4>2. app'[r].at = "answered" /\ app'[r].log = 0 /\ app'[r].cause = "ErrUnavailable"
        BY <2>1, <4>1, RespondCauseFields
      <4> QED
        BY <4>2 DEF Covered, Abandoned, Answered
    <3>3. CASE \E k \in Rpc : Deliver(r, k) \/ DropReply(r, k) \/ LoseCall(r, k)
      <4>1. app' = app
        BY <3>3 DEF Deliver, DropReply, LoseCall
      <4>2. Untouched(s)
        <5>1. ASSUME NEW k \in Rpc, LoseCall(r, k) PROVE Untouched(s)
          BY <5>1, QuietStore, <1>0 DEF LoseCall
        <5>2. ASSUME NEW k \in Rpc, Deliver(r, k) \/ DropReply(r, k) PROVE Untouched(s)
          <6>1. k # "create"
            BY <2>4, <5>2 DEF Deliver, DropReply, CallCreateLog, Begin, RequestInv, CallSound
          <6>2. Step(<<r, k>>)
            BY <5>2, DeliverIsReceive DEF Step, DropReply, RequestInv
          <6>3. <<r, k>> \in Session /\ s # <<r, k>>
            BY <6>1, SessionOf
          <6> QED
            BY <1>0, <6>2, <6>3, OthersUntouched
        <5> QED
          BY <3>3, <5>1, <5>2
      <4> QED
        BY <2>4, <4>1, <4>2 DEF Covered, Owns, Untouched
    <3>4. CASE Works(r)
      <4>1. app' = app
        BY <3>4 DEF Works
      <4>2. PICK k \in Rpc : Work(<<r, k>>) \/ CreateLogFails(<<r, k>>) \/ StatementFails(<<r, k>>)
        BY <3>4 DEF Works
      <4>3. pc[<<r, k>>] # "done"
        BY <4>2 DEF Work, CreateLog, LockLog, LockRefused, InsertRow, RejectRow, Inserting,
                    CommitParsed, FailLog, FailLogMisses, FailLogExplains, CreateLogFails,
                    StatementFails
      <4>4. Untouched(s)
        <5>1. <<r, k>> \in Session /\ s # <<r, k>>
          BY <2>4, <4>3, SessionOf
        <5> QED
          BY <1>0, <4>2, <5>1, OthersUntouched DEF Step
      <4> QED
        BY <2>4, <4>1, <4>4 DEF Covered, Owns, Untouched
    <3> QED
      BY <2>4, <3>1, <3>2, <3>3, <3>4 DEF Acts, Post, ParseReplied, SaveReplied, SaveRejected,
                                          FailReplied, Replied
  <2> QED
    BY <1>0, <2>1, <2>2, <2>3, <2>4 DEF Covered, Owns
<1> QED
  BY <1>1, <1>2

\* The log that a step has just created.
LEMMA NewLogCovered ==
  ASSUME TypeOK, Discipline, NEW r \in Request, RequestInv(r), NEW k \in Rpc,
         CreateLog(<<r, k>>), UNCHANGED <<app, wire>>, NEW l \in LogId, l = nextID
  PROVE  Covered(r, l)'
<1> DEFINE s == <<r, k>>
<1>1. s \in Session /\ pc[s] = "create" /\ nextID \in LogId
  BY SessionOf DEF CreateLog
<1>2. k = "create" /\ Sent(r, k) /\ app[r].log = 0 /\ call[s].log = 0
  BY <1>1, WhoseStatement DEF RequestInv, Ordered, Created
<1>3. pc'[s] = "done" /\ call'[s].log \in {0, nextID}
  BY <1>1, <1>2 DEF CreateLog, Answer, TypeOK, Call
<1>4. CASE app[r].at = "create"
  BY <1>2, <1>3, <1>4 DEF Covered, Owns
<1>5. CASE app[r].at # "create"
  <2>1. Abandoned(r)
    BY <1>2, <1>5 DEF RequestInv, Ordered, Errors
  <2> QED
    BY <1>2, <2>1 DEF Covered, Abandoned, Answered
<1> QED
  BY <1>4, <1>5

LEMMA OwnerStep ==
  ASSUME SafetyInv, AppTypeOK, \A p \in Request : RequestInv(p), ProcessingHasOwner,
         \A p \in Request : RequestInv(p)', AppTypeOK',
         NEW r \in Request, Acts(r) \/ Works(r)
  PROVE  ProcessingHasOwner'
<1>1. TypeOK /\ Discipline /\ CheckedStatusHolds
  BY DEF SafetyInv, TypeInv
<1>2. SUFFICES ASSUME NEW l \in LogId, logs'[l].status = "processing"
               PROVE  \E p \in Request : Covered(p, l)'
  BY DEF ProcessingHasOwner, Covered
<1>3. CASE logs'[l] = logs[l]
  <2>1. PICK p \in Request : Covered(p, l)
    BY <1>2, <1>3 DEF ProcessingHasOwner, Covered
  <2>2. CASE p = r
    <3>1. app'[r] \in Handler
      BY DEF AppTypeOK
    <3>2. Covered(r, l)'
      BY <1>1, <1>2, <2>1, <2>2, <3>1, CoveredStep
    <3> QED
      BY <3>2
  <2>3. CASE p # r
    <3>1. Same(p)
      BY <1>1, <2>3, OthersSame DEF RequestInv
    <3>2. Covered(p, l)'
      BY <2>1, <3>1 DEF Same, Untouched, Covered, Owns, Abandoned, Answered, Rpc
    <3> QED
      BY <3>2
  <2> QED
    BY <2>2, <2>3
<1>4. CASE logs'[l] # logs[l]
  <2>1. PICK k \in Rpc : Step(<<r, k>>)
    <3>1. ~ UNCHANGED vars
      BY <1>4 DEF vars
    <3> QED
      BY <3>1, StoreOfStep DEF RequestInv
  <2> DEFINE s == <<r, k>>
  <2>2. s \in Session
    BY SessionOf
  <2>3. ~ (Finalizes(s) /\ l = call[s].log)
    <3>1. ASSUME CommitParsed(s), l = call[s].log PROVE FALSE
      BY <1>1, <1>2, <3>1 DEF CommitParsed, TypeOK
    <3>2. ASSUME FailLog(s), l = call[s].log PROVE FALSE
      BY <1>1, <1>2, <3>2 DEF FailLog, TypeOK, LogRow
    <3> QED
      BY <3>1, <3>2 DEF Finalizes
  <2>4. CreateLog(s) /\ l = nextID
    BY <1>1, <1>4, <2>1, <2>2, <2>3, WhoChanges
  <2>5. UNCHANGED <<app, wire>>
    <3>1. CASE Works(r)
      BY <3>1 DEF Works
    <3>2. ASSUME Acts(r) PROVE FALSE
      <4>1. CASE UNCHANGED vars
        BY <1>4, <4>1 DEF vars
      <4>2. ASSUME NEW j \in Rpc, Return(<<r, j>>) PROVE FALSE
        BY <1>4, <4>2 DEF Return
      <4>3. ASSUME NEW j \in Rpc, Receive(<<r, j>>) PROVE FALSE
        BY <1>1, <1>4, <4>3, SessionOf, BeginFrame
        DEF Receive, CallCreateLog, CallSaveParsedLog, CallFailLog
      <4>4. ASSUME NEW j \in Rpc, Deliver(r, j) PROVE Receive(<<r, j>>)
        BY <4>4, DeliverIsReceive DEF RequestInv
      <4> QED
        BY <3>2, <4>1, <4>2, <4>3, <4>4, QuietSteps, ReturnsAreReturn DEF Acts
    <3> QED
      BY <3>1, <3>2
  <2>6. Covered(r, l)'
    BY <1>1, <2>4, <2>5, NewLogCovered
  <2> QED
    BY <2>6
<1> QED
  BY <1>3, <1>4

LEMMA CrashOwner ==
  ASSUME TypeOK, ProcessingHasOwner, Crash, UNCHANGED <<app, wire>>
  PROVE  ProcessingHasOwner'
<1>1. SUFFICES ASSUME NEW l \in LogId, logs'[l].status = "processing"
               PROVE  \E p \in Request : Covered(p, l)'
  BY DEF ProcessingHasOwner, Covered
<1>2. PICK p \in Request : Covered(p, l)
  BY <1>1 DEF ProcessingHasOwner, Covered, Crash
<1>3. <<p, "create">> \in Session
  BY SessionOf DEF Rpc
<1>4. Covered(p, l)'
  BY <1>2, <1>3 DEF Crash, Covered, Owns, Abandoned, Answered
<1> QED
  BY <1>4

LEMMA AppCrashOwner ==
  ASSUME AppTypeOK, \A p \in Request : RequestInv(p), ProcessingHasOwner, AppCrash
  PROVE  ProcessingHasOwner'
<1>1. SUFFICES ASSUME NEW l \in LogId, logs'[l].status = "processing"
               PROVE  \E p \in Request : Covered(p, l)'
  BY DEF ProcessingHasOwner, Covered
<1>2. PICK p \in Request : Covered(p, l)
  BY <1>1 DEF ProcessingHasOwner, Covered, AppCrash, vars
<1>3. CASE app'[p] = app[p]
  BY <1>2, <1>3 DEF AppCrash, vars, Covered, Owns, Abandoned, Answered
<1>4. CASE app'[p] # app[p]
  <2>1. app'[p].at = "gone" /\ app'[p].log = app[p].log
    BY <1>4 DEF AppCrash, AppTypeOK, Handler
  <2>2. app[p].log \in {0, l}
    BY <1>2 DEF Covered, Owns, Abandoned, RequestInv, Ordered
  <2> QED
    BY <2>1, <2>2 DEF Covered, Abandoned
<1> QED
  BY <1>3, <1>4

LEMMA CrashLogsDiffer ==
  ASSUME LogsDiffer, \A p \in Request : app'[p].log = app[p].log, call' = call
  PROVE  LogsDiffer'
BY DEF LogsDiffer, Drew

-----------------------------------------------------------------------------
(***************************************************************************)
(* The invariant.                                                          *)
(***************************************************************************)
LEMMA ParseInitInv == ParseInit => ParseInv
<1> SUFFICES ASSUME ParseInit PROVE ParseInv
  OBVIOUS
<1>1. SafetyInv
  BY SafetyInit DEF ParseInit
<1>2. AppTypeOK
  BY DEF ParseInit, AppTypeOK, Idle, Handler, AppError
<1>3. ASSUME NEW r \in Request PROVE RequestInv(r) /\ \A l \in LogId : ~ Drew(r, l)
  <2>1. app[r] = Idle /\ wire = {}
    BY DEF ParseInit
  <2>2. \A k \in Rpc : pc[<<r, k>>] = "idle" /\ call[<<r, k>>] = NoCall /\ reply[<<r, k>>] = "none"
    BY SessionOf DEF ParseInit, Init
  <2>3. /\ app[r].at = "idle" /\ app[r].log = 0 /\ app[r].cause = "none"
        /\ app[r].failed = "none"
    BY <2>1 DEF Idle
  <2>4. \A k \in Rpc : CallSound(r, k) /\ ~ Sent(r, k)
    BY <2>1, <2>2 DEF CallSound, Sent
  <2>5. call[<<r, "create">>].log = 0
    BY <2>2 DEF NoCall, Rpc
  <2> QED
    BY <2>2, <2>3, <2>4, <2>5 DEF RequestInv, Ordered, Errors, Created, Finalization,
                                  Concluded, Answered, Drew, Rpc
<1>4. LogsDiffer
  BY <1>3 DEF LogsDiffer
<1>5. ProcessingHasOwner
  BY DEF ProcessingHasOwner, ParseInit, Init, NoLog
<1> QED
  BY <1>1, <1>2, <1>3, <1>4, <1>5 DEF ParseInv

LEMMA ParseInvNext == ParseInv /\ [ParseNext]_parseVars => ParseInv'
<1> SUFFICES ASSUME ParseInv, [ParseNext]_parseVars PROVE ParseInv'
  OBVIOUS
<1>1. /\ SafetyInv /\ TypeOK /\ AppTypeOK /\ LogsDiffer /\ ProcessingHasOwner
      /\ \A r \in Request : RequestInv(r) /\ Ordered(r)
  BY DEF ParseInv, RequestInv, SafetyInv, TypeInv
<1>2. [Next]_vars
  BY <1>1, StoreStep
<1>3. SafetyInv' /\ TypeOK'
  <2>1. SafetyInv'
    BY <1>1, <1>2, SafetyStep
  <2> QED
    BY <2>1 DEF SafetyInv, TypeInv
<1>4. ASSUME NEW r \in Request, Acts(r) \/ Works(r) PROVE ParseInv'
  <2>1. (\A p \in Request : RequestInv(p)') /\ AppTypeOK'
    BY <1>1, <1>2, <1>3, <1>4, AllRequests
  <2>2. LogsDiffer'
    BY <1>1, <1>4, <2>1, LogsDifferStep
  <2>3. ProcessingHasOwner'
    BY <1>1, <1>4, <2>1, OwnerStep
  <2> QED
    BY <1>3, <2>1, <2>2, <2>3 DEF ParseInv
<1>5. CASE AppCrash
  <2>1. \A r \in Request : RequestInv(r)' /\ app'[r] \in Handler
    BY <1>1, <1>5, AppCrashKeepsRequest
  <2>2. AppTypeOK'
    BY <1>1, <1>5, <2>1 DEF AppTypeOK, AppCrash
  <2>3. \A r \in Request : app'[r].log = app[r].log
    BY <1>1, <1>5 DEF AppCrash, AppTypeOK, Handler
  <2>4. LogsDiffer' /\ ProcessingHasOwner'
    BY <1>1, <1>5, <2>3, CrashLogsDiffer, AppCrashOwner DEF AppCrash, vars
  <2> QED
    BY <1>3, <2>1, <2>2, <2>4 DEF ParseInv
<1>6. CASE Crash /\ UNCHANGED <<app, wire>>
  <2>1. \A r \in Request : RequestInv(r)'
    BY <1>1, <1>6, CrashKeepsRequest
  <2>2. AppTypeOK'
    BY <1>1, <1>6 DEF AppTypeOK
  <2>3. LogsDiffer' /\ ProcessingHasOwner'
    BY <1>1, <1>6, CrashLogsDiffer, CrashOwner DEF Crash
  <2> QED
    BY <1>3, <2>1, <2>2, <2>3 DEF ParseInv
<1>7. CASE UNCHANGED parseVars
  <2>1. ASSUME NEW r \in Request PROVE RequestInv(r)'
    <3>1. RequestInv(r)
      BY <1>1
    <3> QED
      BY <1>7, <3>1 DEF parseVars, RequestInv, CallSound, Ordered, Errors, Created, Finalization,
                        Concluded, Over, Sent, Abandoned, Answered, StatusOf
  <2>2. AppTypeOK' /\ LogsDiffer' /\ ProcessingHasOwner'
    BY <1>1, <1>7 DEF parseVars, AppTypeOK, LogsDiffer, Drew, ProcessingHasOwner, Owns,
                      Abandoned, Answered
  <2> QED
    BY <1>3, <2>1, <2>2 DEF ParseInv
<1> QED
  BY <1>4, <1>5, <1>6, <1>7, WhoSteps

LEMMA ParseSafety == ParseSpec => []ParseInv
BY ParseInitInv, ParseInvNext, PTL DEF ParseSpec

LEMMA AnswerOf ==
  ASSUME NEW r \in Request, app[r] \in Handler
  PROVE  /\ HttpAnswer(r) = 200 <=> app[r].cause = "none"
         /\ HttpAnswer(r) = 400 <=> app[r].cause = "ErrBadArguments"
         /\ HttpAnswer(r) = 404 <=> app[r].cause = "ErrNotFound"
         /\ HttpAnswer(r) = 409 <=> app[r].cause = "ErrConflict"
BY DEF HttpAnswer, HttpStatus, Handler, AppError

\* ParseLog answers 200 only for a log that is parsed, with the very data the
\* parser returned to this request: SaveParsedLog's "ok" is only told to the
\* one that finalized the log.
THEOREM OkMeansStoredCorrect == ParseSpec => []OkMeansStored
<1>1. ParseInv => OkMeansStored
  <2> SUFFICES ASSUME ParseInv, NEW r \in Request, Answered(r), HttpAnswer(r) = 200
               PROVE  StatusOf(r) = "parsed" /\ rows[app[r].log] = app[r].parsed
    BY DEF OkMeansStored
  <2>1. app[r] \in Handler /\ RequestInv(r)
    BY DEF ParseInv, AppTypeOK
  <2>2. app[r].log # 0 /\ StatusOf(r) = "parsed"
    BY <2>1, AnswerOf DEF RequestInv, Concluded
  <2> QED
    BY <2>1, <2>2 DEF RequestInv, Finalization
<1> QED
  BY ParseSafety, <1>1, PTL

\* ParseLog answers 400 or 404 only when the request's log, if it has one, is
\* not parsed, and never answers 409.
THEOREM RefusalCorrect == ParseSpec => []RefusalIsDefinite
<1>1. ParseInv => RefusalIsDefinite
  <2> SUFFICES ASSUME ParseInv, NEW r \in Request, Answered(r)
               PROVE  /\ HttpAnswer(r) # 409
                      /\ app[r].log # 0 /\ HttpAnswer(r) \in {400, 404} => StatusOf(r) # "parsed"
    BY DEF RefusalIsDefinite
  <2>1. app[r] \in Handler /\ RequestInv(r)
    BY DEF ParseInv, AppTypeOK
  <2> QED
    BY <2>1, AnswerOf DEF RequestInv, Concluded, Errors
<1> QED
  BY ParseSafety, <1>1, PTL

\* failLog takes ErrConflict for a log that was finalized before: it was, by
\* the SaveParsedLog of the same request; and "ok" only for one it made failed.
THEOREM ConflictCorrect == ParseSpec => []ConflictMeansSaved
<1>1. ParseInv => ConflictMeansSaved
  <2> SUFFICES ASSUME ParseInv, NEW r \in Request
               PROVE  /\ app[r].failed = "conflict" =>
                           StatusOf(r) = "parsed" /\ rows[app[r].log] = app[r].parsed
                      /\ app[r].failed = "ok" => StatusOf(r) = "failed"
    BY DEF ConflictMeansSaved
  <2>1. RequestInv(r)
    BY DEF ParseInv
  <2> QED
    BY <2>1 DEF RequestInv, Concluded, Finalization, Ordered
<1> QED
  BY ParseSafety, <1>1, PTL

\* A log that is still "processing" belongs to a request that is going to
\* finalize it, or the app had one of three reasons to give up on it.
THEOREM OwnerCorrect == ParseSpec => []ProcessingHasOwner
<1>1. ParseInv => ProcessingHasOwner
  BY DEF ParseInv
<1> QED
  BY ParseSafety, <1>1, PTL

\* ParseLog, its deadlines, lost calls and crashes included, uses the
\* repository as LogStore says that clients may: whatever holds of the store
\* (TerminalIsFinal, OneFinalizer, the life cycle) holds here.
THEOREM PipelineUsesStore == ParseSpec => Spec
<1>1. ParseInit => Init
  BY DEF ParseInit
<1>2. ParseInv /\ [ParseNext]_parseVars => [Next]_vars
  <2> SUFFICES ASSUME ParseInv, [ParseNext]_parseVars PROVE [Next]_vars
    OBVIOUS
  <2>1. AppTypeOK /\ \A r \in Request : Ordered(r)
    BY DEF ParseInv, RequestInv
  <2> QED
    BY <2>1, StoreStep
<1> QED
  BY <1>1, <1>2, ParseSafety, PTL DEF ParseSpec, Spec

\* So a log that a request has settled stays as it is: no late, lost or
\* repeated call of any request, and no crash, changes it again.
THEOREM SettledStays == ParseSpec => TerminalIsFinal /\ ImplementsLifecycle
BY PipelineUsesStore, TerminalCorrect, LifecycleCorrect
=============================================================================
