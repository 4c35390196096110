----------------------------- MODULE AppServer -----------------------------
(***************************************************************************)
(* The process of the app: its HTTP server, the handlers with their        *)
(* deadlines and the shutdown.  Time is a clock that ticks; a step between *)
(* two ticks takes no time, and the clock does not pass the moment at which *)
(* a deadline lets a waiting handler go on.                                *)
(*                                                                         *)
(* One request is served by one goroutine.  Of what a call to another      *)
(* service does, only the moment and the kind of its end matter here; what *)
(* it does over there is the subject of the other modules.                 *)
(***************************************************************************)
EXTENDS Naturals, Sequences, FiniteSets, ErrorMapping

CONSTANTS
  Request,
  Pinger,           \* the services that the health check asks
  Timeout,          \* APP_TIMEOUT
  failLogTimeout,
  ShutdownTimeout,  \* APP_SHUTDOWN_TIMEOUT
  CallError,        \* the errors of the app's core that calls end with
  MaxTime           \* bound: the last moment of the clock

\* The configured defaults are 5 s and 10 s; failLogTimeout is 5 s.
ASSUME ServerAssumption ==
  /\ IsFiniteSet(Pinger)
  /\ "ErrUnavailable" \in CallError
  /\ Timeout \in Nat \ {0} /\ failLogTimeout \in Nat \ {0}
  /\ ShutdownTimeout \in Nat /\ ShutdownTimeout >= Timeout + failLogTimeout
  /\ MaxTime \in Nat \ {0}

VARIABLES
  now,     \* begins at 1: a moment 0 is one that has not come
  server,  \* [at, since, exit]: of the process
  req      \* the state of each request, see RequestState

serverVars == <<now, server, req>>

Status == {200, 204, 400, 404, 409, 413, 500, 503}

\* What a handler is told of a ping, and when: it was refused, it got no answer
\* before the deadline, or it was made after the deadline.
Reply == {"none", "ok", "refused", "silent", "late"}

RequestState ==
  [kind : {"none", "parse", "read", "health"},
   at : {"none", "body", "calls", "failLog", "write", "answered", "cut"},
   todo : Nat,                   \* how many calls are still to be made
   created : BOOLEAN,            \* the app has been told the id of a new log
   error : CallError \cup {"none"},
   began : 0 .. MaxTime,         \* when the body had been read
   deadline : 0 .. MaxTime + Timeout + failLogTimeout,
   replies : [Pinger -> Reply],
   status : Status \cup {0}]     \* what the client has been sent

NoRequest ==
  [kind |-> "none", at |-> "none", todo |-> 0, created |-> FALSE,
   error |-> "none", began |-> 0,
   deadline |-> 0, replies |-> [s \in Pinger |-> "none"], status |-> 0]

ServerInit ==
  /\ now = 1
  /\ server = [at |-> "serving", since |-> 0, exit |-> "none"]
  /\ req = [r \in Request |-> NoRequest]

-----------------------------------------------------------------------------
\* A context with a timeout.
Until(t) == now + t

\* Mutant: failLog without a timeout of its own.
FailLogForever == Until(MaxTime)

FailLogDeadline == Until(failLogTimeout)

Set(r, x) == req' = [req EXCEPT ![r] = x]
Answer(r, x, status) == Set(r, [x EXCEPT !.at = "answered", !.status = status])

Serving(r) == req[r].at \in {"body", "calls", "failLog", "write"}

\* CreateLog, Parse and SaveParsedLog; a read of a log, node or topology, or of a
\* list, which looks for its log or node first; a ping of every service.
Calls(kind) ==
  CASE kind = "parse" -> {3}
    [] kind = "read" -> {1, 2}
    [] kind = "health" -> {Cardinality(Pinger)}

Begin(r, x) ==
  Set(r, [x EXCEPT !.at = "calls", !.began = now, !.deadline = Until(Timeout)])

\* A request with a route: only POST /parse reads a body.
Accept(r, kind) ==
  /\ server.at = "serving"
  /\ req[r].at = "none"
  /\ \E todo \in Calls(kind) :
       LET x == [NoRequest EXCEPT !.kind = kind, !.todo = todo]
       IN IF kind = "parse" THEN Set(r, [x EXCEPT !.at = "body"]) ELSE Begin(r, x)
  /\ UNCHANGED <<now, server>>

\* A preflight is answered by CORS, a request without a route by the router, and
\* an identifier or a page that is not valid before any call.
AnswerAtOnce(r) ==
  /\ server.at = "serving"
  /\ req[r].at = "none"
  /\ \E status \in {204, 400, 404} : Answer(r, NoRequest, status)
  /\ UNCHANGED <<now, server>>

\* Nothing limits the time until the body is there.  It may be too large or not
\* one JSON value of the right form; an empty path is refused before any call.
ReadBody(r) ==
  /\ req[r].at = "body"
  /\ \/ Begin(r, req[r])
     \/ \E status \in {400, 413} : Answer(r, [req[r] EXCEPT !.began = now], status)
  /\ UNCHANGED <<now, server>>

\* A handler that has something to wait for, and until when.
Waiting(r) == \/ req[r].at = "calls" /\ req[r].todo > 0
              \/ req[r].at = "failLog"
Expired(r) == Waiting(r) /\ now >= req[r].deadline

\* Mutant: every call has a timeout of its own.
RestAnew(r) == [req[r] EXCEPT !.todo = @ - 1, !.deadline = Until(Timeout)]

Rest(r) == [req[r] EXCEPT !.todo = @ - 1]

\* A call of a handler of logs, nodes, ports or topologies.
CallSucceeds(r) ==
  /\ req[r].kind \in {"parse", "read"} /\ Waiting(r) /\ req[r].at = "calls" /\ ~ Expired(r)
  /\ LET x == [Rest(r) EXCEPT !.created = req[r].kind = "parse"]
     IN Set(r, IF x.kind = "read" /\ x.todo = 0 THEN [x EXCEPT !.at = "write"] ELSE x)
  /\ UNCHANGED <<now, server>>

\* The first error ends the request, by way of failLog if there is a log to fail.
CallFails(r) ==
  /\ req[r].kind \in {"parse", "read"} /\ req[r].at = "calls" /\ req[r].todo > 0
  /\ \E err \in IF Expired(r) THEN {"ErrUnavailable"} ELSE CallError :
       IF req[r].created
         THEN Set(r, [req[r] EXCEPT !.at = "failLog", !.deadline = FailLogDeadline,
                                    !.error = err])
         ELSE Answer(r, req[r], HttpStatus(err))
  /\ UNCHANGED <<now, server>>

\* FailLog has ended, whatever came of it: the first error is the answer.
FailLogEnds(r) ==
  /\ req[r].at = "failLog"
  /\ Answer(r, req[r], HttpStatus(req[r].error))
  /\ UNCHANGED <<now, server>>

\* Mutant: the loop ends at the first ping that fails.
PingedStops(r, s, reply) ==
  [Rest(r) EXCEPT !.replies[s] = reply, !.todo = IF reply = "ok" THEN @ ELSE 0]

\* The handler after the ping of a service.
Pinged(r, s, reply) == [Rest(r) EXCEPT !.replies[s] = reply]

\* The pings are made in the order in which a map is walked, that is in any, and
\* have one deadline.  Behind it no service is asked any more, and grpc reports
\* the same error as for a service that did not answer in time.
Ping(r) ==
  /\ req[r].kind = "health" /\ Waiting(r)
  /\ \E s \in Pinger :
       /\ req[r].replies[s] = "none"
       /\ \E reply \in IF ~ Expired(r) THEN {"ok", "refused"}
                       ELSE IF \E t \in Pinger : req[r].replies[t] = "silent" THEN {"late"}
                       ELSE {"silent"} :
            Set(r, Pinged(r, s, reply))
  /\ UNCHANGED <<now, server>>

HealthStatus(replies) == IF \A s \in Pinger : replies[s] = "ok" THEN 200 ELSE 503

AllCalled(r) ==
  /\ req[r].kind \in {"parse", "health"} /\ req[r].at = "calls" /\ req[r].todo = 0
  /\ Answer(r, req[r], IF req[r].kind = "parse" THEN 200 ELSE HealthStatus(req[r].replies))
  /\ UNCHANGED <<now, server>>

\* A list may be long: the client takes its time to read it.
Written(r) ==
  /\ req[r].at = "write"
  /\ Answer(r, req[r], 200)
  /\ UNCHANGED <<now, server>>

\* Recover is the outermost middleware; no handler panics after it has answered.
Panic(r) ==
  /\ req[r].at \in {"calls", "failLog"}
  /\ Answer(r, req[r], 500)
  /\ UNCHANGED <<now, server>>

-----------------------------------------------------------------------------
\* SIGINT or SIGTERM: no new requests.  Signals that follow are ignored.
Shutdown ==
  /\ server.at = "serving"
  /\ now + ShutdownTimeout <= MaxTime  \* bound: the clock goes on to the end
  /\ server' = [server EXCEPT !.at = "draining", !.since = now]
  /\ UNCHANGED <<now, req>>

\* The process ends, and with it what is still being served.
Exit(code) ==
  /\ server' = [server EXCEPT !.at = "stopped", !.exit = code]
  /\ req' = [r \in Request |-> IF Serving(r) THEN [req[r] EXCEPT !.at = "cut"] ELSE req[r]]
  /\ UNCHANGED now

Drained ==
  /\ server.at = "draining"
  /\ \A r \in Request : ~ Serving(r)
  /\ Exit("ok")

\* Mutant: Shutdown with a context that has no deadline.
ShutdownNeverExpires == FALSE

ShutdownExpired == server.at = "draining" /\ now >= server.since + ShutdownTimeout

\* The server looks for active requests every now and then, so its time may be
\* up although the last one has just been answered.
GiveUp == ShutdownExpired /\ Exit("error")

\* ListenAndServe returns: the address is in use, or the listener is broken.
ListenFails == server.at = "serving" /\ Exit("error")

\* A deadline that has passed is acted upon before the next tick.
Tick ==
  /\ server.at # "stopped"
  /\ now < MaxTime
  /\ ~ ShutdownExpired
  /\ \A r \in Request : ~ Expired(r) /\ ~ (req[r].at = "calls" /\ req[r].todo = 0)
  /\ now' = now + 1
  /\ UNCHANGED <<server, req>>

Handle(r) ==
  \/ CallSucceeds(r) \/ CallFails(r) \/ FailLogEnds(r)
  \/ Ping(r) \/ AllCalled(r) \/ Panic(r)

ServerNext ==
  \/ \E r \in Request :
       \/ \E kind \in {"parse", "read", "health"} : Accept(r, kind)
       \/ AnswerAtOnce(r)
       \/ ReadBody(r)
       \/ Handle(r)
       \/ Written(r)
  \/ Shutdown \/ Drained \/ GiveUp \/ ListenFails
  \/ Tick

\* Time goes on, a handler whose deadline has passed does too, and the server
\* notices.  Of clients, services and signals nothing is assumed.
ServerFairness ==
  /\ WF_serverVars(Tick)
  /\ \A r \in Request : WF_serverVars(Expired(r) /\ Handle(r)) /\ WF_serverVars(AllCalled(r))
  /\ WF_serverVars(Drained) /\ WF_serverVars(GiveUp)

ServerSpec == ServerInit /\ [][ServerNext]_serverVars
FairServerSpec == ServerSpec /\ ServerFairness

-----------------------------------------------------------------------------
\* The clock, the server and the requests keep their types, and no deadline lies
\* further ahead than the timeouts allow.
ServerTypeOK ==
  /\ now \in 0 .. MaxTime
  /\ server \in [at : {"serving", "draining", "stopped"}, since : 0 .. MaxTime,
                 exit : {"none", "ok", "error"}]
  /\ req \in [Request -> RequestState]

\* A handler that has its request is done after Timeout, or after Timeout and
\* failLogTimeout if it has to fail a log, however many calls it makes and
\* whatever the services do.
HandlersAreBounded ==
  \A r \in Request : req[r].at \in {"calls", "failLog"} =>
    now <= req[r].began + Timeout + (IF req[r].created THEN failLogTimeout ELSE 0)

\* The shutdown gives every request the time it needs: what is cut off when the
\* process ends after a signal had not been read in full when the signal came,
\* or is waiting for its client.  A log that is being parsed is thus finished or
\* failed first.
OnlyLateRequestsAreCut ==
  server.at = "stopped" /\ server.since > 0 =>
    \A r \in Request : req[r].at = "cut" =>
      \/ req[r].began = 0 \/ req[r].began >= server.since
      \/ req[r].kind = "read" /\ req[r].todo = 0

\* The health check answers for every service, with 200 only if all are well, and
\* a 503 is never of its own making: however the time is divided between the
\* pings and in whatever order they are made, a service that is named has in
\* fact refused its ping or left it without an answer.
HealthIsTrue ==
  \A r \in Request :
    req[r].kind = "health" /\ req[r].at = "answered" /\ req[r].status # 500 =>
      /\ \A s \in Pinger : req[r].replies[s] # "none"
      /\ IF req[r].status = 200
           THEN \A s \in Pinger : req[r].replies[s] = "ok"
           ELSE \E s \in Pinger : req[r].replies[s] \in {"refused", "silent"}

\* Once it is told to, the process ends, even if a client never sends the rest of
\* its request.
ShutdownEnds == server.at = "draining" ~> server.at = "stopped"
=============================================================================
