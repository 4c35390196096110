--------------------------- MODULE AppServerProofs ---------------------------
(***************************************************************************)
(* Proofs about AppServer, for every number of requests and services and   *)
(* all timeouts of which the one of the shutdown is at least as long as    *)
(* the two of a request.                                                   *)
(*                                                                         *)
(* The inductive invariant says of each request by itself what it may look *)
(* like: every step but Exit and Tick changes one request only.            *)
(***************************************************************************)
EXTENDS AppServer, FiniteSetTheorems, TLAPS

Unanswered(x) == {s \in Pinger : x.replies[s] = "none"}

\* How the deadline of a handler comes about, and that it has not been missed.
InTime(x) ==
  /\ x.at = "calls" => x.deadline = x.began + Timeout /\ now <= x.deadline
  /\ x.at = "failLog" =>
       /\ x.created
       /\ x.deadline <= x.began + Timeout + failLogTimeout
       /\ now <= x.deadline

\* What OnlyLateRequestsAreCut says of one request.
CutLate(x) ==
  x.at = "cut" =>
    /\ server.at = "stopped"
    /\ \/ server.since = 0
       \/ x.began = 0 \/ x.began >= server.since
       \/ x.kind = "read" /\ x.todo = 0

\* A ping is "late" only after another one had used up the time.
PingsInTurn(x) ==
  /\ x.kind = "health" /\ x.at = "calls" => x.todo = Cardinality(Unanswered(x))
  /\ (\E s \in Pinger : x.replies[s] = "late") =>
       \E s \in Pinger : x.replies[s] = "silent"

\* What HealthIsTrue says of one request.
AnsweredTruly(x) ==
  x.kind = "health" /\ x.at = "answered" /\ x.status # 500 =>
    /\ \A s \in Pinger : x.replies[s] # "none"
    /\ IF x.status = 200 THEN \A s \in Pinger : x.replies[s] = "ok"
       ELSE \E s \in Pinger : x.replies[s] \in {"refused", "silent"}

InPlace(x) ==
  /\ x.at = "body" => x.kind = "parse" /\ x.began = 0
  /\ x.at = "write" => x.kind = "read" /\ x.todo = 0
  /\ x.created => x.kind = "parse"

Sound(x) ==
  /\ x \in RequestState
  /\ InPlace(x) /\ InTime(x) /\ CutLate(x) /\ PingsInTurn(x) /\ AnsweredTruly(x)

ServerSound ==
  /\ now \in 0 .. MaxTime
  /\ server \in [at : {"serving", "draining", "stopped"}, since : 0 .. MaxTime,
                 exit : {"none", "ok", "error"}]
  /\ server.at = "serving" => server.since = 0

ServerInv ==
  /\ ServerSound
  /\ req = [r \in Request |-> req[r]]
  /\ \A r \in Request : Sound(req[r])

-----------------------------------------------------------------------------
LEMMA ServerInvImplies ==
  ServerInv => ServerTypeOK /\ HandlersAreBounded /\ OnlyLateRequestsAreCut /\ HealthIsTrue
<1> SUFFICES ASSUME ServerInv
             PROVE  ServerTypeOK /\ HandlersAreBounded /\ OnlyLateRequestsAreCut /\ HealthIsTrue
  OBVIOUS
<1> USE ServerAssumption
<1>1. ServerTypeOK
  BY DEF ServerInv, ServerSound, Sound, ServerTypeOK
<1>2. HandlersAreBounded
  BY DEF ServerInv, ServerSound, Sound, InTime, HandlersAreBounded, RequestState
<1>3. OnlyLateRequestsAreCut
  BY DEF ServerInv, ServerSound, Sound, CutLate, OnlyLateRequestsAreCut
<1>4. HealthIsTrue
  BY DEF ServerInv, Sound, AnsweredTruly, HealthIsTrue
<1> QED
  BY <1>1, <1>2, <1>3, <1>4

\* A step that changes one request keeps the invariant if that one stays sound.
LEMMA SetSound ==
  ASSUME ServerInv, NEW r \in Request, NEW x, Sound(x), Set(r, x),
         UNCHANGED <<now, server>>
  PROVE  ServerInv'
<1>1. ServerSound'
  BY DEF ServerInv, ServerSound
<1>2. req' = [q \in Request |-> req'[q]]
  BY DEF ServerInv, Set
<1>3. ASSUME NEW q \in Request PROVE Sound(req[q])'
  <2>1. Sound(req'[q])
    BY DEF ServerInv, Set
  <2> QED
    BY <2>1 DEF Sound, InPlace, InTime, CutLate, PingsInTurn, AnsweredTruly, Unanswered
<1> QED
  BY <1>1, <1>2, <1>3 DEF ServerInv

\* A request is answered.
LEMMA AnswerSound ==
  ASSUME ServerInv, NEW r \in Request, NEW x \in RequestState, NEW status \in Status,
         x.created => x.kind = "parse",
         (\E s \in Pinger : x.replies[s] = "late") =>
           \E s \in Pinger : x.replies[s] = "silent",
         x.kind = "health" /\ status # 500 =>
           /\ \A s \in Pinger : x.replies[s] # "none"
           /\ IF status = 200 THEN \A s \in Pinger : x.replies[s] = "ok"
              ELSE \E s \in Pinger : x.replies[s] \in {"refused", "silent"},
         Answer(r, x, status), UNCHANGED <<now, server>>
  PROVE  ServerInv'
<1> DEFINE y == [x EXCEPT !.at = "answered", !.status = status]
<1>1. y \in RequestState /\ y.at = "answered" /\ y.status = status
      /\ y.kind = x.kind /\ y.created = x.created /\ y.replies = x.replies
  BY DEF RequestState
<1>2. InPlace(y) /\ InTime(y) /\ CutLate(y) /\ PingsInTurn(y)
  BY <1>1 DEF InPlace, InTime, CutLate, PingsInTurn
<1>3. AnsweredTruly(y)
  BY <1>1 DEF AnsweredTruly
<1>4. Set(r, y)
  BY DEF Answer
<1> HIDE DEF y
<1> QED
  BY <1>1, <1>2, <1>3, <1>4, SetSound DEF Sound

LEMMA HttpStatusType ==
  ASSUME NEW err PROVE HttpStatus(err) \in Status
<1>1. HttpStatus(err) \in {400, 404, 409, 503, 500}
  BY DEF HttpStatus
<1> QED
  BY <1>1 DEF Status

LEMMA NoRequestSound ==
  ASSUME ServerSound PROVE NoRequest \in RequestState /\ Sound(NoRequest)
<1>1. NoRequest \in RequestState
  BY ServerAssumption DEF NoRequest, RequestState, Reply
<1>2. NoRequest.at = "none" /\ NoRequest.kind = "none" /\ ~ NoRequest.created
      /\ \A s \in Pinger : NoRequest.replies[s] = "none"
  BY DEF NoRequest
<1> QED
  BY <1>1, <1>2 DEF Sound, InPlace, InTime, CutLate, PingsInTurn, AnsweredTruly

\* A handler begins its calls.
LEMMA BeginSound ==
  ASSUME ServerInv, NEW r \in Request, NEW x, Sound(x), x.at \in {"none", "body"},
         x.kind = "health" => /\ x.todo = Cardinality(Pinger)
                              /\ \A s \in Pinger : x.replies[s] = "none",
         Begin(r, x), UNCHANGED <<now, server>>
  PROVE  ServerInv'
<1> DEFINE y == [x EXCEPT !.at = "calls", !.began = now, !.deadline = Until(Timeout)]
<1>1. now \in 0 .. MaxTime
  BY DEF ServerInv, ServerSound
<1>2. Until(Timeout) \in 0 .. MaxTime + Timeout + failLogTimeout /\ now <= Until(Timeout)
  BY <1>1, ServerAssumption DEF Until
<1>3. y \in RequestState
  BY <1>1, <1>2 DEF Sound, RequestState
<1>4. /\ y.at = "calls" /\ y.kind = x.kind /\ y.created = x.created
      /\ y.todo = x.todo /\ y.replies = x.replies
      /\ y.deadline = y.began + Timeout /\ now <= y.deadline
  BY <1>2 DEF Sound, RequestState, Until
<1>5. y.kind = "health" => Unanswered(y) = Pinger
  BY <1>4 DEF Unanswered
<1>6. Sound(y)
  BY <1>3, <1>4, <1>5 DEF Sound, InPlace, InTime, CutLate, PingsInTurn, AnsweredTruly
<1>7. Set(r, y)
  BY DEF Begin
<1> HIDE DEF y
<1> QED
  BY <1>6, <1>7, SetSound

LEMMA AcceptSound ==
  ASSUME ServerInv, NEW r \in Request, NEW kind \in {"parse", "read", "health"},
         Accept(r, kind)
  PROVE  ServerInv'
<1>1. PICK todo \in Calls(kind) :
        LET x == [NoRequest EXCEPT !.kind = kind, !.todo = todo]
        IN IF kind = "parse" THEN Set(r, [x EXCEPT !.at = "body"]) ELSE Begin(r, x)
  BY DEF Accept
<1> DEFINE x == [NoRequest EXCEPT !.kind = kind, !.todo = todo]
<1>2. todo \in Nat /\ (kind = "health" => todo = Cardinality(Pinger))
  BY ServerAssumption, FS_CardinalityType DEF Calls
<1>3. Sound(NoRequest) /\ NoRequest \in RequestState
  BY NoRequestSound DEF ServerInv
<1>4. x \in RequestState
  BY <1>2, <1>3 DEF RequestState
<1>5. /\ x.kind = kind /\ x.todo = todo /\ x.at = "none" /\ ~ x.created /\ x.began = 0
      /\ \A s \in Pinger : x.replies[s] = "none"
  BY DEF NoRequest
<1>6. UNCHANGED <<now, server>>
  BY DEF Accept
<1>7. CASE kind = "parse"
  <2> DEFINE y == [x EXCEPT !.at = "body"]
  <2>1. y \in RequestState
    BY <1>4 DEF RequestState
  <2>2. /\ y.kind = kind /\ y.at = "body" /\ ~ y.created /\ y.began = 0
        /\ \A s \in Pinger : y.replies[s] = "none"
    BY <1>4, <1>5 DEF RequestState
  <2>3. Sound(y)
    BY <2>1, <2>2, <1>7 DEF Sound, InPlace, InTime, CutLate, PingsInTurn, AnsweredTruly
  <2>4. Set(r, y)
    BY <1>1, <1>7
  <2> HIDE DEF y
  <2> QED
    BY <2>3, <2>4, <1>6, SetSound
<1>8. CASE kind # "parse"
  <2>1. Begin(r, x)
    BY <1>1, <1>8
  <2>2. Sound(x)
    BY <1>4, <1>5 DEF Sound, InPlace, InTime, CutLate, PingsInTurn, AnsweredTruly
  <2> HIDE DEF x
  <2> QED
    BY <2>1, <2>2, <1>2, <1>5, <1>6, BeginSound
<1> QED
  BY <1>7, <1>8

LEMMA AnswerAtOnceSound ==
  ASSUME ServerInv, NEW r \in Request, AnswerAtOnce(r)
  PROVE  ServerInv'
<1>1. NoRequest \in RequestState
  BY NoRequestSound DEF ServerInv
<1>2. /\ NoRequest.kind = "none" /\ ~ NoRequest.created
      /\ \A s \in Pinger : NoRequest.replies[s] = "none"
  BY DEF NoRequest
<1>3. PICK status \in {204, 400, 404} : Answer(r, NoRequest, status)
  BY DEF AnswerAtOnce
<1> QED
  BY <1>1, <1>2, <1>3, AnswerSound DEF AnswerAtOnce, Status

LEMMA ReadBodySound ==
  ASSUME ServerInv, NEW r \in Request, ReadBody(r)
  PROVE  ServerInv'
<1> DEFINE x == [req[r] EXCEPT !.began = now]
<1>1. Sound(req[r]) /\ req[r] \in RequestState /\ now \in 0 .. MaxTime
  BY DEF ServerInv, ServerSound, Sound
<1>2. req[r].at = "body" /\ req[r].kind = "parse" /\ UNCHANGED <<now, server>>
  BY <1>1 DEF ReadBody, Sound, InPlace
<1>3. CASE Begin(r, req[r])
  BY <1>1, <1>2, <1>3, BeginSound
<1>4. ASSUME NEW status \in {400, 413}, Answer(r, x, status) PROVE ServerInv'
  <2>1. x \in RequestState /\ x.kind = "parse" /\ x.replies = req[r].replies
    BY <1>1, <1>2 DEF RequestState
  <2>2. (\E s \in Pinger : x.replies[s] = "late") =>
          \E s \in Pinger : x.replies[s] = "silent"
    BY <1>1, <2>1 DEF Sound, PingsInTurn
  <2> HIDE DEF x
  <2> QED
    BY <1>2, <1>4, <2>1, <2>2, AnswerSound DEF Status
<1> QED
  BY <1>3, <1>4 DEF ReadBody
-----------------------------------------------------------------------------
LEMMA CallSucceedsSound ==
  ASSUME ServerInv, NEW r \in Request, CallSucceeds(r)
  PROVE  ServerInv'
<1> DEFINE x == [Rest(r) EXCEPT !.created = req[r].kind = "parse"]
           z == [x EXCEPT !.at = "write"]
<1>1. Sound(req[r]) /\ req[r] \in RequestState
  BY DEF ServerInv, Sound
<1>2. /\ req[r].kind \in {"parse", "read"} /\ req[r].at = "calls"
      /\ req[r].todo > 0 /\ UNCHANGED <<now, server>>
  BY DEF CallSucceeds, Waiting
<1>3. /\ x \in RequestState /\ x.at = "calls" /\ x.kind = req[r].kind
      /\ x.created => x.kind = "parse"
      /\ x.began = req[r].began /\ x.deadline = req[r].deadline
      /\ x.replies = req[r].replies
  <2> DEFINE b == req[r].kind = "parse"
  <2>1. b \in BOOLEAN /\ (b => req[r].kind = "parse")
    OBVIOUS
  <2>2. req[r].todo - 1 \in Nat
    BY <1>1, <1>2 DEF RequestState
  <2>3. x = [req[r] EXCEPT !.todo = req[r].todo - 1, !.created = b]
    BY <1>1 DEF RequestState, Rest
  <2> HIDE DEF x, b
  <2> QED
    BY <1>1, <1>2, <2>1, <2>2, <2>3 DEF RequestState
<1>4. Sound(x)
  BY <1>1, <1>2, <1>3 DEF Sound, InPlace, InTime, CutLate, PingsInTurn, AnsweredTruly
<1>5. CASE x.kind = "read" /\ x.todo = 0
  <2>1. /\ z \in RequestState /\ z.at = "write" /\ z.kind = "read" /\ z.todo = 0
        /\ z.created = x.created /\ z.replies = x.replies
    BY <1>3, <1>5 DEF RequestState
  <2>2. Sound(z)
    BY <1>4, <2>1 DEF Sound, InPlace, InTime, CutLate, PingsInTurn, AnsweredTruly
  <2>3. Set(r, z)
    BY <1>5 DEF CallSucceeds
  <2> HIDE DEF z
  <2> QED
    BY <1>2, <2>2, <2>3, SetSound
<1>6. CASE ~ (x.kind = "read" /\ x.todo = 0)
  <2>1. Set(r, x)
    BY <1>6 DEF CallSucceeds
  <2> HIDE DEF x
  <2> QED
    BY <1>2, <1>4, <2>1, SetSound
<1> QED
  BY <1>5, <1>6

LEMMA CallFailsSound ==
  ASSUME ServerInv, NEW r \in Request, CallFails(r)
  PROVE  ServerInv'
<1>1. Sound(req[r]) /\ req[r] \in RequestState /\ now \in 0 .. MaxTime
  BY DEF ServerInv, ServerSound, Sound
<1>2. /\ req[r].kind \in {"parse", "read"} /\ req[r].at = "calls"
      /\ UNCHANGED <<now, server>>
  BY DEF CallFails
<1>3. PICK err \in CallError :
        IF req[r].created
          THEN Set(r, [req[r] EXCEPT !.at = "failLog", !.deadline = FailLogDeadline,
                                     !.error = err])
          ELSE Answer(r, req[r], HttpStatus(err))
  BY ServerAssumption DEF CallFails
<1>4. CASE req[r].created
  <2> DEFINE x == [req[r] EXCEPT !.at = "failLog", !.deadline = FailLogDeadline,
                                 !.error = err]
  <2>1. /\ FailLogDeadline \in 0 .. MaxTime + Timeout + failLogTimeout
        /\ now <= FailLogDeadline
        /\ FailLogDeadline <= req[r].began + Timeout + failLogTimeout
    BY <1>1, <1>2, ServerAssumption DEF FailLogDeadline, Until, Sound, InTime, RequestState
  <2>2. x \in RequestState
    <3>1. err \in CallError \cup {"none"}
      OBVIOUS
    <3>2. FailLogDeadline \in 0 .. MaxTime + Timeout + failLogTimeout
      BY <2>1
    <3> QED
      BY <1>1, <3>1, <3>2 DEF RequestState
  <2>3. /\ x.at = "failLog" /\ x.created /\ x.kind = req[r].kind
        /\ x.began = req[r].began /\ x.deadline = FailLogDeadline
        /\ x.replies = req[r].replies
    BY <1>1, <1>4 DEF RequestState
  <2>4. Sound(x)
    BY <1>1, <2>1, <2>2, <2>3
    DEF Sound, InPlace, InTime, CutLate, PingsInTurn, AnsweredTruly
  <2>5. Set(r, x)
    BY <1>3, <1>4
  <2> HIDE DEF x
  <2> QED
    BY <1>2, <2>4, <2>5, SetSound
<1>5. CASE ~ req[r].created
  <2>1. HttpStatus(err) \in Status
    BY HttpStatusType
  <2>2. Answer(r, req[r], HttpStatus(err))
    BY <1>3, <1>5
  <2> QED
    BY <1>1, <1>2, <2>1, <2>2, AnswerSound DEF Sound, InPlace, PingsInTurn
<1> QED
  BY <1>4, <1>5

LEMMA FailLogEndsSound ==
  ASSUME ServerInv, NEW r \in Request, FailLogEnds(r)
  PROVE  ServerInv'
<1>1. Sound(req[r]) /\ req[r].at = "failLog"
  BY DEF ServerInv, FailLogEnds
<1>2. req[r] \in RequestState /\ req[r].created /\ req[r].kind = "parse"
  BY <1>1 DEF Sound, InTime, InPlace
<1>3. HttpStatus(req[r].error) \in Status
  BY HttpStatusType
<1>4. Answer(r, req[r], HttpStatus(req[r].error)) /\ UNCHANGED <<now, server>>
  BY DEF FailLogEnds
<1> QED
  BY <1>1, <1>2, <1>3, <1>4, AnswerSound DEF Sound, PingsInTurn

LEMMA PingSound ==
  ASSUME ServerInv, NEW r \in Request, Ping(r)
  PROVE  ServerInv'
<1>1. Sound(req[r]) /\ req[r] \in RequestState
  BY DEF ServerInv, Sound
<1>2. /\ req[r].kind = "health" /\ req[r].at = "calls" /\ req[r].todo > 0
      /\ UNCHANGED <<now, server>>
  BY <1>1 DEF Ping, Waiting, Sound, InTime, InPlace
<1>3. PICK s \in Pinger, reply \in Reply \ {"none"} :
        /\ req[r].replies[s] = "none"
        /\ reply = "late" => \E t \in Pinger : req[r].replies[t] = "silent"
        /\ Set(r, Pinged(r, s, reply))
  BY DEF Ping, Reply
<1> DEFINE x == Pinged(r, s, reply)
<1>4. /\ x \in RequestState /\ x.at = "calls" /\ x.kind = "health"
      /\ x.created = req[r].created /\ x.todo = req[r].todo - 1
      /\ x.began = req[r].began /\ x.deadline = req[r].deadline
      /\ x.replies = [req[r].replies EXCEPT ![s] = reply]
  <2>1. req[r].todo - 1 \in Nat
    BY <1>1, <1>2 DEF RequestState
  <2>2. [req[r].replies EXCEPT ![s] = reply] \in [Pinger -> Reply]
    BY <1>1 DEF RequestState
  <2>3. x = [req[r] EXCEPT !.todo = req[r].todo - 1,
                           !.replies = [req[r].replies EXCEPT ![s] = reply]]
    BY <1>1 DEF RequestState, Pinged, Rest
  <2> HIDE DEF x
  <2> QED
    BY <1>1, <1>2, <2>1, <2>2, <2>3 DEF RequestState
<1>5. Unanswered(x) = Unanswered(req[r]) \ {s}
  BY <1>1, <1>3, <1>4 DEF Unanswered, RequestState
<1>6. x.todo = Cardinality(Unanswered(x))
  <2>1. IsFiniteSet(Unanswered(req[r])) /\ s \in Unanswered(req[r])
    BY <1>3, ServerAssumption, FS_Subset DEF Unanswered
  <2>2. Cardinality(Unanswered(req[r]) \ {s}) = Cardinality(Unanswered(req[r])) - 1
    BY <2>1, FS_RemoveElement
  <2> HIDE DEF x
  <2> QED
    BY <1>1, <1>2, <1>4, <1>5, <2>2 DEF Sound, PingsInTurn
<1>7. (\E t \in Pinger : x.replies[t] = "late") =>
        \E t \in Pinger : x.replies[t] = "silent"
  BY <1>1, <1>3, <1>4 DEF Sound, PingsInTurn, RequestState
<1>8. Sound(x)
  BY <1>1, <1>2, <1>4, <1>6, <1>7
  DEF Sound, InPlace, InTime, CutLate, PingsInTurn, AnsweredTruly
<1> HIDE DEF x
<1> QED
  BY <1>2, <1>3, <1>8, SetSound DEF x

LEMMA AllCalledSound ==
  ASSUME ServerInv, NEW r \in Request, AllCalled(r)
  PROVE  ServerInv'
<1> DEFINE status == IF req[r].kind = "parse" THEN 200 ELSE HealthStatus(req[r].replies)
<1>1. Sound(req[r]) /\ req[r] \in RequestState
  BY DEF ServerInv, Sound
<1>2. /\ req[r].kind \in {"parse", "health"} /\ req[r].at = "calls" /\ req[r].todo = 0
      /\ Answer(r, req[r], status) /\ UNCHANGED <<now, server>>
  BY DEF AllCalled
<1>3. status \in {200, 503}
  BY DEF HealthStatus
<1>4. ASSUME req[r].kind = "health"
      PROVE  /\ \A s \in Pinger : req[r].replies[s] # "none"
             /\ IF status = 200 THEN \A s \in Pinger : req[r].replies[s] = "ok"
                ELSE \E s \in Pinger : req[r].replies[s] \in {"refused", "silent"}
  <2>1. IsFiniteSet(Unanswered(req[r]))
    BY ServerAssumption, FS_Subset DEF Unanswered
  <2>2. Unanswered(req[r]) = {}
    BY <1>1, <1>2, <1>4, <2>1, FS_EmptySet DEF Sound, PingsInTurn
  <2>3. \A s \in Pinger : req[r].replies[s] # "none"
    BY <2>2 DEF Unanswered
  <2>4. \A s \in Pinger : req[r].replies[s] \in Reply
    BY <1>1 DEF RequestState
  <2>5. status = IF \A s \in Pinger : req[r].replies[s] = "ok" THEN 200 ELSE 503
    BY <1>4 DEF HealthStatus
  <2>6. ASSUME NEW s \in Pinger, req[r].replies[s] # "ok"
        PROVE  \E t \in Pinger : req[r].replies[t] \in {"refused", "silent"}
    <3>1. req[r].replies[s] \in {"refused", "silent", "late"}
      BY <2>3, <2>4, <2>6 DEF Reply
    <3> QED
      BY <1>1, <3>1 DEF Sound, PingsInTurn
  <2> HIDE DEF status
  <2> QED
    BY <2>3, <2>5, <2>6
<1> HIDE DEF status
<1> QED
  BY <1>1, <1>2, <1>3, <1>4, AnswerSound DEF Sound, InPlace, PingsInTurn, Status

LEMMA WrittenSound ==
  ASSUME ServerInv, NEW r \in Request, Written(r)
  PROVE  ServerInv'
<1>1. Sound(req[r]) /\ req[r].at = "write" /\ Answer(r, req[r], 200) /\ UNCHANGED <<now, server>>
  BY DEF ServerInv, Written
<1>2. req[r] \in RequestState /\ req[r].kind = "read"
  BY <1>1 DEF Sound, InPlace
<1> QED
  BY <1>1, <1>2, AnswerSound DEF Sound, InPlace, PingsInTurn, Status

LEMMA PanicSound ==
  ASSUME ServerInv, NEW r \in Request, Panic(r)
  PROVE  ServerInv'
<1>1. Sound(req[r]) /\ Answer(r, req[r], 500) /\ UNCHANGED <<now, server>>
  BY DEF ServerInv, Panic
<1> QED
  BY <1>1, AnswerSound DEF Sound, InPlace, PingsInTurn, Status
-----------------------------------------------------------------------------
LEMMA ShutdownSound ==
  ASSUME ServerInv, Shutdown
  PROVE  ServerInv'
<1>1. /\ server.at = "serving" /\ now \in 0 .. MaxTime /\ UNCHANGED <<now, req>>
      /\ server' = [server EXCEPT !.at = "draining", !.since = now]
  BY DEF ServerInv, ServerSound, Shutdown
<1>2. ServerSound'
  BY <1>1 DEF ServerInv, ServerSound
<1>3. ASSUME NEW r \in Request PROVE Sound(req[r])'
  BY <1>1 DEF ServerInv, Sound, InPlace, InTime, CutLate, PingsInTurn, AnsweredTruly, Unanswered
<1> QED
  BY <1>1, <1>2, <1>3 DEF ServerInv

\* The process ends: what it cuts off may be cut off.
LEMMA ExitSound ==
  ASSUME ServerInv, NEW code \in {"ok", "error"}, Exit(code), server.at # "stopped",
         \A r \in Request : Serving(r) =>
           \/ server.since = 0
           \/ req[r].began = 0 \/ req[r].began >= server.since
           \/ req[r].kind = "read" /\ req[r].todo = 0
  PROVE  ServerInv'
<1>1. /\ server' = [server EXCEPT !.at = "stopped", !.exit = code] /\ now' = now
      /\ req' = [r \in Request |-> IF Serving(r) THEN [req[r] EXCEPT !.at = "cut"] ELSE req[r]]
  BY DEF Exit
<1>2. ServerSound'
  BY <1>1 DEF ServerInv, ServerSound
<1>3. server'.since = server.since /\ server'.at = "stopped"
  BY <1>1 DEF ServerInv, ServerSound
<1>4. ASSUME NEW r \in Request PROVE Sound(req[r])'
  <2>1. Sound(req[r]) /\ req[r] \in RequestState
    BY DEF ServerInv, Sound
  <2>2. CASE Serving(r)
    <3> DEFINE x == [req[r] EXCEPT !.at = "cut"]
    <3>1. /\ x \in RequestState /\ x.at = "cut" /\ x.kind = req[r].kind
          /\ x.created = req[r].created /\ x.began = req[r].began
          /\ x.todo = req[r].todo /\ x.replies = req[r].replies
      BY <2>1 DEF RequestState
    <3>2. req'[r] = x
      BY <1>1, <2>2
    <3> HIDE DEF x
    <3>3. InPlace(req[r])' /\ InTime(req[r])' /\ PingsInTurn(req[r])' /\ AnsweredTruly(req[r])'
      BY <2>1, <3>1, <3>2 DEF Sound, InPlace, InTime, PingsInTurn, AnsweredTruly
    <3>4. CutLate(req[r])'
      BY <1>3, <2>2, <3>1, <3>2 DEF CutLate
    <3> QED
      BY <3>1, <3>2, <3>3, <3>4 DEF Sound
  <2>3. CASE ~ Serving(r)
    <3>1. req'[r] = req[r]
      BY <1>1, <2>3
    <3> QED
      BY <1>1, <1>3, <2>1, <3>1
      DEF Sound, InPlace, InTime, CutLate, PingsInTurn, AnsweredTruly, Unanswered
  <2> QED
    BY <2>2, <2>3
<1> QED
  BY <1>1, <1>2, <1>4 DEF ServerInv

LEMMA DrainedSound ==
  ASSUME ServerInv, Drained PROVE ServerInv'
BY ExitSound DEF Drained

LEMMA GiveUpSound ==
  ASSUME ServerInv, GiveUp PROVE ServerInv'
<1>1. server.at = "draining" /\ now >= server.since + ShutdownTimeout /\ Exit("error")
  BY DEF GiveUp, ShutdownExpired
<1>2. ASSUME NEW r \in Request, Serving(r)
      PROVE  \/ req[r].began = 0 \/ req[r].began >= server.since
             \/ req[r].kind = "read" /\ req[r].todo = 0
  <2>1. /\ Sound(req[r]) /\ req[r].began \in 0 .. MaxTime /\ req[r].deadline \in Nat
        /\ now \in 0 .. MaxTime /\ server.since \in 0 .. MaxTime
    BY ServerAssumption DEF ServerInv, ServerSound, Sound, RequestState
  <2>2. CASE req[r].at \in {"body", "write"}
    BY <2>1, <2>2 DEF Sound, InPlace
  <2>3. CASE req[r].at \in {"calls", "failLog"}
    <3>1. now <= req[r].began + Timeout + failLogTimeout
      BY <2>1, <2>3, ServerAssumption DEF Sound, InTime
    <3> QED
      BY <1>1, <2>1, <3>1, ServerAssumption
  <2> QED
    BY <1>2, <2>2, <2>3 DEF Serving
<1> QED
  BY <1>1, <1>2, ExitSound

LEMMA ListenFailsSound ==
  ASSUME ServerInv, ListenFails PROVE ServerInv'
BY ExitSound DEF ListenFails, ServerInv, ServerSound

LEMMA TickSound ==
  ASSUME ServerInv, Tick PROVE ServerInv'
<1>1. /\ now \in 0 .. MaxTime /\ now < MaxTime /\ now' = now + 1
      /\ UNCHANGED <<server, req>>
      /\ \A r \in Request : ~ Expired(r) /\ ~ (req[r].at = "calls" /\ req[r].todo = 0)
  BY DEF ServerInv, ServerSound, Tick
<1>2. ServerSound'
  BY <1>1, ServerAssumption DEF ServerInv, ServerSound
<1>3. ASSUME NEW r \in Request PROVE Sound(req[r])'
  <2>1. Sound(req[r]) /\ req[r].todo \in Nat /\ req[r].deadline \in Nat
    BY ServerAssumption DEF ServerInv, Sound, RequestState
  <2>2. req[r].at \in {"calls", "failLog"} => now + 1 <= req[r].deadline
    BY <1>1, <2>1 DEF Expired, Waiting
  <2>3. InTime(req[r])'
    BY <1>1, <2>1, <2>2 DEF Sound, InTime
  <2> QED
    BY <1>1, <2>1, <2>3 DEF Sound, InPlace, CutLate, PingsInTurn, AnsweredTruly, Unanswered
<1> QED
  BY <1>1, <1>2, <1>3 DEF ServerInv

LEMMA ServerInitSound == ServerInit => ServerInv
<1> SUFFICES ASSUME ServerInit PROVE ServerInv
  OBVIOUS
<1>1. ServerSound
  BY ServerAssumption DEF ServerInit, ServerSound
<1>2. Sound(NoRequest)
  BY <1>1, NoRequestSound
<1> QED
  BY <1>1, <1>2 DEF ServerInit, ServerInv

LEMMA ServerStepSound ==
  ASSUME ServerInv, [ServerNext]_serverVars
  PROVE  ServerInv'
<1>1. CASE UNCHANGED serverVars
  <2>1. UNCHANGED <<now, server, req>>
    BY <1>1 DEF serverVars
  <2>2. ServerSound'
    BY <2>1 DEF ServerInv, ServerSound
  <2>3. ASSUME NEW r \in Request PROVE Sound(req[r])'
    BY <2>1 DEF ServerInv, Sound, InPlace, InTime, CutLate, PingsInTurn,
      AnsweredTruly, Unanswered
  <2> QED
    BY <2>1, <2>2, <2>3 DEF ServerInv
<1>2. ASSUME NEW r \in Request, Handle(r) PROVE ServerInv'
  BY <1>2, CallSucceedsSound, CallFailsSound, FailLogEndsSound, PingSound,
    AllCalledSound, PanicSound DEF Handle
<1>3. ASSUME NEW r \in Request,
             \/ \E kind \in {"parse", "read", "health"} : Accept(r, kind)
             \/ AnswerAtOnce(r) \/ ReadBody(r) \/ Handle(r) \/ Written(r)
      PROVE  ServerInv'
  BY <1>2, <1>3, AcceptSound, AnswerAtOnceSound, ReadBodySound, WrittenSound
<1>4. CASE Shutdown \/ Drained \/ GiveUp \/ ListenFails \/ Tick
  BY <1>4, ShutdownSound, DrainedSound, GiveUpSound, ListenFailsSound, TickSound
<1>5. CASE ServerNext
  BY <1>3, <1>4, <1>5 DEF ServerNext
<1> QED
  BY <1>1, <1>5

LEMMA ServerInvariant == ServerSpec => []ServerInv
BY ServerInitSound, ServerStepSound, PTL DEF ServerSpec

-----------------------------------------------------------------------------
\* The clock, the process and every request keep their types, however many
\* requests there are.
THEOREM ServerTypeCorrect == ServerSpec => []ServerTypeOK
BY ServerInvariant, ServerInvImplies, PTL

\* Whatever the services do, a handler that has read its request is done within
\* APP_TIMEOUT, and failLogTimeout if it created a log: all its calls share one
\* deadline.
THEOREM HandlersBounded == ServerSpec => []HandlersAreBounded
BY ServerInvariant, ServerInvImplies, PTL

\* A shutdown timeout of APP_TIMEOUT + failLogTimeout is enough for every request
\* that had been read when the signal came: none of them is cut off.
THEOREM ShutdownIsGraceful == ServerSpec => []OnlyLateRequestsAreCut
BY ServerInvariant, ServerInvImplies, PTL

\* The health check's answer is true for any number of services, asked in any
\* order under one deadline.
THEOREM HealthCorrect == ServerSpec => []HealthIsTrue
BY ServerInvariant, ServerInvImplies, PTL
=============================================================================
