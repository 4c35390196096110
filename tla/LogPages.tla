------------------------------ MODULE LogPages -----------------------------
(***************************************************************************)
(* The two port lists of the app, which are handed out in pages, and a     *)
(* client that walks through the pages of one list.  Every page is a       *)
(* request of its own that reads the whole list from the repository and    *)
(* cuts the page out; the writers go on in between.                        *)
(*                                                                         *)
(* A parameter of the query is {} if it is absent and {n} if it is n; what *)
(* is not a number is refused like -1.                                     *)
(***************************************************************************)
EXTENDS LogReads

CONSTANTS
  defaultPortsLimit, maxPortsLimit,
  Limit, Offset  \* the parameters that clients send

ASSUME PageAssumption ==
  /\ maxPortsLimit \in Nat /\ defaultPortsLimit \in 1 .. maxPortsLimit
  /\ Limit \subseteq SUBSET Int /\ Offset \subseteq SUBSET Int

VARIABLE
  walk  \* of each reader: [on, limit, offset, from, seen]

pageVars == <<readVars, walk>>

Paged == {"ports", "nodePorts"}

NoWalk == [on |-> FALSE, limit |-> defaultPortsLimit, offset |-> 0, from |-> 0, seen |-> <<>>]

PageInit == ReadInit /\ walk = [r \in Reader |-> NoWalk]

-----------------------------------------------------------------------------
Given(param, default) == IF param = {} THEN default ELSE CHOOSE n \in param : TRUE

ValidPage(limit, offset) ==
  /\ Given(limit, defaultPortsLimit) \in 1 .. maxPortsLimit
  /\ Given(offset, 0) >= 0

\* Mutant: the last page is cut off one port too early.
paginatePortsShort(list, limit, offset) ==
  SubSeq(list, offset + 1, IF offset + limit >= Len(list) THEN Len(list) - 1
                                                          ELSE offset + limit)

\* The end is cut off at the end of the list; an offset behind it is no error.
paginatePorts(list, limit, offset) ==
  IF offset >= Len(list) THEN <<>>
  ELSE SubSeq(list, offset + 1,
              IF offset + limit > Len(list) THEN Len(list) ELSE offset + limit)

\* The parameters are checked before the identifier in the path.
RefusePage(r, q) ==
  /\ read[r].at = "idle" /\ ~ walk[r].on
  /\ \E limit \in Limit, offset \in Offset : ~ ValidPage(limit, offset)
  /\ AnswerRead(r, [read[r] EXCEPT !.query = q], "ErrBadArguments")
  /\ UNCHANGED walk

FirstPage(r, q, l, g) ==
  /\ ~ walk[r].on
  /\ Ask(r, q, l, g)
  /\ \E limit \in Limit, offset \in Offset :
       /\ ValidPage(limit, offset)
       /\ walk' = [walk EXCEPT ![r] = [NoWalk EXCEPT !.on = TRUE,
                                         !.limit = Given(limit, defaultPortsLimit),
                                         !.offset = Given(offset, 0),
                                         !.from = Given(offset, 0)]]

IsPaged(r) == read[r].query \in Paged /\ walk[r].on
Total(r) == Len(read[r].got["ports"])
Page(r) == paginatePorts(read[r].got["ports"], walk[r].limit, walk[r].offset)
IsLastPage(r) == walk[r].offset + walk[r].limit >= Total(r)

\* The client appends the page and asks for the next one.
NextPage(r) ==
  /\ Answered(r, "ports") \/ Answered(r, "nodePorts")
  /\ IsPaged(r)
  /\ ~ IsLastPage(r)
  /\ walk' = [walk EXCEPT ![r].seen = @ \o Page(r), ![r].offset = @ + walk[r].limit]
  /\ LET x == NotReading(read[r].guid)
     IN Becomes(r, [x EXCEPT !.query = read[r].query, !.log = read[r].log,
                             !.at = IF read[r].query \in OfANode THEN "node" ELSE "log"])

\* The last page, or an error: the client is done.
EndWalk(r) ==
  /\ walk[r].on
  /\ IsLastPage(r) \/ read[r].answer # "ok"
  /\ ReadReturn(r)
  /\ walk' = [walk EXCEPT ![r] = NoWalk]

PageStep(r) ==
  \/ ReadWork(r) /\ UNCHANGED walk
  \/ \E q \in Query \ Paged, l \in LogId \cup {0}, g \in GUID : Ask(r, q, l, g) /\ UNCHANGED walk
  \/ \E q \in Paged, l \in LogId \cup {0}, g \in GUID : FirstPage(r, q, l, g)
  \/ \E q \in Paged : RefusePage(r, q)
  \/ NextPage(r)
  \/ EndWalk(r)
  \/ ~ walk[r].on /\ ReadReturn(r) /\ UNCHANGED walk

PageNext ==
  \/ Next /\ UNCHANGED <<read, walk>>
  \/ \E r \in Reader : PageStep(r) /\ UNCHANGED vars

PageSpec == PageInit /\ [][PageNext]_pageVars

-----------------------------------------------------------------------------
Listed(r) ==
  LET all == rows[read[r].log]["ports"]
  IN IF read[r].query = "ports" THEN all ELSE OfNode(all, read[r].guid)

\* The pages that a client collects make up the list from its first offset on,
\* without a gap or a repetition, although the log may be saved between two of
\* them; a client that begins before the log is saved sees an empty list, never
\* a part of it.
PagesMakeTheList ==
  \A r \in Reader :
    IsPaged(r) /\ read[r].at = "done" /\ read[r].answer = "ok" /\ IsLastPage(r) =>
      LET collected == walk[r].seen \o Page(r)
      IN \/ collected = SubSeq(Listed(r), walk[r].from + 1, Len(Listed(r)))
         \/ collected = <<>> /\ read[r].gotLog.status # "parsed"
=============================================================================
