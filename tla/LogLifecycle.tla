---------------------------- MODULE LogLifecycle ----------------------------
(***************************************************************************)
(* What the log store promises to everybody who can see the database: a    *)
(* log is registered, then finalized exactly once, either as "parsed",     *)
(* together with the whole of one well-formed parsed log, or as "failed",  *)
(* with no data at all.  LogStore implements this specification with       *)
(* statements, row locks and transactions.                                 *)
(***************************************************************************)

CONSTANTS
  LogId,     \* identifiers of the logs
  Content,   \* what a parsed log may contain
  Nothing    \* the content of a log that is not parsed

VARIABLES
  status,    \* status[l]: "none" until the log is registered
  content    \* content[l]: the data every reader sees for the log

vars == <<status, content>>

Status == {"none", "processing", "parsed", "failed"}

Init ==
  /\ status = [l \in LogId |-> "none"]
  /\ content = [l \in LogId |-> Nothing]

Register(l) ==
  /\ status[l] = "none"
  /\ status' = [status EXCEPT ![l] = "processing"]
  /\ UNCHANGED content

\* The status and the data become visible in the same step.
Publish(l, c) ==
  /\ status[l] = "processing"
  /\ status' = [status EXCEPT ![l] = "parsed"]
  /\ content' = [content EXCEPT ![l] = c]

Fail(l) ==
  /\ status[l] = "processing"
  /\ status' = [status EXCEPT ![l] = "failed"]
  /\ UNCHANGED content

Next ==
  \E l \in LogId :
    \/ Register(l)
    \/ \E c \in Content : Publish(l, c)
    \/ Fail(l)

Spec == Init /\ [][Next]_vars

=============================================================================
