SPECIFICATION FairServerSpec
CONSTANTS
  Request = {r1, r2}
  Pinger = {p1, p2}
  Timeout = 2
  failLogTimeout = 1
  ShutdownTimeout = 3
  CallError = {"ErrUnavailable", "ErrNotFound"}
  MaxTime = 5
INVARIANTS
  HandlersAreBounded
  OnlyLateRequestsAreCut
  HealthIsTrue
PROPERTY
  ShutdownEnds
CHECK_DEADLOCK FALSE
