SPECIFICATION CallsSpec
CONSTANTS
  FailureThreshold = 3
  DegradationThreshold = 2
  HalfOpenRequests = 1
  Kind = {}
  NoKind = no_kind
  KindThreshold <- NoThresholds
  MaxCount = 4
  Request = {r1}
  Combo = {}
  ProxyMayDie = FALSE
  ClientMayAbort = FALSE
  Provider = somebody
  Gateway = somebody
  MaxStreak = 3
INVARIANT ReportedFailuresOpen
CHECK_DEADLOCK TRUE
