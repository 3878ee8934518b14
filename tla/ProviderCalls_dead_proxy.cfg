SPECIFICATION CallsSpec
CONSTANTS
  FailureThreshold = 3
  DegradationThreshold = 2
  HalfOpenRequests = 1
  Kind = {}
  NoKind = no_kind
  KindThreshold <- NoThresholds
  MaxCount = 4
  Request = {r1, r2}
  Combo = {}
  ProxyMayDie = TRUE
  ClientMayAbort = FALSE
  Provider = provider
  Gateway = gateway
  MaxStreak = 0
INVARIANT OnlyProviderFailuresTrip
CHECK_DEADLOCK TRUE
