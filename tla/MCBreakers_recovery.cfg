SPECIFICATION BreakersSpec
CONSTANTS
  FailureThreshold = 3
  DegradationThreshold = 2
  HalfOpenRequests = 2
  Kind = {rate_limit}
  NoKind = no_kind
  KindThreshold <- NoThresholds
  MaxCount = 4
  Object = {o1}
  None = none
  Call = {c1, c2, c3, c4}
  Excusable = {}
  Evicting = FALSE
  Restarting = TRUE
  rate_limit = rate_limit
  Request = {r1, r2, r3}
  Combo = {r2}
  ProxyMayDie = TRUE
  ClientMayAbort = TRUE
  Provider = somebody
  Gateway = somebody
  MaxStreak = 0
INVARIANT RowIsCurrent
INVARIANT ProbeOutstanding
INVARIANT OnlyFailuresTrip
PROPERTY BreakerRecovers
PROPERTY CallsRecover
CHECK_DEADLOCK TRUE
