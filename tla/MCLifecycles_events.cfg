SPECIFICATION LifecyclesSpec
CONSTANTS
    FailureThreshold = 3
    DegradationThreshold = 2
    HalfOpenRequests = 1
    Kind = {rate_limit}
    NoKind = no_kind
    KindThreshold <- RateLimitThreshold
    MaxCount = 4
    Object = {o1, o2}
    None = none
    Call = {c1, c2, c3}
    Excusable = {c1, c2, c3}
    Evicting = TRUE
    Restarting = TRUE
    rate_limit = rate_limit
    Child = {p1, p2}
    NoProcess = no_process
    Stranger = stranger
    Adopting = TRUE
    Crashing = TRUE
    AlarmThreshold = 2
    MaxPolls = 1
    MaxOperations = 2
INVARIANTS
    ProbesBounded
    InShape
    StatusHonest
PROPERTY DeadServiceSurfaces
