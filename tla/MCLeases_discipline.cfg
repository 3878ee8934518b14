SPECIFICATION LeasesSpec
CONSTANTS
    Owner = {o1, o2}
    ApiKey = {k1, k2}
    Connection = {c1, c2}
    Call = {r1, r2}
    Instant <- Instants
    Ttl <- Ttls
    NoConnection = none
    MaxRows = 3
INVARIANTS
    ExclusiveOwnership
    HistoryInOrder
PROPERTIES
    EndedForGood
    ReleaseRepeats
    ImplementsLeaseOwnership
    DispatchFenced
    TableDiscipline
    CallsEnd
