SPECIFICATION AdmissionSpec
CONSTANTS
    r1 = r1
    r2 = r2
    r3 = r3
    r4 = r4
    t1 = t1
    t2 = t2
    Default = no_tenant
    Key <- AllKeys
    Request <- AllRequests
    Keys <- CrossedKeys
    Limit <- EditedLimits
    MaxQueue = 2
    Blockable = {1}
    Entry <- AllRequests
    Cost <- Costs
    TenantKey <- AllTenants
    Tenant <- Tenants
    Configs <- Reloaded
    MaxLanes = 1
INVARIANTS
    QueueIntegrity
    NoLostWakeup
    FairQueueIntegrity
    NobodyStranded
    ShadowAccounts
PROPERTIES
    NoOvertaking
    DrainIsTheLoop
    AdmissionsFitLimit
    NoLateAdmission
    ReservationHonoured
    UpdateServesOrRejects
CHECK_DEADLOCK FALSE
