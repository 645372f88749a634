SPECIFICATION FocusSpec
CONSTANTS
    Tenants = {t1, t2}
    None = None
    Absent = Absent
    Tracked = {v1}
    Locations = {g1, g2}
    Instants = {0, 1}
    RateLimitTTL = 1
    LocationCacheTTL = 1
    TrackingRequests = {p1, p2}
    Processes = {s1, s2}
    MaxFaults = 3
    TripVehicles = {v1, v2}
    Numbers = {n1, n2, n3}
    Longer = {n2}
    Broken = {t2}
INVARIANTS
    RateBrokenOnlyByRace
    LatestIsNewest
    ScheduleLostOnlyByHalfBoot
PROPERTIES
    ShownBackOnlyByRace
    OfflineRepeatOnlyByRaceOrRename
    ScheduledOrDisabled
    SilentIsReported
    ExpiryIsTold
CHECK_DEADLOCK FALSE
