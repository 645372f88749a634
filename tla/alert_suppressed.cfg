SPECIFICATION FocusSpec
CONSTANTS
    Tenants = {t1}
    None = None
    Absent = Absent
    Tracked = {v1}
    Locations = {}
    Instants = {0, 1}
    RateLimitTTL = 1
    LocationCacheTTL = 1
    TrackingRequests = {}
    Processes = {s1}
    MaxFaults = 0
    TripVehicles = {v1, v2}
    Numbers = {n1, n2}
    Longer = {n2}
    Broken = {}
PROPERTIES
    PassedOverForItsOwnAlert
CHECK_DEADLOCK FALSE
