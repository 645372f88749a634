SPECIFICATION FocusSpec
CONSTANTS
    Tenants = {t1}
    Users = {u1}
    AccountRequests = {p1}
    SessionRequests = {}
    Seconds = {0}
    AccessTTL = 1
    RefreshTTL = 2
    None = None
    Absent = Absent
INVARIANTS
    RemovedTenantsInactive
CHECK_DEADLOCK FALSE
