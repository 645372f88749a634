SPECIFICATION FocusSpec
CONSTANTS
    Tenants = {t1, t2}
    Users = {u1, u2}
    AccountRequests = {p1, p2}
    SessionRequests = {s1, s2}
    Seconds = {0, 1}
    AccessTTL = 1
    RefreshTTL = 2
    None = None
    Absent = Absent
INVARIANTS
    AdminActiveIffApproved
    AdminAndTenantAgree
    OneAdminPerTenant
PROPERTIES
    LoggedOutStaysOut
    TokensForApproved
SYMMETRY Symmetry
CHECK_DEADLOCK FALSE
