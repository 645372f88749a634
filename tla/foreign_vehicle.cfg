SPECIFICATION Spec
CONSTANTS
    Tenants = {t1, t2}
    Vehicles = {v1}
    Drivers = {}
    BookingIds = {b1}
    TripIds = {}
    AssignmentIds = {}
    Incomes = {0}
    Days = {0, 1}
    Clock = {0}
    BookingRequests = {q1}
    TripRequests = {}
    AssignmentRequests = {}
    RegistryRequests = {}
    None = None
    Absent = Absent
INVARIANTS
    BookingsStayInTenant
SYMMETRY Symmetry
CHECK_DEADLOCK FALSE
