SPECIFICATION Spec
CONSTANTS
    Tenants = {t1}
    Vehicles = {v1}
    Drivers = {d1, d2}
    BookingIds = {}
    TripIds = {}
    AssignmentIds = {a1, a2}
    Incomes = {0}
    Days = {0, 1, 2}
    Clock = {0}
    BookingRequests = {}
    TripRequests = {}
    AssignmentRequests = {q1}
    RegistryRequests = {}
    None = None
    Absent = Absent
INVARIANTS
    NoOverlappingAssignments
SYMMETRY Symmetry
CHECK_DEADLOCK FALSE
