SPECIFICATION Spec
CONSTANTS
    Tenants = {t1, t2}
    Vehicles = {v1}
    Drivers = {d1}
    BookingIds = {b1}
    TripIds = {u1}
    AssignmentIds = {a1}
    Incomes = {0}
    Days = {0, 1}
    Clock = {0, 1}
    BookingRequests = {q1}
    TripRequests = {q2}
    AssignmentRequests = {q3}
    RegistryRequests = {}
    None = None
    Absent = Absent
INVARIANTS
    TypeOK
    TripBackedByAssignment
    AssignmentsStayInTenant
SYMMETRY Symmetry
CHECK_DEADLOCK FALSE
