SPECIFICATION Spec
CONSTANTS
    Tenants = {t1}
    Vehicles = {v1, v2}
    Drivers = {}
    BookingIds = {b1, b2}
    TripIds = {}
    AssignmentIds = {}
    Incomes = {0}
    Days = {0, 1, 2}
    Clock = {0}
    BookingRequests = {q1, q2}
    TripRequests = {}
    AssignmentRequests = {}
    RegistryRequests = {}
    None = None
    Absent = Absent
INVARIANTS
    DoubleBookingOnlyByRace
PROPERTIES
    RevivedOnlyByRace
SYMMETRY Symmetry
CHECK_DEADLOCK FALSE
