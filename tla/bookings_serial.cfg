SPECIFICATION SeededSpec
CONSTANTS
    Tenants = {t1}
    Vehicles = {v1, v2}
    Drivers = {d1}
    BookingIds = {b1, b2}
    TripIds = {}
    AssignmentIds = {a1}
    Incomes = {0}
    Days = {0, 1, 2}
    Clock = {0}
    BookingRequests = {q1}
    TripRequests = {}
    AssignmentRequests = {}
    RegistryRequests = {}
    None = None
    Absent = Absent
PROPERTIES
    ImplementsLedger
CHECK_DEADLOCK FALSE
