SPECIFICATION FairSeededSpec
CONSTANTS
    Tenants = {t1}
    Vehicles = {v1}
    Drivers = {d1}
    BookingIds = {}
    TripIds = {u1, u2}
    AssignmentIds = {a1}
    Incomes = {0}
    Days = {0}
    Clock = {0}
    BookingRequests = {}
    TripRequests = {q2}
    AssignmentRequests = {}
    RegistryRequests = {q4}
    None = None
    Absent = Absent
INVARIANTS
    OneActiveTripPerVehicle
    NothingStranded
PROPERTIES
    EveryRequestReturns
CHECK_DEADLOCK FALSE
