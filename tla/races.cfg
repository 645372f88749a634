SPECIFICATION FocusSpec
CONSTANTS
    Tenants = {t1}
    Vehicles = {v1}
    Drivers = {d1}
    BookingIds = {}
    TripIds = {u1, u2}
    AssignmentIds = {a1, a2}
    Incomes = {0}
    Days = {0, 1}
    Clock = {0, 1}
    BookingRequests = {}
    TripRequests = {q1, q2}
    AssignmentRequests = {p1, p2}
    RegistryRequests = {}
    None = None
    Absent = Absent
INVARIANTS
    TripsCollideOnlyByRace
    ReleasedEarlyOnlyByRace
    TripTimesOrdered
    OverlapOnlyByRaceOrUpdate
PROPERTIES
    EndRewrittenOnlyByRace
    DatesCrossOnlyByRace
SYMMETRY Symmetry
CHECK_DEADLOCK FALSE
