SPECIFICATION FocusSpec
CONSTANTS
    Tenants = {t1, t2}
    Branches = {b1, b2}
    BranchNames = {n1, n2}
    Members = {m1, m2}
    Keys = {k1, k2}
    DirectoryRequests = {p1, p2}
    ContractIds = {c1}
    Days = {0, 1, 2}
    Modules = {x1}
    Flags = {f1, f2}
    FeatureRequests = {p3, p4}
    Vehicles = {v1}
    Jobs = {j1}
    Items = {i1, i2}
    Logs = {l1, l2, l3}
    Costs = {1, 2}
    Readings = {1, 2}
    GarageRequests = {p5, p6}
    People = {u1}
    Words = {w1, w2, w3}
    PasswordRequests = {p7, p8}
    None = None
    Absent = Absent
    Empty = Empty
INVARIANTS
    TypeOK
    SameNameOnlyByRace
    LinkToRemovedOnlyByRace
    ReferencesStayInTenant
    IndexRefusesOnlyByRaceOrRemoved
    ContractDatesInOrder
    GuardObeysLastCall
    TotalIsSumOfItems
PROPERTIES
    DateLostOnlyByRace
    ItemsAfterCompletionOnlyByRace
    OdometerBackOnlyByRace
    UnknownReplacedOnlyByRace
SYMMETRY Symmetry
CHECK_DEADLOCK FALSE
