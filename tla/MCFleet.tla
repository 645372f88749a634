------------------------------- MODULE MCFleet -------------------------------
(***************************************************************************)
(* The fleet instantiated for TLC.                                         *)
(***************************************************************************)
EXTENDS Fleet, TLC

\* Ids and request slots are interchangeable, and so are the members of each
\* registered set: Init treats them alike.
Symmetry ==
    UNION {Permutations(S) : S \in {Tenants, Vehicles, Drivers, BookingIds,
        TripIds, AssignmentIds, BookingRequests, TripRequests,
        AssignmentRequests, RegistryRequests}}

\* A fleet in use: the assignments and maintenance logs that earlier requests,
\* one at a time, could have left.  It saves the steps that build them.
Seeded ==
    /\ RegisteredFleet
    /\ booking = <<>>
    /\ trip = <<>>
    /\ \E ids \in SUBSET AssignmentIds :
           assignment \in [ids -> [vehicle : Vehicles, driver : Drivers,
                                   start : Days, end : Days \cup {None},
                                   deleted : {FALSE}]]
    /\ NoOverlappingAssignments
    /\ AssignmentsStayInTenant
    /\ \A a \in DOMAIN assignment : DatesInOrder(assignment[a].start, assignment[a].end)
    /\ maintenanceLog \in SUBSET [tenant : Tenants, vehicle : Vehicles, date : Days]
    /\ \A m \in maintenanceLog : vehicle[m.vehicle].tenant = m.tenant
    /\ BookingsInit
    /\ TripsInit
    /\ AssignmentsInit
    /\ RegistryInit

SeededSpec == Seeded /\ [][Next]_vars

FairSeededSpec == SeededSpec /\ Fairness

=============================================================================
