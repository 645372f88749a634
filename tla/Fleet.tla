-------------------------------- MODULE Fleet --------------------------------
(***************************************************************************)
(* The fleet core of the backend: bookings, trips, assignments and the     *)
(* registry, all writing the same tables, and the clock.  Every component  *)
(* runs its requests in slots of its own; a step of one component leaves   *)
(* the requests of the others alone.  An instance with no slots for a      *)
(* component is the system while nobody calls it.                          *)
(***************************************************************************)
EXTENDS Bookings, Trips, Assignments, Registry

registryVars == <<greq, overridden>>

vars == <<vehicle, driver, booking, trip, assignment, maintenanceLog, now,
          overridden, breq, bmissed, braced, treq, tmissed, traced,
          areq, amissed, araced, edited, greq>>

Init ==
    /\ TablesInit
    /\ BookingsInit
    /\ TripsInit
    /\ AssignmentsInit
    /\ RegistryInit

BookingsAct ==
    /\ BookingsNext
    /\ UNCHANGED <<vehicle, driver, maintenanceLog, now,
                   tripVars, assignmentVars, registryVars>>

TripsAct ==
    /\ TripsNext
    /\ UNCHANGED <<maintenanceLog, now, bookingVars, assignmentVars, greq>>

AssignmentsAct ==
    /\ AssignmentsNext
    /\ UNCHANGED <<vehicle, driver, maintenanceLog, now,
                   bookingVars, tripVars, registryVars>>

RegistryAct ==
    /\ RegistryNext
    /\ UNCHANGED <<now, bookingVars, tripVars, assignmentVars>>

\* Time passes, never backwards.
Tick ==
    /\ \E d \in Clock : d > now /\ now' = d
    /\ UNCHANGED <<vehicle, driver, maintenanceLog,
                   bookingVars, tripVars, assignmentVars, registryVars>>

Next == BookingsAct \/ TripsAct \/ AssignmentsAct \/ RegistryAct \/ Tick

Spec == Init /\ [][Next]_vars

TypeOK ==
    /\ TablesTypeOK
    /\ BookingsTypeOK
    /\ TripsTypeOK
    /\ AssignmentsTypeOK
    /\ RegistryTypeOK

\* "Can start/end own trips (assignment-verified)": startTrip queries an
\* assignment of the driver to the vehicle at the trip's start time, and
\* remove() only marks rows, so however assignments change while the handler
\* runs and afterwards, every trip is still explained by an assignment row,
\* unless update() has rewritten an assignment.
TripBackedByAssignment ==
    \A t \in DOMAIN trip :
        \E a \in DOMAIN assignment :
            \/ a \in edited
            \/ /\ assignment[a].vehicle = trip[t].vehicle
               /\ assignment[a].driver = trip[t].driver
               /\ assignment[a].start <= trip[t].start
               /\ \/ assignment[a].end = None
                  \/ assignment[a].end >= trip[t].start

----------------------------------------------------------------------------
(***************************************************************************)
(* Refinement: the columns of the booking table that the ledger keeps.     *)
(***************************************************************************)
LedgerOfBookings ==
    [b \in DOMAIN booking |->
       [tenant |-> booking[b].tenant, vehicle |-> booking[b].vehicle,
        start |-> booking[b].start, end |-> booking[b].end,
        status |-> booking[b].status]]

Ledger == INSTANCE BookingLedger WITH ledger <- LedgerOfBookings

\* As long as booking requests are handled one at a time, whatever trips,
\* assignments and administrators do meanwhile, the service is the ledger.
ImplementsLedger == Ledger!Spec

----------------------------------------------------------------------------
(***************************************************************************)
(* Progress.  Node resumes a handler whenever its query is answered, and   *)
(* every query is answered or fails, so a handler's next step is never put *)
(* off for ever.  Nothing makes clients send requests or the clock reach   *)
(* an instant: no other action is fair.                                    *)
(***************************************************************************)
FairBooking(r) ==
    /\ BookingStep(r)
    /\ UNCHANGED <<vehicle, driver, maintenanceLog, now, overridden,
                   tripVars, assignmentVars, greq>>

FairTrip(r) ==
    /\ TripStep(r)
    /\ UNCHANGED <<maintenanceLog, now, bookingVars, assignmentVars, greq>>

FairAssignment(r) ==
    /\ AssignmentStep(r)
    /\ UNCHANGED <<vehicle, driver, maintenanceLog, now, overridden,
                   bookingVars, tripVars, greq>>

FairRegistry(r) ==
    /\ RegistryStep(r)
    /\ UNCHANGED <<now, bookingVars, tripVars, assignmentVars>>

Fairness ==
    /\ \A r \in BookingRequests : WF_vars(FairBooking(r))
    /\ \A r \in TripRequests : WF_vars(FairTrip(r))
    /\ \A r \in AssignmentRequests : WF_vars(FairAssignment(r))
    /\ \A r \in RegistryRequests : WF_vars(FairRegistry(r))

\* Every handler returns: none waits for another one, and a handler that loses
\* its race writes or throws but never hangs.
EveryRequestReturns ==
    /\ \A r \in BookingRequests : breq[r] # BookingIdle ~> breq[r] = BookingIdle
    /\ \A r \in TripRequests : treq[r] # TripIdle ~> treq[r] = TripIdle
    /\ \A r \in AssignmentRequests :
           areq[r] # AssignmentIdle ~> areq[r] = AssignmentIdle
    /\ \A r \in RegistryRequests : greq[r] # RegistryIdle ~> greq[r] = RegistryIdle

=============================================================================
