------------------------------- MODULE Bookings -------------------------------
(***************************************************************************)
(* BookingsService: create, confirm, cancel and assign, as requests that   *)
(* interleave at every awaited query.                                      *)
(*                                                                         *)
(* breq[r] is the handler running in slot r: where it is (pc), which       *)
(* operation it runs (op) and what it holds across its awaits.  A slot is  *)
(* free again when the handler returns or throws.  GET handlers write      *)
(* nothing and are not requests here.                                      *)
(***************************************************************************)
EXTENDS Scheduling

CONSTANT BookingRequests   \* bound: booking requests in flight at once

VARIABLES
    breq,      \* breq[r]: the handler in slot r
    bmissed,   \* history: bookings written since r's last guarding read
    braced     \* history: pairs <<b, c>>: c was written inside the window
               \* between the guarding read and the write of a request on b

bookingVars == <<booking, breq, bmissed, braced>>

BookingIdle ==
    [pc |-> "idle", op |-> "none", tenant |-> None, id |-> None,
     vehicle |-> None, driver |-> None, start |-> None, end |-> None,
     askDriver |-> FALSE]

\* What an in-flight handler holds.  id is the booking of the route and None
\* for create; vehicle and driver are the DTO's, where Absent is undefined and
\* driver None is null; askDriver says whether the driver has to be checked.
BookingRequest ==
    [pc : {"bookings", "trips", "status", "maintenance", "assignments",
           "driverTrips", "write"},
     op : {"create", "confirm", "cancel", "assign"},
     tenant : Tenants, id : BookingIds \cup {None},
     vehicle : Vehicles \cup {Absent}, driver : Drivers \cup {None, Absent},
     start : Days, end : Days, askDriver : BOOLEAN]

BookingsTypeOK ==
    /\ \A r \in BookingRequests :
           breq[r] \in BookingRequest \cup {BookingIdle}
    /\ DOMAIN breq = BookingRequests
    /\ bmissed \in [BookingRequests -> SUBSET BookingIds]
    /\ braced \subseteq BookingIds \X BookingIds

BookingsInit ==
    /\ breq = [r \in BookingRequests |-> BookingIdle]
    /\ bmissed = [r \in BookingRequests |-> {}]
    /\ braced = {}

CreateBookingDto ==
    [vehicle : Vehicles, driver : Drivers \cup {None}, start : Days, end : Days]

AssignDriverVehicleDto ==
    [vehicle : Vehicles \cup {Absent}, driver : Drivers \cup {None, Absent}]

----------------------------------------------------------------------------
(***************************************************************************)
(* Steps that handlers share.                                              *)
(***************************************************************************)

\* r has read what guards its write: the conflicting bookings for create and
\* for a change of vehicle, the booking itself for the other operations.
BookingGuardRead(r) == breq[r].pc \notin {"idle", "bookings"}

\* The handler in slot r frees it: it returned, threw or died.
BookingReturns(r) ==
    /\ breq' = [breq EXCEPT ![r] = BookingIdle]
    /\ bmissed' = [bmissed EXCEPT ![r] = {}]

\* The handler in slot r moves on to pc, or throws.
BookingProceeds(r, ok, pc) ==
    /\ IF ok THEN /\ breq' = [breq EXCEPT ![r].pc = pc]
                  /\ UNCHANGED bmissed
             ELSE BookingReturns(r)
    /\ UNCHANGED <<booking, braced>>

\* r wrote booking b and returned; b is news to every other guarding read.
BookingWritten(r, b) ==
    /\ breq' = [breq EXCEPT ![r] = BookingIdle]
    /\ braced' = braced \cup ({b} \X (bmissed[r] \ {b}))
    /\ bmissed' = [q \in BookingRequests |->
                     IF q # r /\ BookingGuardRead(q) THEN bmissed[q] \cup {b}
                                                     ELSE {}]

\* booking.findFirst by id and tenant, in a state where the row is found.
FindBooking(b, t) == b \in DOMAIN booking /\ booking[b].tenant = t

\* The row's remaining life: neither completed nor cancelled.
OpenBooking(b) == booking[b].status \notin {"COMPLETED", "CANCELLED"}

\* Bound: a create is accepted only while an id is left for every create.
RoomForBooking ==
    Cardinality(DOMAIN booking)
      + Cardinality({r \in BookingRequests : breq[r].op = "create"})
      < Cardinality(BookingIds)

----------------------------------------------------------------------------
(***************************************************************************)
(* First steps.  A request that its first step rejects leaves no trace, so *)
(* only the accepted ones are actions.                                     *)
(***************************************************************************)

\* create: the date check, before any query.
CreateBooking(r) ==
    /\ breq[r] = BookingIdle
    /\ RoomForBooking
    /\ \E t \in Tenants, dto \in CreateBookingDto :
         /\ dto.end > dto.start
         /\ breq' = [breq EXCEPT ![r] =
              [pc |-> "bookings", op |-> "create", tenant |-> t, id |-> None,
               vehicle |-> dto.vehicle, driver |-> dto.driver,
               start |-> dto.start, end |-> dto.end,
               askDriver |-> dto.driver # None]]
    /\ UNCHANGED <<booking, bmissed, braced>>

\* confirm and cancel: read the booking and test its status.
StatusRequest(r, op, b) ==
    breq' = [breq EXCEPT ![r] =
       [pc |-> "write", op |-> op, tenant |-> booking[b].tenant, id |-> b,
        vehicle |-> Absent, driver |-> Absent,
        start |-> booking[b].start, end |-> booking[b].end,
        askDriver |-> FALSE]]

\* Mutant: the status of the booking is not tested.
ConfirmAnyBooking(r) ==
    /\ breq[r] = BookingIdle
    /\ \E t \in Tenants, b \in BookingIds :
         FindBooking(b, t) /\ StatusRequest(r, "confirm", b)
    /\ UNCHANGED <<booking, bmissed, braced>>

ConfirmBooking(r) ==
    /\ breq[r] = BookingIdle
    /\ \E t \in Tenants, b \in BookingIds :
         /\ FindBooking(b, t)
         /\ booking[b].status = "PENDING"
         /\ StatusRequest(r, "confirm", b)
    /\ UNCHANGED <<booking, bmissed, braced>>

CancelBooking(r) ==
    /\ breq[r] = BookingIdle
    /\ \E t \in Tenants, b \in BookingIds :
         /\ FindBooking(b, t)
         /\ OpenBooking(b)
         /\ StatusRequest(r, "cancel", b)
    /\ UNCHANGED <<booking, bmissed, braced>>

\* assign: read the booking; its vehicle and driver decide, now, which
\* availability checks will run before the write.
AssignRequest(t, b, dto) ==
    LET askVehicle == dto.vehicle \notin {Absent, booking[b].vehicle}
        askDriver == dto.driver \notin {Absent, None, booking[b].driver}
    IN  [pc |-> IF askVehicle THEN "bookings"
                ELSE IF askDriver THEN "assignments" ELSE "write",
         op |-> "assign", tenant |-> t, id |-> b,
         vehicle |-> dto.vehicle, driver |-> dto.driver,
         start |-> booking[b].start, end |-> booking[b].end,
         askDriver |-> askDriver]

AssignBooking(r) ==
    /\ breq[r] = BookingIdle
    /\ \E t \in Tenants, b \in BookingIds, dto \in AssignDriverVehicleDto :
         /\ FindBooking(b, t)
         /\ OpenBooking(b)
         /\ breq' = [breq EXCEPT ![r] = AssignRequest(t, b, dto)]
    /\ UNCHANGED <<booking, bmissed, braced>>

----------------------------------------------------------------------------
(***************************************************************************)
(* The availability checks, one query per step, for create and assign.     *)
(***************************************************************************)
CheckBookingConflict(r) ==
    LET q == breq[r] IN
    /\ q.pc = "bookings"
    /\ BookingProceeds(r, ~BookingConflict(q.vehicle, q.tenant, q.start, q.end),
                       "trips")

CheckTripConflict(r) ==
    LET q == breq[r] IN
    /\ q.pc = "trips"
    /\ BookingProceeds(r, ~VehicleTripConflict(q.vehicle, q.tenant, q.start, q.end),
                       "status")

CheckVehicleStatus(r) ==
    /\ breq[r].pc = "status"
    /\ BookingProceeds(r, ~UnderMaintenance(breq[r].vehicle), "maintenance")

CheckMaintenance(r) ==
    LET q == breq[r] IN
    /\ q.pc = "maintenance"
    /\ BookingProceeds(r, ~MaintenanceConflict(q.vehicle, q.tenant, q.start, q.end),
                       IF q.askDriver THEN "assignments" ELSE "write")

CheckAssignmentConflict(r) ==
    LET q == breq[r] IN
    /\ q.pc = "assignments"
    /\ BookingProceeds(r, ~AssignmentConflict(q.driver, q.start, q.end),
                       "driverTrips")

CheckDriverTrips(r) ==
    LET q == breq[r] IN
    /\ q.pc = "driverTrips"
    /\ BookingProceeds(r, ~DriverTripConflict(q.driver, q.tenant, q.start, q.end),
                       "write")

----------------------------------------------------------------------------
(***************************************************************************)
(* The writes.  None of them repeats in its WHERE what was read before.    *)
(***************************************************************************)
InsertBooking(r) ==
    LET q == breq[r] IN
    /\ q.pc = "write" /\ q.op = "create"
    /\ \E b \in BookingIds \ DOMAIN booking :
         /\ booking' = Insert(booking, b,
              [tenant |-> q.tenant, vehicle |-> q.vehicle, driver |-> q.driver,
               start |-> q.start, end |-> q.end, status |-> "PENDING"])
         /\ BookingWritten(r, b)

SetBookingStatus(r) ==
    LET q == breq[r] IN
    /\ q.pc = "write" /\ q.op \in {"confirm", "cancel"}
    /\ booking' = [booking EXCEPT ![q.id].status =
                     IF q.op = "confirm" THEN "CONFIRMED" ELSE "CANCELLED"]
    /\ BookingWritten(r, q.id)

\* Mutant: columns that the DTO leaves out are written too.
SetBookingAssigneesUnfiltered(r) ==
    LET q == breq[r] IN
    /\ q.pc = "write" /\ q.op = "assign"
    /\ booking' = [booking EXCEPT ![q.id].vehicle = q.vehicle,
                                  ![q.id].driver = q.driver]
    /\ BookingWritten(r, q.id)

\* Only the columns the DTO carries are written.
SetBookingAssignees(r) ==
    LET q == breq[r] IN
    /\ q.pc = "write" /\ q.op = "assign"
    /\ booking' = [booking EXCEPT
         ![q.id].vehicle = IF q.vehicle = Absent THEN @ ELSE q.vehicle,
         ![q.id].driver  = IF q.driver = Absent THEN @ ELSE q.driver]
    /\ BookingWritten(r, q.id)

\* The database refuses a query, or the process dies, before the write.
BookingRequestFails(r) ==
    /\ breq[r] # BookingIdle
    /\ BookingReturns(r)
    /\ UNCHANGED <<booking, braced>>

BookingStep(r) ==
    \/ CheckBookingConflict(r)
    \/ CheckTripConflict(r)
    \/ CheckVehicleStatus(r)
    \/ CheckMaintenance(r)
    \/ CheckAssignmentConflict(r)
    \/ CheckDriverTrips(r)
    \/ InsertBooking(r)
    \/ SetBookingStatus(r)
    \/ SetBookingAssignees(r)

BookingsNext ==
    \E r \in BookingRequests :
        \/ CreateBooking(r)
        \/ ConfirmBooking(r)
        \/ CancelBooking(r)
        \/ AssignBooking(r)
        \/ BookingStep(r)
        \/ BookingRequestFails(r)

----------------------------------------------------------------------------
(***************************************************************************)
(* Properties.                                                             *)
(***************************************************************************)

\* Two rows that hold the same vehicle of one tenant at one instant.
DoubleBooked(b, c) ==
    /\ b # c
    /\ booking[b].tenant = booking[c].tenant
    /\ booking[b].vehicle = booking[c].vehicle
    /\ ActiveBooking(booking[b]) /\ ActiveBooking(booking[c])
    /\ RangesOverlap(booking[b].start, booking[b].end,
                     booking[c].start, booking[c].end)

BookingsRaced(b, c) == <<b, c>> \in braced \/ <<c, b>> \in braced

\* checkVehicleAvailability keeps one tenant's active bookings of a vehicle
\* apart, through create, assign, confirm and cancel alike, unless one of the
\* two was written while a request on the other was between its availability
\* read and its write: the only way to a double booking is that race.
DoubleBookingOnlyByRace ==
    \A b, c \in DOMAIN booking : DoubleBooked(b, c) => BookingsRaced(b, c)

\* r's write gives booking b another status although b is cancelled.
RevivedBy(r, b) ==
    /\ breq[r] # BookingIdle /\ breq[r].id = b
    /\ breq'[r] = BookingIdle
    /\ b \in bmissed[r]

\* confirm() accepts PENDING bookings only, so a cancelled booking comes back
\* to life only when a confirm that had read it before the cancellation writes
\* after it.
RevivedOnlyByRace ==
    [][\A b \in DOMAIN booking :
          booking[b].status = "CANCELLED" /\ booking'[b].status # "CANCELLED"
            => \E r \in BookingRequests : RevivedBy(r, b)]_booking

\* assign() re-checks a vehicle only when it differs from the one it read, and
\* never the booking's tenant: every booking's vehicle is its tenant's own.
BookingsStayInTenant ==
    \A b \in DOMAIN booking : vehicle[booking[b].vehicle].tenant = booking[b].tenant

=============================================================================
