------------------------------ MODULE Scheduling ------------------------------
(***************************************************************************)
(* The queries of SchedulingService.  checkVehicleAvailability runs four   *)
(* of them one after the other, checkDriverAvailability two; each query is *)
(* an await of its own, so a request that calls a check takes one step per *)
(* query and other requests may write between them.                        *)
(*                                                                         *)
(* The service collects the reasons of all its queries and its caller      *)
(* rejects when there is one.  The queries have no effect, so rejecting at *)
(* the first query that finds a conflict leaves the same database.         *)
(***************************************************************************)
EXTENDS FleetTables

\* A booking that holds its vehicle.
ActiveBooking(row) == row.status \in {"PENDING", "CONFIRMED"}

\* [s1, e1) and [s2, e2) share an instant.
RangesOverlap(s1, e1, s2, e2) == s1 < e2 /\ e1 > s2

\* The same with a nullable end on the first range.
OpenRangeOverlaps(s1, e1, s2, e2) == s1 < e2 /\ (e1 = None \/ e1 > s2)

(***************************************************************************)
(* checkVehicleAvailability(vehicleId, tenantId, startDate, endDate)       *)
(***************************************************************************)
\* Mutant: only confirmed bookings hold their vehicle.
BookingConflictConfirmedOnly(v, t, s, e) ==
    \E b \in DOMAIN booking :
        /\ booking[b].vehicle = v
        /\ booking[b].tenant = t
        /\ booking[b].status = "CONFIRMED"
        /\ RangesOverlap(booking[b].start, booking[b].end, s, e)

BookingConflict(v, t, s, e) ==
    \E b \in DOMAIN booking :
        /\ booking[b].vehicle = v
        /\ booking[b].tenant = t
        /\ ActiveBooking(booking[b])
        /\ RangesOverlap(booking[b].start, booking[b].end, s, e)

VehicleTripConflict(v, t, s, e) ==
    \E x \in DOMAIN trip :
        /\ trip[x].vehicle = v
        /\ trip[x].tenant = t
        /\ OpenRangeOverlaps(trip[x].start, trip[x].end, s, e)

\* vehicle.findUnique by id alone: neither the tenant nor deletedAt is looked at.
UnderMaintenance(v) == vehicle[v].status = "MAINTENANCE"

\* Both bounds are included here, unlike the ranges above.
MaintenanceConflict(v, t, s, e) ==
    \E m \in maintenanceLog :
        /\ m.vehicle = v
        /\ m.tenant = t
        /\ s <= m.date /\ m.date <= e

(***************************************************************************)
(* checkDriverAvailability(driverId, tenantId, startDate, endDate)         *)
(***************************************************************************)
AssignmentConflict(d, s, e) ==
    \E a \in DOMAIN assignment :
        /\ assignment[a].driver = d
        /\ ~assignment[a].deleted
        /\ OpenRangeOverlaps(assignment[a].start, assignment[a].end, s, e)

DriverTripConflict(d, t, s, e) ==
    \E x \in DOMAIN trip :
        /\ trip[x].driver = d
        /\ trip[x].tenant = t
        /\ OpenRangeOverlaps(trip[x].start, trip[x].end, s, e)

=============================================================================
