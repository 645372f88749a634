----------------------------- MODULE FleetTables -----------------------------
(***************************************************************************)
(* The rows of prisma/schema.prisma that booking, trip, assignment and     *)
(* availability logic reads and writes, shared by every component module.  *)
(*                                                                         *)
(* One variable per table.  Vehicles and drivers are registered in the     *)
(* initial state; the other tables start empty and are functions whose     *)
(* DOMAIN is the set of inserted ids.  Each awaited Prisma call is one     *)
(* atomic step of a request (PostgreSQL, READ COMMITTED), and so is each   *)
(* prisma.$transaction([...]).  No code sets deletedAt on a booking or a   *)
(* trip, so those rows have no such column here; names, contacts, notes    *)
(* and the remaining columns take part in no decision and are left out.    *)
(***************************************************************************)
EXTENDS Integers, FiniteSets

CONSTANTS
    Tenants,
    Vehicles,
    Drivers,        \* Driver.userId is unique and never updated, so a driver
                    \* also stands for the DRIVER user linked to it
    BookingIds,     \* bound: bookings that can ever be inserted
    TripIds,        \* bound: trips that can ever be inserted
    AssignmentIds,  \* bound: assignments that can ever be inserted
    Incomes,        \* bound: the values of Trip.income, which stands for the
                    \* four figures of a trip (income, tolls, police, distance)
    Days,           \* bound: the instants that dates range over
    Clock,          \* bound: the instants the server's clock can show
    None,           \* SQL NULL
    Absent          \* undefined: a field the DTO does not carry

ASSUME DaysAssumption == Days \subseteq Int /\ Clock \subseteq Days

ASSUME IncomesAssumption == 0 \in Incomes

ASSUME SentinelAssumption ==
    /\ None # Absent
    /\ {None, Absent} \cap
         (Tenants \cup Vehicles \cup Drivers \cup BookingIds \cup TripIds
            \cup AssignmentIds \cup Days \cup Incomes) = {}

\* A vehicle's id and a driver's id are never the same.
ASSUME FleetIdsAssumption == Vehicles \cap Drivers = {}

VARIABLES
    vehicle,        \* vehicle[v], v \in Vehicles
    driver,         \* driver[d], d \in Drivers
    booking,        \* booking[b], b \in DOMAIN booking
    trip,           \* trip[t], t \in DOMAIN trip
    assignment,     \* assignment[a], a \in DOMAIN assignment
    maintenanceLog, \* the set of logs, each a vehicle and a date
    now,            \* the server's clock, read by new Date()
    overridden      \* history: the vehicles and drivers whose status or
                    \* isAvailable was last written by an administrator's
                    \* update() and not by a trip

(***************************************************************************)
(* Enumerations and rows.                                                  *)
(***************************************************************************)
VehicleStatus == {"AVAILABLE", "ON_TRIP", "MAINTENANCE", "INACTIVE"}

BookingStatus == {"PENDING", "CONFIRMED", "COMPLETED", "CANCELLED"}

Vehicle == [tenant : Tenants, status : VehicleStatus, deleted : BOOLEAN]

Driver == [tenant : Tenants, isAvailable : BOOLEAN, deleted : BOOLEAN]

Booking == [tenant : Tenants, vehicle : Vehicles, driver : Drivers \cup {None},
            start : Days, end : Days, status : BookingStatus]

Trip == [tenant : Tenants, vehicle : Vehicles, driver : Drivers,
         start : Days, end : Days \cup {None}, income : Incomes]

Assignment == [vehicle : Vehicles, driver : Drivers,
               start : Days, end : Days \cup {None}, deleted : BOOLEAN]

MaintenanceLog == [tenant : Tenants, vehicle : Vehicles, date : Days]

(***************************************************************************)
(* INSERT of a row under a fresh id.                                       *)
(***************************************************************************)
Insert(table, id, row) ==
    [i \in DOMAIN table \cup {id} |-> IF i = id THEN row ELSE table[i]]

IsTable(table, ids, rows) ==
    /\ DOMAIN table \subseteq ids
    /\ table \in [DOMAIN table -> rows]

TablesTypeOK ==
    /\ vehicle \in [Vehicles -> Vehicle]
    /\ driver \in [Drivers -> Driver]
    /\ IsTable(booking, BookingIds, Booking)
    /\ IsTable(trip, TripIds, Trip)
    /\ IsTable(assignment, AssignmentIds, Assignment)
    /\ maintenanceLog \subseteq MaintenanceLog
    /\ now \in Clock
    /\ overridden \subseteq Vehicles \cup Drivers

\* A freshly registered fleet: Vehicle.status and Driver.isAvailable take the
\* values their create() gives them.
RegisteredFleet ==
    /\ vehicle \in [Vehicles -> [tenant : Tenants, status : {"AVAILABLE"},
                                 deleted : {FALSE}]]
    /\ driver \in [Drivers -> [tenant : Tenants, isAvailable : {TRUE},
                               deleted : {FALSE}]]
    /\ overridden = {}
    /\ now \in Clock
    /\ \A d \in Clock : now <= d

\* Nothing is booked, driven, assigned or serviced yet.
TablesInit ==
    /\ RegisteredFleet
    /\ booking = <<>>
    /\ trip = <<>>
    /\ assignment = <<>>
    /\ maintenanceLog = {}

=============================================================================
