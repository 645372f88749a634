------------------------------ MODULE FleetProofs ------------------------------
(***************************************************************************)
(* Theorems of the fleet, for every number of tenants, vehicles, drivers,  *)
(* rows and requests in flight.  FleetInv is the conjunction of the        *)
(* components' invariants; each component's own steps preserve its part    *)
(* (BookingsProofs, TripsProofs, AssignmentsProofs and below for the       *)
(* registry), and what the others do to the tables it reads is harmless.   *)
(***************************************************************************)
EXTENDS Fleet, BookingsProofs, TripsProofs, AssignmentsProofs

\* What an in-flight registry request holds.
RegistryRequestOK(r) ==
    LET q == greq[r] IN
    /\ q.op \in {"setStatus", "removeVehicle", "log"} => q.vehicle \in Vehicles
    /\ q.op \in {"setAvailable", "removeDriver"} => q.driver \in Drivers
    /\ q.op = "setStatus" => q.status \in VehicleStatus
    /\ q.op = "log" => q.date \in Days

RegistryInv ==
    /\ maintenanceLog \subseteq MaintenanceLog
    /\ RegistryTypeOK
    /\ \A r \in RegistryRequests : greq[r] # RegistryIdle => RegistryRequestOK(r)

FleetInv ==
    /\ BookingsInv
    /\ TripsInv
    /\ AssignmentsInv
    /\ RegistryInv

\* What an administrator's write to the registered fleet may do.
AdministratorWrite ==
    /\ RegisteredTypeOK'
    /\ TenantsKept
    /\ \A v \in Vehicles : v \notin overridden' =>
           v \notin overridden /\ vehicle'[v].status = vehicle[v].status
    /\ \A d \in Drivers : d \notin overridden' =>
           d \notin overridden /\ driver'[d].isAvailable = driver[d].isAvailable

----------------------------------------------------------------------------
(***************************************************************************)
(* The registry.                                                           *)
(***************************************************************************)
\* A request that returns leaves the maintenance logs it found or added to.
LEMMA RegistryReturnsInv ==
    ASSUME RegistryInv, NEW r \in RegistryRequests, RegistryReturns(r),
           maintenanceLog' \subseteq MaintenanceLog
    PROVE  RegistryInv'
<1>1. /\ DOMAIN greq' = RegistryRequests
      /\ greq'[r] = RegistryIdle
      /\ \A x \in RegistryRequests : x # r => greq'[x] = greq[x]
  BY DEF RegistryInv, RegistryTypeOK, RegistryReturns
<1> QED
  BY <1>1 DEF RegistryInv, RegistryTypeOK, RegistryRequestOK

\* A request that passed its lookup holds the vehicle or driver it found.
LEMMA RegistryAcceptedInv ==
    ASSUME RegistryInv, NEW r \in RegistryRequests, NEW q \in RegistryRequest,
           greq' = [greq EXCEPT ![r] = q], UNCHANGED maintenanceLog,
           q.op \in {"setStatus", "removeVehicle", "log"} => q.vehicle \in Vehicles,
           q.op \in {"setAvailable", "removeDriver"} => q.driver \in Drivers,
           q.op = "setStatus" => q.status \in VehicleStatus,
           q.op = "log" => q.date \in Days
    PROVE  RegistryInv'
<1>1. /\ DOMAIN greq' = RegistryRequests
      /\ greq'[r] = q
      /\ \A x \in RegistryRequests : x # r => greq'[x] = greq[x]
  BY DEF RegistryInv, RegistryTypeOK
<1> QED
  BY <1>1 DEF RegistryInv, RegistryTypeOK, RegistryRequestOK

\* VehiclesService's and MaintenanceService's requests.
LEMMA VehicleRequestInv ==
    ASSUME RegistryInv, NEW r \in RegistryRequests, NEW op, NEW v \in Vehicles,
           NEW status \in VehicleStatus \cup {Absent}, NEW date \in Days \cup {None},
           VehicleRequest(r, op, v, status, date),
           \/ op = "setStatus" /\ status \in VehicleStatus
           \/ op = "removeVehicle"
           \/ op = "log" /\ date \in Days
    PROVE  RegistryInv'
<1> DEFINE q == [op |-> op, vehicle |-> v, driver |-> None, status |-> status,
                 isAvailable |-> FALSE, date |-> date]
<1>1. q \in RegistryRequest
  BY DEF RegistryRequest
<1> QED
  BY <1>1, RegistryAcceptedInv DEF VehicleRequest

\* DriversService's requests.
LEMMA DriverRequestInv ==
    ASSUME RegistryInv, NEW r \in RegistryRequests,
           NEW op \in {"setAvailable", "removeDriver"}, NEW d \in Drivers,
           NEW isAvailable \in BOOLEAN, DriverRequest(r, op, d, isAvailable)
    PROVE  RegistryInv'
<1> DEFINE q == [op |-> op, vehicle |-> None, driver |-> d, status |-> Absent,
                 isAvailable |-> isAvailable, date |-> None]
<1>1. q \in RegistryRequest
  BY DEF RegistryRequest
<1> QED
  BY <1>1, RegistryAcceptedInv DEF DriverRequest

\* Each administrator's write keeps the tables well typed and records which
\* vehicle's status or driver's isAvailable it overrode.
LEMMA RegistryStepInv ==
    ASSUME RegistryInv, RegisteredTypeOK, NEW r \in RegistryRequests,
           RegistryStep(r)
    PROVE  RegistryInv' /\ AdministratorWrite
<1> DEFINE q == greq[r]
<1>1. q \in RegistryRequest /\ RegistryRequestOK(r) /\ RegistryReturns(r)
  BY DEF RegistryStep, WriteVehicleStatus, DeleteVehicle, WriteDriverAvailable,
         DeleteDriver, InsertMaintenanceLog, RegistryIdle, RegistryInv,
         RegistryTypeOK
<1>2. maintenanceLog \subseteq MaintenanceLog
  BY DEF RegistryInv
<1>3. CASE WriteVehicleStatus(r)
  <2>1. q.vehicle \in Vehicles /\ q.status \in VehicleStatus
    BY <1>1, <1>3 DEF WriteVehicleStatus, RegistryRequestOK
  <2>2. vehicle[q.vehicle] \in Vehicle
    BY <2>1 DEF RegisteredTypeOK
  <2>3. [vehicle[q.vehicle] EXCEPT !.status = q.status] \in Vehicle
    BY <2>1, <2>2 DEF Vehicle
  <2>4. AdministratorWrite
    BY <1>3, <2>1, <2>2, <2>3
       DEF WriteVehicleStatus, AdministratorWrite, RegisteredTypeOK, TenantsKept, Vehicle
  <2> QED
    BY <1>1, <1>2, <1>3, <2>4, RegistryReturnsInv DEF WriteVehicleStatus
<1>4. CASE DeleteVehicle(r)
  <2>1. q.vehicle \in Vehicles
    BY <1>1, <1>4 DEF DeleteVehicle, RegistryRequestOK
  <2>2. vehicle[q.vehicle] \in Vehicle
    BY <2>1 DEF RegisteredTypeOK
  <2>3. [vehicle[q.vehicle] EXCEPT !.deleted = TRUE] \in Vehicle
    BY <2>2 DEF Vehicle
  <2>4. AdministratorWrite
    BY <1>4, <2>1, <2>2, <2>3
       DEF DeleteVehicle, AdministratorWrite, RegisteredTypeOK, TenantsKept, Vehicle
  <2> QED
    BY <1>1, <1>2, <1>4, <2>4, RegistryReturnsInv DEF DeleteVehicle
<1>5. CASE WriteDriverAvailable(r)
  <2>1. q.driver \in Drivers /\ q.isAvailable \in BOOLEAN
    BY <1>1, <1>5 DEF WriteDriverAvailable, RegistryRequestOK, RegistryRequest
  <2>2. driver[q.driver] \in Driver
    BY <2>1 DEF RegisteredTypeOK
  <2>3. [driver[q.driver] EXCEPT !.isAvailable = q.isAvailable] \in Driver
    BY <2>1, <2>2 DEF Driver
  <2>4. AdministratorWrite
    BY <1>5, <2>1, <2>2, <2>3
       DEF WriteDriverAvailable, AdministratorWrite, RegisteredTypeOK, TenantsKept, Driver
  <2> QED
    BY <1>1, <1>2, <1>5, <2>4, RegistryReturnsInv DEF WriteDriverAvailable
<1>6. CASE DeleteDriver(r)
  <2>1. q.driver \in Drivers
    BY <1>1, <1>6 DEF DeleteDriver, RegistryRequestOK
  <2>2. driver[q.driver] \in Driver
    BY <2>1 DEF RegisteredTypeOK
  <2>3. [driver[q.driver] EXCEPT !.deleted = TRUE] \in Driver
    BY <2>2 DEF Driver
  <2>4. AdministratorWrite
    BY <1>6, <2>1, <2>2, <2>3
       DEF DeleteDriver, AdministratorWrite, RegisteredTypeOK, TenantsKept, Driver
  <2> QED
    BY <1>1, <1>2, <1>6, <2>4, RegistryReturnsInv DEF DeleteDriver
<1>7. CASE InsertMaintenanceLog(r)
  <2>1. q.vehicle \in Vehicles /\ q.date \in Days
    BY <1>1, <1>7 DEF InsertMaintenanceLog, RegistryRequestOK
  <2>2. vehicle[q.vehicle].tenant \in Tenants
    BY <2>1 DEF RegisteredTypeOK, Vehicle
  <2>3. maintenanceLog' \subseteq MaintenanceLog
    BY <1>2, <1>7, <2>1, <2>2 DEF InsertMaintenanceLog, MaintenanceLog
  <2>4. AdministratorWrite
    BY <1>7 DEF InsertMaintenanceLog, AdministratorWrite, RegisteredTypeOK, TenantsKept
  <2> QED
    BY <1>1, <2>3, <2>4, RegistryReturnsInv
<1> QED
  BY <1>3, <1>4, <1>5, <1>6, <1>7 DEF RegistryStep

\* Every step of the registry is an administrator's write or writes nothing.
LEMMA RegistryNextInv ==
    ASSUME RegistryInv, RegisteredTypeOK, RegistryNext
    PROVE  RegistryInv' /\ AdministratorWrite
<1>1. ASSUME UNCHANGED <<vehicle, driver, overridden>>
      PROVE  AdministratorWrite
  BY <1>1 DEF AdministratorWrite, RegisteredTypeOK, TenantsKept
<1> SUFFICES ASSUME NEW r \in RegistryRequests,
                    \/ UpdateVehicle(r) \/ RemoveVehicle(r)
                    \/ CreateMaintenanceLog(r) \/ UpdateDriver(r)
                    \/ RemoveDriver(r) \/ RegistryStep(r)
                    \/ RegistryRequestFails(r)
             PROVE  RegistryInv' /\ AdministratorWrite
  BY DEF RegistryNext
<1>2. ASSUME NEW op, NEW v, NEW status, NEW date,
             VehicleRequest(r, op, v, status, date)
      PROVE  AdministratorWrite
  BY <1>1, <1>2 DEF VehicleRequest
<1>3. CASE UpdateVehicle(r)
  <2>1. PICK v \in Vehicles, status \in VehicleStatus :
           VehicleRequest(r, "setStatus", v, status, None)
    BY <1>3 DEF UpdateVehicle
  <2> QED
    BY <1>2, <2>1, VehicleRequestInv
<1>4. CASE RemoveVehicle(r)
  <2>1. PICK v \in Vehicles : VehicleRequest(r, "removeVehicle", v, Absent, None)
    BY <1>4 DEF RemoveVehicle
  <2> QED
    BY <1>2, <2>1, VehicleRequestInv
<1>5. CASE CreateMaintenanceLog(r)
  <2>1. PICK v \in Vehicles, date \in Days :
           VehicleRequest(r, "log", v, Absent, date)
    BY <1>5 DEF CreateMaintenanceLog
  <2> QED
    BY <1>2, <2>1, VehicleRequestInv
<1>6. CASE UpdateDriver(r)
  BY <1>1, <1>6, DriverRequestInv DEF UpdateDriver, DriverRequest
<1>7. CASE RemoveDriver(r)
  BY <1>1, <1>7, DriverRequestInv DEF RemoveDriver, DriverRequest
<1>8. CASE RegistryStep(r)
  BY <1>8, RegistryStepInv
<1>9. CASE RegistryRequestFails(r)
  BY <1>1, <1>9, RegistryReturnsInv DEF RegistryRequestFails, RegistryInv
<1> QED
  BY <1>3, <1>4, <1>5, <1>6, <1>7, <1>8, <1>9

----------------------------------------------------------------------------
(***************************************************************************)
(* The fleet.                                                              *)
(***************************************************************************)

\* A trip changes a vehicle's status and a driver's isAvailable, nothing else.
LEMMA TripsKeepTenants ==
    ASSUME TripsInv, TripsNext
    PROVE  TenantsKept
<1>1. PICK r \in TripRequests : \/ StartTrip(r) \/ EndTrip(r) \/ UpdateTrip(r)
                                \/ TripStep(r) \/ TripRequestFails(r)
  BY DEF TripsNext
<1>2. CASE UNCHANGED <<vehicle, driver>>
  BY <1>2 DEF TenantsKept
<1>3. ASSUME NEW v, NEW status, NEW d, NEW isAvailable,
             SetAvailability(v, status, d, isAvailable)
      PROVE  TenantsKept
  BY <1>3 DEF SetAvailability, TenantsKept, TripsInv, TripsTypeInv,
              RegisteredTypeOK, Vehicle, Driver
<1>4. \/ UNCHANGED <<vehicle, driver>>
      \/ CommitStart(r) \/ CommitEnd(r)
  BY <1>1 DEF StartTrip, EndTrip, UpdateTrip, TripStep, TripRequestFails,
              ReadClock, CheckAssignment, CheckVehicleAvailable, CheckActiveTrip,
              TripProceeds, CheckOwnTrip, CommitUpdate
<1> QED
  BY <1>2, <1>3, <1>4 DEF CommitStart, CommitEnd

\* The freshly registered fleet satisfies every component's invariant.
LEMMA FleetInvInit ==
    Init => FleetInv
<1> SUFFICES ASSUME Init
             PROVE  FleetInv
  OBVIOUS
<1>1. RegistryInv
  BY DEF Init, TablesInit, RegistryInit, RegistryInv, RegistryTypeOK
<1> QED
  BY <1>1, BookingsInvInit, TripsInvInit, AssignmentsInvInit
     DEF Init, TablesInit, FleetInv

\* The inductive step: every action of every component preserves FleetInv.
LEMMA FleetInvNext ==
    FleetInv /\ [Next]_vars => FleetInv'
<1> SUFFICES ASSUME FleetInv, [Next]_vars
             PROVE  FleetInv'
  OBVIOUS
<1>1. BookingsInv /\ TripsInv /\ AssignmentsInv /\ RegistryInv
      /\ RegisteredTypeOK /\ now \in Int
  BY DaysAssumption DEF FleetInv, TripsInv, TripsTypeInv
<1>2. ASSUME UNCHANGED <<maintenanceLog, greq>>
      PROVE  RegistryInv'
  BY <1>1, <1>2 DEF RegistryInv, RegistryTypeOK, RegistryRequestOK
<1>3. ASSUME UNCHANGED <<vehicle, driver, overridden>>
      PROVE  AdministratorWrite
  BY <1>1, <1>3 DEF AdministratorWrite, RegisteredTypeOK, TenantsKept
<1>4. ASSUME AdministratorWrite, UNCHANGED tripVars, now' \in Clock, now <= now'
      PROVE  TripsInv'
  BY <1>1, <1>4, TripsUnchangedInv DEF AdministratorWrite
<1>5. ASSUME AdministratorWrite \/ TenantsKept, UNCHANGED assignmentVars
      PROVE  AssignmentsInv'
  BY <1>1, <1>5, AssignmentsUnchangedInv DEF AdministratorWrite, TenantsKept
<1>6. now \in Clock /\ now <= now
  BY <1>1 DEF TripsInv, TripsTypeInv
<1>7. CASE BookingsAct
  BY <1>1, <1>2, <1>3, <1>4, <1>5, <1>6, <1>7, BookingsNextInv
     DEF BookingsAct, FleetInv, registryVars
<1>8. CASE TripsAct
  BY <1>1, <1>2, <1>5, <1>8, TripsNextInv, TripsKeepTenants, BookingsUnchangedInv
     DEF TripsAct, FleetInv
<1>9. CASE AssignmentsAct
  BY <1>1, <1>2, <1>3, <1>4, <1>6, <1>9, AssignmentsNextInv, BookingsUnchangedInv
     DEF AssignmentsAct, FleetInv, registryVars
<1>10. CASE RegistryAct
  BY <1>1, <1>4, <1>5, <1>6, <1>10, RegistryNextInv, BookingsUnchangedInv
     DEF RegistryAct, FleetInv
<1>11. CASE Tick
  <2>1. now' \in Clock /\ now <= now'
    BY <1>1, <1>11, DaysAssumption DEF Tick
  <2> QED
    BY <1>1, <1>2, <1>3, <1>4, <1>5, <1>11, <2>1, BookingsUnchangedInv
       DEF Tick, FleetInv, registryVars
<1>12. CASE UNCHANGED vars
  <2>1. /\ UNCHANGED bookingVars /\ UNCHANGED tripVars /\ UNCHANGED assignmentVars
        /\ UNCHANGED <<vehicle, driver, overridden>> /\ UNCHANGED <<maintenanceLog, greq>>
        /\ now' = now
    BY <1>12 DEF vars, bookingVars, tripVars, assignmentVars
  <2> QED
    BY <1>1, <1>2, <1>3, <1>4, <1>5, <1>6, <2>1, BookingsUnchangedInv DEF FleetInv
<1> QED
  BY <1>7, <1>8, <1>9, <1>10, <1>11, <1>12 DEF Next

\* The components' invariants hold together in every reachable state.
THEOREM FleetInvariant == Spec => []FleetInv
BY FleetInvInit, FleetInvNext, PTL DEF Spec

----------------------------------------------------------------------------
(***************************************************************************)
(* Races.  FleetRaceInv adds what each request knows of the rows it read   *)
(* and of those written since; it is inductive relative to FleetInv.       *)
(***************************************************************************)

\* Some assignment explains that driver d has vehicle v at instant at.
Backed(v, d, at) ==
    \E a \in DOMAIN assignment :
        \/ a \in edited
        \/ /\ assignment[a].vehicle = v /\ assignment[a].driver = d
           /\ assignment[a].start <= at
           /\ assignment[a].end = None \/ assignment[a].end >= at

\* A startTrip past its assignment query holds what an assignment explains.
StartBacked(r) ==
    LET q == treq[r] IN
    q.op = "start" /\ q.pc \in {"vehicle", "activeTrip", "write"}
      => Backed(q.vehicle, q.driver, q.at)

BackedInv ==
    /\ \A t \in DOMAIN trip : Backed(trip[t].vehicle, trip[t].driver, trip[t].start)
    /\ \A r \in TripRequests : StartBacked(r)

FleetRaceInv ==
    /\ TripsRaceInv
    /\ BackedInv
    /\ StatusInv
    /\ DatesInv

\* A step that keeps the assignments' rows keeps every explanation.
LEMMA BackedStays ==
    ASSUME edited \subseteq edited',
           \A a \in DOMAIN assignment :
                /\ a \in DOMAIN assignment'
                /\ \/ a \in edited'
                   \/ /\ assignment'[a].vehicle = assignment[a].vehicle
                      /\ assignment'[a].driver = assignment[a].driver
                      /\ assignment'[a].start = assignment[a].start
                      /\ assignment'[a].end = assignment[a].end,
           UNCHANGED <<trip, treq>>, BackedInv
    PROVE  BackedInv'
<1>1. ASSUME NEW v, NEW d, NEW at, Backed(v, d, at)
      PROVE  \E a \in DOMAIN assignment' :
                \/ a \in edited'
                \/ /\ assignment'[a].vehicle = v /\ assignment'[a].driver = d
                   /\ assignment'[a].start <= at
                   /\ assignment'[a].end = None \/ assignment'[a].end >= at
  <2>1. PICK a \in DOMAIN assignment :
          \/ a \in edited
          \/ /\ assignment[a].vehicle = v /\ assignment[a].driver = d
             /\ assignment[a].start <= at
             /\ assignment[a].end = None \/ assignment[a].end >= at
    BY <1>1 DEF Backed
  <2> QED
    BY <2>1
<1> QED
  BY <1>1 DEF BackedInv, StartBacked, Backed

\* The trip queries move a request past the assignment query only when it found
\* an assignment.
LEMMA TripProceedsBacked ==
    ASSUME TripsInv, BackedInv, NEW r \in TripRequests, NEW ok, NEW pc,
           treq[r] # TripIdle, TripProceeds(r, ok, pc), UNCHANGED <<assignment, edited>>,
           ok /\ treq[r].op = "start" =>
               Backed(treq[r].vehicle, treq[r].driver, treq[r].at)
    PROVE  BackedInv'
<1>1. /\ treq[r] \in TripRequest /\ DOMAIN treq = TripRequests
      /\ UNCHANGED trip
  BY DEF TripsInv, TripsTypeInv, TripsTypeOK, TripProceeds
<1>2. \A x \in TripRequests : x # r => treq'[x] = treq[x]
  BY <1>1 DEF TripProceeds, TripReturns
<1>3. StartBacked(r)'
  <2>1. CASE ~ok
    BY <1>1, <2>1 DEF TripProceeds, TripReturns, StartBacked, TripIdle
  <2>2. CASE ok
    <3>1. treq'[r] = [treq[r] EXCEPT !.pc = pc]
      BY <1>1, <2>2 DEF TripProceeds
    <3>2. /\ treq'[r].op = treq[r].op /\ treq'[r].vehicle = treq[r].vehicle
          /\ treq'[r].driver = treq[r].driver /\ treq'[r].at = treq[r].at
      BY <1>1, <3>1 DEF TripRequest
    <3> QED
      BY <2>2, <3>2 DEF StartBacked, Backed
  <2> QED
    BY <2>1, <2>2
<1> QED
  BY <1>1, <1>2, <1>3 DEF BackedInv, StartBacked, Backed

\* A request that holds nothing an assignment has to explain.
LEMMA TripFreshBacked ==
    ASSUME BackedInv, NEW r \in TripRequests, UNCHANGED <<trip, assignment, edited>>,
           \A x \in TripRequests : x # r => treq'[x] = treq[x],
           treq'[r].op = "start" => treq'[r].pc \notin {"vehicle", "activeTrip", "write"}
    PROVE  BackedInv'
BY DEF BackedInv, StartBacked, Backed

\* A write of a trip that is explained already.
LEMMA TripWriteBacked ==
    ASSUME TripsInv, BackedInv, NEW r \in TripRequests, NEW t, TripWrite(r, t),
           UNCHANGED <<assignment, edited>>,
           t \notin DOMAIN trip =>
               Backed(trip'[t].vehicle, trip'[t].driver, trip'[t].start)
    PROVE  BackedInv'
<1>1. /\ treq'[r] = TripIdle
      /\ \A x \in TripRequests : x # r => treq'[x] = treq[x]
  BY DEF TripWrite, TripsInv, TripsTypeInv, TripsTypeOK
<1>2. \A x \in TripRequests : StartBacked(x)'
  BY <1>1 DEF BackedInv, StartBacked, Backed, TripIdle
<1>3. ASSUME NEW u \in DOMAIN trip'
      PROVE  Backed(trip[u].vehicle, trip[u].driver, trip[u].start)'
  <2>1. Backed(trip'[u].vehicle, trip'[u].driver, trip'[u].start)
    BY DEF BackedInv, TripWrite
  <2> QED
    BY <2>1 DEF Backed
<1> QED
  BY <1>2, <1>3 DEF BackedInv

\* Every step of TripsService leaves its trips explained.
LEMMA TripsNextBacked ==
    ASSUME TripsInv, BackedInv, TripsNext, UNCHANGED <<assignment, edited>>
    PROVE  BackedInv'
<1> PICK r \in TripRequests :
         \/ StartTrip(r) \/ EndTrip(r) \/ UpdateTrip(r)
         \/ TripStep(r) \/ TripRequestFails(r)
  BY DEF TripsNext
<1>1. CASE StartTrip(r) \/ EndTrip(r) \/ UpdateTrip(r)
  <2>1. UNCHANGED trip /\ \A x \in TripRequests : x # r => treq'[x] = treq[x]
    BY <1>1 DEF StartTrip, EndTrip, UpdateTrip, TripsInv, TripsTypeInv, TripsTypeOK
  <2>2. treq'[r].op = "start" => treq'[r].pc = "clock"
    BY <1>1 DEF StartTrip, EndTrip, UpdateTrip, TripsInv, TripsTypeInv, TripsTypeOK
  <2> QED
    BY <2>1, <2>2, TripFreshBacked
<1>2. CASE TripRequestFails(r)
  <2>1. /\ UNCHANGED trip /\ treq'[r] = TripIdle
        /\ \A x \in TripRequests : x # r => treq'[x] = treq[x]
    BY <1>2 DEF TripRequestFails, TripReturns, TripsInv, TripsTypeInv, TripsTypeOK
  <2> QED
    BY <2>1, TripFreshBacked DEF TripIdle
<1>3. CASE ReadClock(r)
  <2>1. treq[r] \in TripRequest /\ DOMAIN treq = TripRequests
    BY <1>3 DEF ReadClock, TripIdle, TripsInv, TripsTypeInv, TripsTypeOK
  <2>2. /\ UNCHANGED trip
        /\ \A x \in TripRequests : x # r => treq'[x] = treq[x]
        /\ treq'[r] = [treq[r] EXCEPT
             !.pc = IF treq[r].op = "start" THEN "assignment" ELSE "write",
             !.at = now]
    BY <1>3, <2>1 DEF ReadClock
  <2>3. treq'[r].op = "start" => treq'[r].pc = "assignment"
    BY <2>1, <2>2 DEF TripRequest
  <2> QED
    BY <2>2, <2>3, TripFreshBacked
<1>4. CASE CheckAssignment(r)
  <2> DEFINE q == treq[r]
             ok == \E a \in DOMAIN assignment :
                          /\ assignment[a].vehicle = q.vehicle
                          /\ assignment[a].driver = q.driver
                          /\ ~assignment[a].deleted
                          /\ assignment[a].start <= q.at
                          /\ \/ assignment[a].end = None
                             \/ assignment[a].end >= q.at
  <2>1. treq[r] # TripIdle
    BY <1>4 DEF CheckAssignment, TripIdle
  <2>2. TripProceeds(r, ok, "vehicle")
    BY <1>4, Zenon DEF CheckAssignment
  <2>3. ok => Backed(q.vehicle, q.driver, q.at)
    BY DEF Backed
  <2> HIDE DEF ok
  <2> QED
    BY <2>1, <2>2, <2>3, TripProceedsBacked
<1>5. CASE CheckVehicleAvailable(r) \/ CheckActiveTrip(r) \/ CheckOwnTrip(r)
  <2>1. treq[r] # TripIdle /\ treq[r].pc \in {"vehicle", "activeTrip", "ownTrip"}
    <3>1. treq[r].pc \in {"vehicle", "activeTrip", "ownTrip"}
      BY <1>5, Zenon DEF CheckVehicleAvailable, CheckActiveTrip, CheckOwnTrip
    <3> QED
      BY <3>1 DEF TripIdle
  <2>2. PICK ok, pc : TripProceeds(r, ok, pc)
    <3>1. CASE CheckVehicleAvailable(r)
      BY <3>1 DEF CheckVehicleAvailable
    <3>2. CASE CheckActiveTrip(r)
      BY <3>2 DEF CheckActiveTrip
    <3>3. CASE CheckOwnTrip(r)
      BY <3>3 DEF CheckOwnTrip
    <3> QED
      BY <1>5, <3>1, <3>2, <3>3
  <2>3. treq[r].op = "start" => Backed(treq[r].vehicle, treq[r].driver, treq[r].at)
    <3>1. treq[r].pc = "ownTrip" => treq[r].op = "end"
      BY <2>1 DEF TripsInv, TripsTypeInv, TripRequestOK
    <3> QED
      BY <2>1, <3>1 DEF BackedInv, StartBacked
  <2> QED
    BY <2>1, <2>2, <2>3, TripProceedsBacked
<1>6. CASE CommitStart(r)
  <2>1. PICK t \in TripIds \ DOMAIN trip :
          /\ TripWrite(r, t) /\ trip'[t].vehicle = treq[r].vehicle
          /\ trip'[t].driver = treq[r].driver /\ trip'[t].start = treq[r].at
    BY <1>6, CommitStartWrites
  <2>2. Backed(treq[r].vehicle, treq[r].driver, treq[r].at)
    BY <1>6 DEF CommitStart, BackedInv, StartBacked
  <2> QED
    BY <2>1, <2>2, TripWriteBacked
<1>7. CASE CommitEnd(r)
  BY <1>7, CommitEndWrites, TripWriteBacked
<1>8. CASE CommitUpdate(r)
  <2>1. /\ DOMAIN trip' = DOMAIN trip
        /\ \A u \in DOMAIN trip : /\ trip'[u].vehicle = trip[u].vehicle
                                  /\ trip'[u].driver = trip[u].driver
                                  /\ trip'[u].start = trip[u].start
    BY <1>8, CommitUpdateWrites
  <2>2. /\ treq'[r] = TripIdle
        /\ \A x \in TripRequests : x # r => treq'[x] = treq[x]
    BY <1>8 DEF CommitUpdate, TripReturns, TripsInv, TripsTypeInv, TripsTypeOK
  <2> QED
    BY <2>1, <2>2 DEF BackedInv, StartBacked, Backed, TripIdle
<1> QED
  BY <1>1, <1>2, <1>3, <1>4, <1>5, <1>6, <1>7, <1>8 DEF TripStep

\* Nobody has read or written anything yet.
LEMMA FleetRaceInvInit ==
    Init => FleetRaceInv
<1> SUFFICES ASSUME Init
             PROVE  FleetRaceInv
  OBVIOUS
<1>1. trip = <<>> /\ DOMAIN trip = {} /\ TripsInit /\ BookingsInit
  BY DEF Init, TablesInit
<1>2. TripsRaceInv
  BY <1>1, TripsRaceInvInit
<1>3. BackedInv
  BY <1>1 DEF BackedInv, StartBacked, TripsInit, TripIdle
<1>4. StatusInv
  BY <1>1 DEF StatusInv, BookingsInit
<1>5. DatesInv
  BY DEF DatesInv, Init, AssignmentsInit
<1> QED
  BY <1>2, <1>3, <1>4, <1>5 DEF FleetRaceInv

\* The inductive step, given that the components' invariants hold.
LEMMA FleetRaceInvNext ==
    FleetInv /\ FleetRaceInv /\ [Next]_vars => FleetRaceInv'
<1> SUFFICES ASSUME FleetInv, FleetRaceInv, [Next]_vars
             PROVE  FleetRaceInv'
  OBVIOUS
<1>1. /\ BookingsInv /\ BookingsTypeInv /\ TripsInv /\ AssignmentsInv
      /\ AssignmentsTypeInv /\ RegistryInv /\ RegisteredTypeOK
      /\ TripsRaceInv /\ BackedInv /\ StatusInv /\ DatesInv
  BY DEF FleetInv, FleetRaceInv, BookingsInv, TripsInv, TripsTypeInv, AssignmentsInv
<1>2. ASSUME AdministratorWrite, UNCHANGED tripVars
      PROVE  TripsRaceInv'
  BY <1>1, <1>2, TripsUnchangedRaceInv DEF AdministratorWrite
<1>3. ASSUME UNCHANGED <<vehicle, driver, overridden>>
      PROVE  AdministratorWrite
  BY <1>1, <1>3 DEF AdministratorWrite, RegisteredTypeOK, TenantsKept
<1>4. ASSUME UNCHANGED tripVars, UNCHANGED assignmentVars
      PROVE  BackedInv'
  BY <1>1, <1>4, BackedStays DEF tripVars, assignmentVars
<1>5. ASSUME UNCHANGED bookingVars
      PROVE  StatusInv'
  BY <1>1, <1>5 DEF StatusInv, StatusHeld, VehicleHeld, Blocks, BookingGuardRead,
                    OpenBooking, bookingVars
<1>6. ASSUME UNCHANGED assignmentVars
      PROVE  DatesInv'
  BY <1>1, <1>6 DEF DatesInv, DatesHeld, DatesInOrder, assignmentVars
<1>7. CASE BookingsAct
  BY <1>1, <1>2, <1>3, <1>4, <1>7, <1>6, BookingsNextStatusInv
     DEF BookingsAct, FleetRaceInv, registryVars
<1>8. CASE TripsAct
  <2>1. UNCHANGED <<assignment, edited>> /\ TripsNext /\ UNCHANGED bookingVars
    BY <1>8 DEF TripsAct, assignmentVars
  <2> QED
    BY <1>1, <1>5, <1>8, <1>6, <2>1, TripsNextRaceInv, TripsNextBacked
       DEF FleetRaceInv, TripsAct
<1>9. CASE AssignmentsAct
  <2>1. BackedInv'
    BY <1>1, <1>9, AssignmentsKeepRows, BackedStays DEF AssignmentsAct, tripVars
  <2> QED
    BY <1>1, <1>2, <1>3, <1>5, <1>9, <2>1, AssignmentsNextDatesInv
       DEF AssignmentsAct, FleetRaceInv, registryVars
<1>10. CASE RegistryAct
  BY <1>1, <1>2, <1>4, <1>5, <1>10, <1>6, RegistryNextInv DEF RegistryAct, FleetRaceInv
<1>11. CASE Tick
  BY <1>2, <1>3, <1>4, <1>5, <1>11, <1>6 DEF Tick, FleetRaceInv, registryVars
<1>12. CASE UNCHANGED vars
  <2>1. /\ UNCHANGED bookingVars /\ UNCHANGED tripVars /\ UNCHANGED assignmentVars
        /\ UNCHANGED <<vehicle, driver, overridden>>
    BY <1>12 DEF vars, bookingVars, tripVars, assignmentVars
  <2> QED
    BY <1>2, <1>3, <1>4, <1>5, <1>6, <2>1 DEF FleetRaceInv
<1> QED
  BY <1>7, <1>8, <1>9, <1>10, <1>11, <1>12 DEF Next

\* What requests know of each other's writes holds in every reachable state.
THEOREM FleetRaceInvariant == Spec => [](FleetInv /\ FleetRaceInv)
BY FleetInvInit, FleetInvNext, FleetRaceInvInit, FleetRaceInvNext, PTL DEF Spec

----------------------------------------------------------------------------
(***************************************************************************)
(* What FleetInv says of the properties that the runs check.               *)
(***************************************************************************)

\* Every row and every request in flight keeps its type, whatever interleaves.
THEOREM TypeCorrect == Spec => []TypeOK
<1>1. FleetInv => TypeOK
  BY DEF FleetInv, BookingsInv, BookingsTypeInv, TripsInv, TripsTypeInv,
         AssignmentsInv, AssignmentsTypeInv, RegistryInv, RegisteredTypeOK,
         TypeOK, TablesTypeOK
<1> QED
  BY <1>1, FleetInvariant, PTL

\* checkVehicleAvailability keeps active bookings of a vehicle apart, through
\* create, confirm, cancel and assign, but for the race it does not close.
THEOREM DoubleBookingNeedsRace == Spec => []DoubleBookingOnlyByRace
<1>1. FleetInv => DoubleBookingOnlyByRace
  BY DEF FleetInv, BookingsInv
<1> QED
  BY <1>1, FleetInvariant, PTL

\* endTrip releases what startTrip took, in whatever order requests commit.
THEOREM TripsStrandNothing == Spec => []NothingStranded
<1>1. FleetInv => NothingStranded
  BY DEF FleetInv, TripsInv
<1> QED
  BY <1>1, FleetInvariant, PTL

\* No trip ends before it starts, though both instants are read from the clock
\* some awaits before they are written.
THEOREM TripsInOrder == Spec => []TripTimesOrdered
<1>1. FleetInv => TripTimesOrdered
  BY DEF FleetInv, TripsInv
<1> QED
  BY <1>1, FleetInvariant, PTL

\* Partial updates that interleave never join two tenants' vehicle and driver.
THEOREM AssignmentsOfOneTenant == Spec => []AssignmentsStayInTenant
<1>1. FleetInv => AssignmentsStayInTenant
  BY DEF FleetInv, AssignmentsInv
<1> QED
  BY <1>1, FleetInvariant, PTL

\* The overlap queries of create() keep assignments apart, but for the race
\* they do not close and for update(), which makes none.
THEOREM OverlapNeedsRaceOrUpdate == Spec => []OverlapOnlyByRaceOrUpdate
<1>1. FleetInv => OverlapOnlyByRaceOrUpdate
  BY DEF FleetInv, AssignmentsInv
<1> QED
  BY <1>1, FleetInvariant, PTL

\* startTrip's queries keep the trips of one vehicle apart, unless one of the two was
\* started or ended between the first read and the write of a request on the other.
THEOREM CollisionNeedsRace == Spec => []TripsCollideOnlyByRace
<1>1. FleetRaceInv => TripsCollideOnlyByRace
  BY DEF FleetRaceInv, TripsRaceInv
<1> QED
  BY <1>1, FleetRaceInvariant, PTL

\* endTrip takes the vehicle away from another active trip only if the two
\* raced.
THEOREM EarlyReleaseNeedsRace == Spec => []ReleasedEarlyOnlyByRace
<1>1. FleetRaceInv => ReleasedEarlyOnlyByRace
  BY DEF FleetRaceInv, TripsRaceInv
<1> QED
  BY <1>1, FleetRaceInvariant, PTL

\* Every trip is explained by an assignment row, whatever became of it since.
THEOREM TripsAreBacked == Spec => []TripBackedByAssignment
<1>1. FleetRaceInv => TripBackedByAssignment
  BY DEF FleetRaceInv, BackedInv, Backed, TripBackedByAssignment
<1> QED
  BY <1>1, FleetRaceInvariant, PTL

\* An end is written over another one only by an endTrip that had read the trip
\* before.
THEOREM SecondEndNeedsRace == Spec => EndRewrittenOnlyByRace
<1>1. FleetInv /\ FleetRaceInv /\ [Next]_vars
        => [\A t \in DOMAIN trip :
              trip[t].end # None /\ trip'[t].end # trip[t].end
                => \E r \in TripRequests :
                      /\ treq[r] # TripIdle /\ treq'[r] = TripIdle
                      /\ treq[r].trip = t /\ t \in tmissed[r]]_trip
  <2> SUFFICES ASSUME FleetInv, FleetRaceInv, [Next]_vars,
                      NEW t \in DOMAIN trip,
                      trip[t].end # None, trip'[t].end # trip[t].end
               PROVE  \E r \in TripRequests :
                         /\ treq[r] # TripIdle /\ treq'[r] = TripIdle
                         /\ treq[r].trip = t /\ t \in tmissed[r]
    OBVIOUS
  <2>1. TripsInv /\ TripsRaceInv
    BY DEF FleetInv, FleetRaceInv
  <2>2. TripsNext
    BY DEF Next, BookingsAct, TripsAct, AssignmentsAct, RegistryAct, Tick, vars,
           tripVars
  <2> QED
    BY <2>1, <2>2, TripsNextEndRewritten
<1> QED
  BY <1>1, FleetRaceInvariant, PTL DEF Spec, EndRewrittenOnlyByRace

\* A cancelled booking comes back to life only by a confirm that had read it
\* before.
THEOREM RevivalNeedsRace == Spec => RevivedOnlyByRace
<1>1. FleetInv /\ FleetRaceInv /\ [Next]_vars
        => [\A b \in DOMAIN booking :
              booking[b].status = "CANCELLED" /\ booking'[b].status # "CANCELLED"
                => \E r \in BookingRequests : RevivedBy(r, b)]_booking
  <2> SUFFICES ASSUME FleetInv, FleetRaceInv, [Next]_vars,
                      NEW b \in DOMAIN booking,
                      booking[b].status = "CANCELLED", booking'[b].status # "CANCELLED"
               PROVE  \E r \in BookingRequests : RevivedBy(r, b)
    OBVIOUS
  <2>1. BookingsTypeInv /\ StatusInv
    BY DEF FleetInv, FleetRaceInv, BookingsInv
  <2>2. BookingsNext
    BY DEF Next, BookingsAct, TripsAct, AssignmentsAct, RegistryAct, Tick, vars,
           bookingVars
  <2> QED
    BY <2>1, <2>2, BookingsNextRevived
<1> QED
  BY <1>1, FleetRaceInvariant, PTL DEF Spec, RevivedOnlyByRace

\* update() compares the dates it is given with the row as it read it: they get
\* out of order only by the update of a row that was written meanwhile.
THEOREM CrossingNeedsRace == Spec => DatesCrossOnlyByRace
<1>1. FleetInv /\ FleetRaceInv /\ [Next]_vars
        => [\A a \in DOMAIN assignment' :
              \/ DatesInOrder(assignment'[a].start, assignment'[a].end)
              \/ /\ a \in DOMAIN assignment
                 /\ assignment'[a].start = assignment[a].start
                 /\ assignment'[a].end = assignment[a].end
              \/ \E r \in AssignmentRequests :
                   /\ areq[r].op = "update" /\ areq[r].id = a /\ a \in amissed[r]
                   /\ areq'[r] = AssignmentIdle]_assignment
  <2> SUFFICES ASSUME FleetInv, FleetRaceInv, [Next]_vars, assignment' # assignment,
                      NEW a \in DOMAIN assignment'
               PROVE  \/ DatesInOrder(assignment'[a].start, assignment'[a].end)
                      \/ /\ a \in DOMAIN assignment
                         /\ assignment'[a].start = assignment[a].start
                         /\ assignment'[a].end = assignment[a].end
                      \/ \E r \in AssignmentRequests :
                           /\ areq[r].op = "update" /\ areq[r].id = a
                           /\ a \in amissed[r] /\ areq'[r] = AssignmentIdle
    OBVIOUS
  <2>1. AssignmentsTypeInv /\ DatesInv
    BY DEF FleetInv, FleetRaceInv, AssignmentsInv
  <2>2. AssignmentsNext
    BY DEF Next, vars, BookingsAct, TripsAct, AssignmentsAct, RegistryAct, Tick,
           assignmentVars
  <2> QED
    BY <2>1, <2>2, AssignmentsNextDates
<1> QED
  BY <1>1, FleetRaceInvariant, PTL DEF Spec, DatesCrossOnlyByRace

\* "Ensure no active trip already exists for this vehicle": true as long as trip
\* requests are handled one at a time.
THEOREM OneActiveTrip ==
    ASSUME OneTripRequest
    PROVE  Spec => []OneActiveTripPerVehicle
<1>1. Init => SerialTripsInv
  BY DEF Init, TripsInit, SerialTripsInv
<1>2. FleetInv /\ SerialTripsInv /\ [Next]_vars => SerialTripsInv'
  <2> SUFFICES ASSUME FleetInv, SerialTripsInv, [Next]_vars
               PROVE  SerialTripsInv'
    OBVIOUS
  <2>1. TripsTypeOK
    BY DEF FleetInv, TripsInv, TripsTypeInv
  <2>2. CASE TripsNext
    BY <2>1, <2>2, TripsNextSerialInv
  <2>3. CASE UNCHANGED tripVars
    BY <2>3 DEF SerialTripsInv, tripVars
  <2> QED
    BY <2>2, <2>3 DEF Next, BookingsAct, TripsAct, AssignmentsAct, RegistryAct,
                      Tick, vars, tripVars
<1>3. Spec => []SerialTripsInv
  BY <1>1, <1>2, FleetInvariant, PTL DEF Spec
<1>4. FleetRaceInv /\ SerialTripsInv => OneActiveTripPerVehicle
  BY ActiveTripsCollide DEF FleetRaceInv, TripsRaceInv, SerialTripsInv
<1> QED
  BY <1>3, <1>4, FleetRaceInvariant, PTL

\* With booking requests handled one at a time, none is overtaken.
LEMMA SerialInvariant ==
    ASSUME OneRequest
    PROVE  Spec => []SerialInv
<1>1. Init => SerialInv
  BY DEF Init, BookingsInit, SerialInv, BookingIdle
<1>2. FleetInv /\ SerialInv /\ [Next]_vars => SerialInv'
  <2> SUFFICES ASSUME FleetInv, SerialInv, [Next]_vars
               PROVE  SerialInv'
    OBVIOUS
  <2>1. BookingsTypeInv
    BY DEF FleetInv, BookingsInv
  <2>2. CASE BookingsNext
    BY <2>1, <2>2, BookingsNextSerialInv
  <2>3. CASE UNCHANGED bookingVars
    BY <2>3 DEF SerialInv, OpenBooking, bookingVars
  <2> QED
    BY <2>2, <2>3 DEF Next, BookingsAct, TripsAct, AssignmentsAct, RegistryAct,
                      Tick, vars, bookingVars
<1> QED
  BY <1>1, <1>2, FleetInvariant, PTL DEF Spec

\* "Vehicle has a conflicting booking", says checkVehicleAvailability, and as long as
\* booking requests are handled one at a time, no two active bookings of a vehicle
\* conflict.
THEOREM NoDoubleBooking ==
    ASSUME OneRequest
    PROVE  Spec => [](\A b, c \in DOMAIN booking : ~DoubleBooked(b, c))
<1>1. FleetInv /\ SerialInv => \A b, c \in DOMAIN booking : ~DoubleBooked(b, c)
  BY DEF FleetInv, BookingsInv, SerialInv, DoubleBookingOnlyByRace, BookingsRaced
<1> QED
  BY <1>1, SerialInvariant, FleetInvariant, PTL

\* "already has an overlapping assignment in this period": as long as assignment
\* requests are handled one at a time, no two assignments of a vehicle or a driver
\* meet until update() has written one.
THEOREM NoOverlapUntilUpdate ==
    ASSUME OneAssignmentRequest
    PROVE  Spec => [](edited = {} => NoOverlappingAssignments)
<1>1. Init => SerialAssignmentsInv
  BY DEF Init, AssignmentsInit, SerialAssignmentsInv
<1>2. FleetInv /\ SerialAssignmentsInv /\ [Next]_vars => SerialAssignmentsInv'
  <2> SUFFICES ASSUME FleetInv, SerialAssignmentsInv, [Next]_vars
               PROVE  SerialAssignmentsInv'
    OBVIOUS
  <2>1. AssignmentsTypeOK
    BY DEF FleetInv, AssignmentsInv, AssignmentsTypeInv
  <2>2. CASE AssignmentsNext
    BY <2>1, <2>2, AssignmentsNextSerialInv
  <2>3. CASE UNCHANGED assignmentVars
    BY <2>3 DEF SerialAssignmentsInv, assignmentVars
  <2> QED
    BY <2>2, <2>3 DEF Next, BookingsAct, TripsAct, AssignmentsAct, RegistryAct,
                      Tick, vars, assignmentVars
<1>3. Spec => []SerialAssignmentsInv
  BY <1>1, <1>2, FleetInvariant, PTL DEF Spec
<1>4. FleetInv /\ SerialAssignmentsInv => (edited = {} => NoOverlappingAssignments)
  BY DEF FleetInv, AssignmentsInv, SerialAssignmentsInv, OverlapOnlyByRaceOrUpdate,
         AssignmentsRaced, NoOverlappingAssignments
<1> QED
  BY <1>3, <1>4, FleetInvariant, PTL

----------------------------------------------------------------------------
(***************************************************************************)
(* Refinement.  The write of a request that no other write has overtaken   *)
(* enters, confirms, cancels or moves one booking of the ledger, as the    *)
(* ledger would, or leaves it alone; with one booking request at a time,   *)
(* no request is overtaken.                                                *)
(***************************************************************************)

\* The ledger's row of a booking.
LedgerRow(row) ==
    [tenant |-> row.tenant, vehicle |-> row.vehicle, start |-> row.start,
     end |-> row.end, status |-> row.status]

\* What the ledger keeps of the bookings, now and in the next state.
LEMMA LedgerRows ==
    /\ LedgerOfBookings = [b \in DOMAIN booking |-> LedgerRow(booking[b])]
    /\ LedgerOfBookings' = [b \in DOMAIN booking' |-> LedgerRow(booking'[b])]
BY DEF LedgerOfBookings, LedgerRow

\* What the ledger calls a free vehicle is one that no booking blocks.
LEMMA LedgerVehicleFree ==
    ASSUME BookingsTypeInv, NEW b, NEW v, NEW t, NEW s \in Days, NEW e \in Days,
           \A c \in DOMAIN booking : c # b => ~Blocks(c, v, t, s, e)
    PROVE  Ledger!VehicleFree(b, v, t, s, e)
<1> SUFFICES ASSUME NEW c \in DOMAIN booking, c # b,
                    LedgerOfBookings[c].tenant = t, LedgerOfBookings[c].vehicle = v,
                    LedgerOfBookings[c].status \in {"PENDING", "CONFIRMED"},
                    LedgerOfBookings[c].start < e, s < LedgerOfBookings[c].end
             PROVE  FALSE
  BY LedgerRows DEF Ledger!VehicleFree, Ledger!Holding
<1>1. booking[c] \in Booking
  BY DEF BookingsTypeInv, IsTable
<1>2. booking[c].start \in Int /\ booking[c].end \in Int /\ s \in Int /\ e \in Int
  BY <1>1, DaysAssumption DEF Booking
<1>3. LedgerOfBookings[c] = LedgerRow(booking[c])
  BY LedgerRows
<1>4. /\ booking[c].tenant = t /\ booking[c].vehicle = v
      /\ booking[c].status \in {"PENDING", "CONFIRMED"}
      /\ booking[c].start < e /\ s < booking[c].end
  BY <1>3 DEF LedgerRow
<1>5. Blocks(c, v, t, s, e)
  BY <1>2, <1>4 DEF Blocks, ActiveBooking, RangesOverlap
<1> QED
  BY <1>5

\* create enters a booking.
LEMMA InsertBookingEnters ==
    ASSUME BookingsTypeInv, StatusInv, NEW r \in BookingRequests, bmissed[r] = {},
           InsertBooking(r)
    PROVE  Ledger!Enter
<1> DEFINE q == breq[r]
           row == [tenant |-> q.tenant, vehicle |-> q.vehicle, driver |-> q.driver,
                   start |-> q.start, end |-> q.end, status |-> "PENDING"]
           new == [tenant |-> q.tenant, vehicle |-> q.vehicle, start |-> q.start,
                   end |-> q.end, status |-> "PENDING"]
<1>1. PICK b \in BookingIds \ DOMAIN booking : booking' = Insert(booking, b, row)
  BY DEF InsertBooking
<1>2. q.op = "create" /\ q.pc = "write"
  BY DEF InsertBooking
<1>3. q # BookingIdle
  BY <1>2 DEF BookingIdle
<1>4. q \in BookingRequest /\ BookingRequestOK(r) /\ StatusHeld(r)
  BY <1>3 DEF BookingsTypeInv, BookingsTypeOK, StatusInv
<1>5. /\ q.tenant \in Tenants /\ q.vehicle \in Vehicles /\ q.id = None
      /\ q.start \in Days /\ q.end \in Days /\ q.start < q.end
  BY <1>2, <1>4 DEF BookingRequest, BookingRequestOK, StatusHeld
<1>7. \A c \in DOMAIN booking : ~Blocks(c, q.vehicle, q.tenant, q.start, q.end)
  BY <1>2, <1>4 DEF StatusHeld, VehicleHeld, BookingGuardRead
<1>8. Ledger!VehicleFree(b, q.vehicle, q.tenant, q.start, q.end)
  BY <1>5, <1>7, LedgerVehicleFree
<1>9. LedgerRow(row) = new
  BY DEF LedgerRow
<1> HIDE DEF row
<1>10. LedgerOfBookings' = [c \in DOMAIN LedgerOfBookings \cup {b} |->
                              IF c = b THEN new ELSE LedgerOfBookings[c]]
  <2>1. /\ DOMAIN booking' = DOMAIN booking \cup {b} /\ booking'[b] = row
        /\ \A c \in DOMAIN booking : booking'[c] = booking[c]
    BY <1>1 DEF Insert
  <2> QED
    BY <1>9, <2>1, LedgerRows
<1>11. DOMAIN LedgerOfBookings = DOMAIN booking
  BY LedgerRows
<1> QED
  BY <1>1, <1>5, <1>8, <1>10, <1>11 DEF Ledger!Enter

\* A booking of which one column of the ledger changes.
LEMMA LedgerUpdate ==
    ASSUME NEW b \in DOMAIN booking, DOMAIN booking' = DOMAIN booking,
           \A c \in DOMAIN booking : c # b => booking'[c] = booking[c]
    PROVE  /\ DOMAIN LedgerOfBookings = DOMAIN booking
           /\ LedgerOfBookings[b] = LedgerRow(booking[b])
           /\ LedgerOfBookings' = [LedgerOfBookings EXCEPT ![b] = LedgerRow(booking'[b])]
BY LedgerRows

\* confirm and cancel are the ledger's.
LEMMA SetBookingStatusSettles ==
    ASSUME BookingsTypeInv, StatusInv, NEW r \in BookingRequests, bmissed[r] = {},
           SetBookingStatus(r)
    PROVE  Ledger!Confirm \/ Ledger!Cancel
<1> PICK b, status : /\ b = breq[r].id
                     /\ status = IF breq[r].op = "confirm" THEN "CONFIRMED" ELSE "CANCELLED"
  OBVIOUS
<1>1. breq[r].pc = "write" /\ breq[r].op \in {"confirm", "cancel"}
      /\ booking' = [booking EXCEPT ![b].status = status]
  BY DEF SetBookingStatus
<1>2. breq[r] # BookingIdle
  BY <1>1 DEF BookingIdle
<1>3. BookingRequestOK(r) /\ StatusHeld(r)
  BY <1>2 DEF BookingsTypeInv, StatusInv
<1>4. b \in DOMAIN booking /\ booking[b] \in Booking
  BY <1>1, <1>2, <1>3 DEF BookingRequestOK, BookingsTypeInv, IsTable
<1>5. /\ DOMAIN booking' = DOMAIN booking
      /\ \A c \in DOMAIN booking : c # b => booking'[c] = booking[c]
      /\ booking'[b] = [booking[b] EXCEPT !.status = status]
  BY <1>1, <1>4
<1>6. LedgerRow(booking'[b]) = [LedgerRow(booking[b]) EXCEPT !.status = status]
  BY <1>4, <1>5 DEF LedgerRow, Booking
<1>7. /\ DOMAIN LedgerOfBookings = DOMAIN booking
      /\ LedgerOfBookings[b].status = booking[b].status
      /\ LedgerOfBookings' = [LedgerOfBookings EXCEPT ![b].status = status]
  <2>1. /\ DOMAIN LedgerOfBookings = DOMAIN booking
        /\ LedgerOfBookings[b] = LedgerRow(booking[b])
        /\ LedgerOfBookings' = [LedgerOfBookings EXCEPT ![b] = LedgerRow(booking'[b])]
    BY <1>4, <1>5, LedgerUpdate
  <2>2. LedgerRow(booking[b]).status = booking[b].status
    BY DEF LedgerRow
  <2> QED
    BY <1>6, <2>1, <2>2
<1>8. CASE breq[r].op = "confirm"
  <2>1. booking[b].status = "PENDING" /\ status = "CONFIRMED"
    BY <1>3, <1>8 DEF StatusHeld
  <2> QED
    BY <1>4, <1>7, <2>1 DEF Ledger!Confirm
<1>9. CASE breq[r].op = "cancel"
  <2>1. booking[b].status \in {"PENDING", "CONFIRMED"} /\ status = "CANCELLED"
    BY <1>3, <1>4, <1>9 DEF StatusHeld, OpenBooking, Booking, BookingStatus
  <2> QED
    BY <1>4, <1>7, <2>1 DEF Ledger!Cancel, Ledger!Holding
<1> QED
  BY <1>1, <1>8, <1>9

\* assign moves a booking to a free vehicle, or changes what the ledger does
\* not keep.
LEMMA SetBookingAssigneesMoves ==
    ASSUME BookingsTypeInv, StatusInv, NEW r \in BookingRequests, bmissed[r] = {},
           OpenBooking(breq[r].id), SetBookingAssignees(r)
    PROVE  Ledger!Move \/ LedgerOfBookings' = LedgerOfBookings
<1> PICK b : b = breq[r].id
  OBVIOUS
<1>1. breq[r].pc = "write" /\ breq[r].op = "assign"
  BY DEF SetBookingAssignees
<1>2. breq[r] # BookingIdle
  BY <1>1 DEF BookingIdle
<1>3. breq[r] \in BookingRequest /\ BookingRequestOK(r) /\ StatusHeld(r)
  BY <1>1, <1>2 DEF BookingsTypeInv, BookingsTypeOK, StatusInv
<1>4. b \in DOMAIN booking /\ booking[b] \in Booking
  BY <1>1, <1>2, <1>3 DEF BookingRequestOK, BookingsTypeInv, IsTable
<1>5. /\ BookingWrite(r, b)
      /\ booking'[b].status = booking[b].status
      /\ booking'[b].vehicle = IF breq[r].vehicle = Absent THEN booking[b].vehicle
                                                           ELSE breq[r].vehicle
  BY <1>2, SetBookingAssigneesWrites
<1>6. /\ DOMAIN booking' = DOMAIN booking
      /\ \A c \in DOMAIN booking : c # b => booking'[c] = booking[c]
      /\ booking'[b].tenant = booking[b].tenant
      /\ booking'[b].start = booking[b].start /\ booking'[b].end = booking[b].end
  BY <1>1, <1>3, <1>4, <1>5 DEF BookingWrite, BookingRequestOK
<1>7. /\ DOMAIN LedgerOfBookings = DOMAIN booking
      /\ LedgerOfBookings[b] = LedgerRow(booking[b])
      /\ LedgerOfBookings' = [LedgerOfBookings EXCEPT ![b] = LedgerRow(booking'[b])]
  BY <1>4, <1>6, LedgerUpdate
<1>8. CASE breq[r].vehicle \in {Absent, booking[b].vehicle}
  <2>1. LedgerRow(booking'[b]) = LedgerRow(booking[b])
    BY <1>5, <1>6, <1>8 DEF LedgerRow
  <2>2. LedgerOfBookings = [c \in DOMAIN booking |-> LedgerOfBookings[c]]
    BY LedgerRows
  <2> QED
    BY <1>7, <2>1, <2>2
<1>9. CASE breq[r].vehicle \notin {Absent, booking[b].vehicle}
  <2>1. /\ breq[r].vehicle \in Vehicles
        /\ breq[r].tenant = booking[b].tenant /\ breq[r].start = booking[b].start
        /\ breq[r].end = booking[b].end
    BY <1>1, <1>3, <1>9 DEF BookingRequest, BookingRequestOK
  <2>2. booking[b].start \in Days /\ booking[b].end \in Days
    BY <1>4 DEF Booking
  <2>3. \A c \in DOMAIN booking : c # b =>
           ~Blocks(c, breq[r].vehicle, booking[b].tenant, booking[b].start, booking[b].end)
    BY <1>1, <1>3, <1>9, <2>1 DEF StatusHeld, VehicleHeld, BookingGuardRead
  <2>4. Ledger!VehicleFree(b, breq[r].vehicle, booking[b].tenant,
                           booking[b].start, booking[b].end)
    BY <1>2, <2>2, <2>3, LedgerVehicleFree
  <2>5. LedgerRow(booking'[b]) = [LedgerRow(booking[b]) EXCEPT !.vehicle = breq[r].vehicle]
    BY <1>5, <1>6, <1>9 DEF LedgerRow
  <2>6. LedgerOfBookings' = [LedgerOfBookings EXCEPT ![b].vehicle = breq[r].vehicle]
    BY <1>7, <2>5
  <2>7. /\ LedgerOfBookings[b].status \in {"PENDING", "CONFIRMED"}
        /\ LedgerOfBookings[b].tenant = booking[b].tenant
        /\ LedgerOfBookings[b].start = booking[b].start
        /\ LedgerOfBookings[b].end = booking[b].end
    BY <1>3, <1>4, <1>7 DEF LedgerRow, OpenBooking, Booking, BookingStatus
  <2> QED
    BY <1>4, <1>7, <2>1, <2>4, <2>6, <2>7 DEF Ledger!Move, Ledger!Holding
<1> QED
  BY <1>8, <1>9

\* Only the writes of BookingsService write bookings.
LEMMA BookingWriters ==
    ASSUME [Next]_vars, booking' # booking
    PROVE  \E r \in BookingRequests :
              InsertBooking(r) \/ SetBookingStatus(r) \/ SetBookingAssignees(r)
<1>1. BookingsNext
  BY DEF Next, BookingsAct, TripsAct, AssignmentsAct, RegistryAct, Tick, vars, bookingVars
<1>2. PICK r \in BookingRequests :
         \/ CreateBooking(r) \/ ConfirmBooking(r) \/ CancelBooking(r)
         \/ AssignBooking(r) \/ BookingStep(r) \/ BookingRequestFails(r)
  BY <1>1 DEF BookingsNext
<1>3. ~ \/ CheckBookingConflict(r) \/ CheckTripConflict(r)
        \/ CheckVehicleStatus(r) \/ CheckMaintenance(r)
        \/ CheckAssignmentConflict(r) \/ CheckDriverTrips(r)
  BY BookingCheckProceeds DEF BookingProceeds
<1> QED
  BY <1>2, <1>3 DEF CreateBooking, ConfirmBooking, CancelBooking,
                    AssignBooking, BookingRequestFails, BookingStep

\* Each of them is a step of the ledger or none, if it was not overtaken.
LEMMA UnracedWriteIsLedgerStep ==
    ASSUME BookingsTypeInv, StatusInv, NEW r \in BookingRequests, bmissed[r] = {},
           breq[r].op = "assign" => OpenBooking(breq[r].id),
           InsertBooking(r) \/ SetBookingStatus(r) \/ SetBookingAssignees(r)
    PROVE  Ledger!Next \/ LedgerOfBookings' = LedgerOfBookings
<1>1. SetBookingAssignees(r) => OpenBooking(breq[r].id)
  BY DEF SetBookingAssignees
<1> QED
  BY <1>1, InsertBookingEnters, SetBookingStatusSettles, SetBookingAssigneesMoves
     DEF Ledger!Next

\* Whatever number of requests is in flight, and whatever they do to each other,
\* the write of one that no other write has overtaken since its guarding read takes
\* effect as the ledger's operation would.  An assign that changes the vehicle reads
\* the booking before its window opens, and has to find it open still.
THEOREM UnracedWritesAreAtomic ==
    Spec => [][\A r \in BookingRequests :
                  /\ breq[r].pc = "write" /\ breq'[r] = BookingIdle
                  /\ bmissed[r] = {}
                  /\ breq[r].op = "assign" => OpenBooking(breq[r].id)
                  => [Ledger!Next]_LedgerOfBookings]_booking
<1>1. FleetInv /\ FleetRaceInv /\ [Next]_vars
        => [\A r \in BookingRequests :
                  /\ breq[r].pc = "write" /\ breq'[r] = BookingIdle
                  /\ bmissed[r] = {}
                  /\ breq[r].op = "assign" => OpenBooking(breq[r].id)
                  => [Ledger!Next]_LedgerOfBookings]_booking
  <2> SUFFICES ASSUME FleetInv, FleetRaceInv, [Next]_vars, booking' # booking,
                      NEW r \in BookingRequests,
                      breq[r].pc = "write", breq'[r] = BookingIdle, bmissed[r] = {},
                      breq[r].op = "assign" => OpenBooking(breq[r].id)
               PROVE  Ledger!Next \/ LedgerOfBookings' = LedgerOfBookings
    OBVIOUS
  <2>1. BookingsTypeInv /\ StatusInv
    BY DEF FleetInv, FleetRaceInv, BookingsInv
  <2>2. PICK x \in BookingRequests :
          InsertBooking(x) \/ SetBookingStatus(x) \/ SetBookingAssignees(x)
    BY BookingWriters
  <2>3. PICK b : BookingWritten(x, b)
    BY <2>1, <2>2, BookingWrites DEF BookingWrite
  <2>4. x = r
    BY <2>1, <2>3 DEF BookingWritten, BookingsTypeInv, BookingsTypeOK, BookingIdle
  <2> QED
    BY <2>1, <2>2, <2>4, UnracedWriteIsLedgerStep
<1> QED
  BY <1>1, FleetRaceInvariant, PTL DEF Spec

\* With one request at a time, every step of the fleet is one of the ledger.
LEMMA NextIsLedgerStep ==
    FleetInv /\ FleetRaceInv /\ SerialInv /\ [Next]_vars
      => [Ledger!Next]_LedgerOfBookings
<1> SUFFICES ASSUME FleetInv, FleetRaceInv, SerialInv, [Next]_vars
             PROVE  Ledger!Next \/ LedgerOfBookings' = LedgerOfBookings
  OBVIOUS
<1>1. BookingsTypeInv /\ StatusInv
  BY DEF FleetInv, FleetRaceInv, BookingsInv
<1>2. CASE booking' = booking
  BY <1>2 DEF LedgerOfBookings
<1>3. CASE booking' # booking
  BY <1>1, <1>3, BookingWriters, UnracedWriteIsLedgerStep DEF SerialInv
<1> QED
  BY <1>2, <1>3

\* As long as booking requests are handled one at a time, BookingsService is
\* the ledger, whatever trips, assignments and administrators do meanwhile.
THEOREM LedgerImplemented ==
    ASSUME OneRequest
    PROVE  Spec => ImplementsLedger
<1>1. Init => Ledger!Init
  BY DEF Init, TablesInit, LedgerOfBookings, Ledger!Init
<1> QED
  BY <1>1, SerialInvariant, FleetRaceInvariant, NextIsLedgerStep, PTL
     DEF Spec, ImplementsLedger, Ledger!Spec

=============================================================================
