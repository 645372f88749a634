------------------------------- MODULE Registry -------------------------------
(***************************************************************************)
(* What administrators write to the fleet beside bookings, assignments and *)
(* trips: VehiclesService.update and remove, DriversService.update and     *)
(* remove, and MaintenanceService.create.  Each looks up its vehicle or    *)
(* driver by id and tenant, and then writes by id alone.  The columns that *)
(* no other component reads (registration, branch, phone, costs...) and    *)
(* the lookups that guard them are left out: a request that they reject is *)
(* one that fails before its write.                                        *)
(***************************************************************************)
EXTENDS FleetTables

CONSTANT RegistryRequests   \* bound: registry requests in flight at once

VARIABLE greq   \* greq[r]: the handler in slot r

RegistryIdle ==
    [op |-> "none", vehicle |-> None, driver |-> None,
     status |-> Absent, isAvailable |-> FALSE, date |-> None]

\* A handler past its lookup, about to write.
RegistryRequest ==
    [op : {"setStatus", "removeVehicle", "setAvailable", "removeDriver", "log"},
     vehicle : Vehicles \cup {None}, driver : Drivers \cup {None},
     status : VehicleStatus \cup {Absent}, isAvailable : BOOLEAN,
     date : Days \cup {None}]

RegistryTypeOK ==
    /\ DOMAIN greq = RegistryRequests
    /\ \A r \in RegistryRequests : greq[r] \in RegistryRequest \cup {RegistryIdle}

RegistryInit == greq = [r \in RegistryRequests |-> RegistryIdle]

----------------------------------------------------------------------------
(***************************************************************************)
(* The lookups.                                                            *)
(***************************************************************************)
VehicleRequest(r, op, v, status, date) ==
    /\ greq[r] = RegistryIdle
    /\ ~vehicle[v].deleted
    /\ greq' = [greq EXCEPT ![r] =
         [op |-> op, vehicle |-> v, driver |-> None, status |-> status,
          isAvailable |-> FALSE, date |-> date]]
    /\ UNCHANGED <<vehicle, driver, maintenanceLog, overridden>>

DriverRequest(r, op, d, isAvailable) ==
    /\ greq[r] = RegistryIdle
    /\ ~driver[d].deleted
    /\ greq' = [greq EXCEPT ![r] =
         [op |-> op, vehicle |-> None, driver |-> d, status |-> Absent,
          isAvailable |-> isAvailable, date |-> None]]
    /\ UNCHANGED <<vehicle, driver, maintenanceLog, overridden>>

UpdateVehicle(r) ==
    \E v \in Vehicles, status \in VehicleStatus :
        VehicleRequest(r, "setStatus", v, status, None)

RemoveVehicle(r) ==
    \E v \in Vehicles : VehicleRequest(r, "removeVehicle", v, Absent, None)

CreateMaintenanceLog(r) ==
    \E v \in Vehicles, date \in Days : VehicleRequest(r, "log", v, Absent, date)

UpdateDriver(r) ==
    \E d \in Drivers, isAvailable \in BOOLEAN :
        DriverRequest(r, "setAvailable", d, isAvailable)

RemoveDriver(r) ==
    \E d \in Drivers : DriverRequest(r, "removeDriver", d, FALSE)

----------------------------------------------------------------------------
(***************************************************************************)
(* The writes.                                                             *)
(***************************************************************************)
RegistryReturns(r) == greq' = [greq EXCEPT ![r] = RegistryIdle]

WriteVehicleStatus(r) ==
    LET q == greq[r] IN
    /\ q.op = "setStatus"
    /\ vehicle' = [vehicle EXCEPT ![q.vehicle].status = q.status]
    /\ overridden' = overridden \cup {q.vehicle}
    /\ RegistryReturns(r)
    /\ UNCHANGED <<driver, maintenanceLog>>

DeleteVehicle(r) ==
    LET q == greq[r] IN
    /\ q.op = "removeVehicle"
    /\ vehicle' = [vehicle EXCEPT ![q.vehicle].deleted = TRUE]
    /\ RegistryReturns(r)
    /\ UNCHANGED <<driver, maintenanceLog, overridden>>

WriteDriverAvailable(r) ==
    LET q == greq[r] IN
    /\ q.op = "setAvailable"
    /\ driver' = [driver EXCEPT ![q.driver].isAvailable = q.isAvailable]
    /\ overridden' = overridden \cup {q.driver}
    /\ RegistryReturns(r)
    /\ UNCHANGED <<vehicle, maintenanceLog>>

DeleteDriver(r) ==
    LET q == greq[r] IN
    /\ q.op = "removeDriver"
    /\ driver' = [driver EXCEPT ![q.driver].deleted = TRUE]
    /\ RegistryReturns(r)
    /\ UNCHANGED <<vehicle, maintenanceLog, overridden>>

InsertMaintenanceLog(r) ==
    LET q == greq[r] IN
    /\ q.op = "log"
    /\ maintenanceLog' = maintenanceLog \cup
         {[tenant |-> vehicle[q.vehicle].tenant, vehicle |-> q.vehicle,
           date |-> q.date]}
    /\ RegistryReturns(r)
    /\ UNCHANGED <<vehicle, driver, overridden>>

\* A lookup that is not modelled rejects, the database refuses the write, or
\* the process dies.
RegistryRequestFails(r) ==
    /\ greq[r] # RegistryIdle
    /\ RegistryReturns(r)
    /\ UNCHANGED <<vehicle, driver, maintenanceLog, overridden>>

RegistryStep(r) ==
    \/ WriteVehicleStatus(r)
    \/ DeleteVehicle(r)
    \/ WriteDriverAvailable(r)
    \/ DeleteDriver(r)
    \/ InsertMaintenanceLog(r)

RegistryNext ==
    \E r \in RegistryRequests :
        \/ UpdateVehicle(r)
        \/ RemoveVehicle(r)
        \/ CreateMaintenanceLog(r)
        \/ UpdateDriver(r)
        \/ RemoveDriver(r)
        \/ RegistryStep(r)
        \/ RegistryRequestFails(r)

=============================================================================
