----------------------------- MODULE Assignments -----------------------------
(***************************************************************************)
(* AssignmentsService: create, update and remove, as requests that         *)
(* interleave at every awaited query.  areq[r] is the handler in slot r.   *)
(***************************************************************************)
EXTENDS FleetTables

CONSTANT AssignmentRequests   \* bound: assignment requests in flight at once

VARIABLES
    areq,      \* areq[r]: the handler in slot r
    amissed,   \* history: assignments written since the read that justifies
               \* r's write: create()'s overlap query, the row update() is given
    araced,    \* history: pairs <<a, b>>: b was written between the overlap
               \* query and the insert of a
    edited     \* history: assignments that update() wrote

assignmentVars == <<assignment, areq, amissed, araced, edited>>

AssignmentIdle ==
    [pc |-> "idle", op |-> "none", tenant |-> None, id |-> None,
     vehicle |-> None, driver |-> None, start |-> None, end |-> None,
     askVehicle |-> FALSE, askDriver |-> FALSE]

\* What an in-flight handler holds: id is None for create; vehicle, driver,
\* start and end are the DTO's, where Absent is undefined and end None is null;
\* askVehicle and askDriver say whether update() has to look them up.
AssignmentRequest ==
    [pc : {"vehicle", "driver", "vehicleOverlap", "driverOverlap", "write"},
     op : {"create", "update", "remove"},
     tenant : Tenants, id : AssignmentIds \cup {None},
     vehicle : Vehicles \cup {Absent}, driver : Drivers \cup {Absent},
     start : Days \cup {Absent}, end : Days \cup {None, Absent},
     askVehicle : BOOLEAN, askDriver : BOOLEAN]

AssignmentsTypeOK ==
    /\ DOMAIN areq = AssignmentRequests
    /\ \A r \in AssignmentRequests :
           areq[r] \in AssignmentRequest \cup {AssignmentIdle}
    /\ amissed \in [AssignmentRequests -> SUBSET AssignmentIds]
    /\ araced \subseteq AssignmentIds \X AssignmentIds
    /\ edited \subseteq AssignmentIds

AssignmentsInit ==
    /\ areq = [r \in AssignmentRequests |-> AssignmentIdle]
    /\ amissed = [r \in AssignmentRequests |-> {}]
    /\ araced = {}
    /\ edited = {}

CreateAssignmentDto ==
    [vehicle : Vehicles, driver : Drivers, start : Days, end : Days \cup {None}]

UpdateAssignmentDto ==
    [vehicle : Vehicles \cup {Absent}, driver : Drivers \cup {Absent},
     start : Days \cup {Absent}, end : Days \cup {None, Absent}]

----------------------------------------------------------------------------
(***************************************************************************)
(* Steps that handlers share.                                              *)
(***************************************************************************)
AssignmentReturns(r) ==
    /\ areq' = [areq EXCEPT ![r] = AssignmentIdle]
    /\ amissed' = [amissed EXCEPT ![r] = {}]

\* The handler in slot r moves on to pc, or throws.
AssignmentProceeds(r, ok, pc) ==
    /\ IF ok THEN /\ areq' = [areq EXCEPT ![r].pc = pc]
                  /\ UNCHANGED amissed
             ELSE AssignmentReturns(r)
    /\ UNCHANGED <<assignment, araced, edited>>

\* r has run the vehicle's overlap query, which opens its window.
OverlapQueried(r) == areq[r].op = "create" /\ areq[r].pc \in {"driverOverlap", "write"}

\* r has read a: by its overlap query, or as the row it is to update.
HasRead(r, a) == OverlapQueried(r) \/ (areq[r].op = "update" /\ areq[r].id = a)

\* r wrote assignment a and returned; a is news to everyone who has read it.
AssignmentWritten(r, a) ==
    /\ areq' = [areq EXCEPT ![r] = AssignmentIdle]
    /\ araced' = araced \cup ({a} \X (amissed[r] \ {a}))
    /\ amissed' = [q \in AssignmentRequests |->
                     IF q = r THEN {}
                     ELSE IF HasRead(q, a) THEN amissed[q] \cup {a}
                     ELSE amissed[q]]

\* "endDate must be after startDate", unless there is no end.
DatesInOrder(start, end) == end # None => end > start

\* assignment.findFirst by id, not deleted, through its vehicle's tenant.
FindAssignment(a, t) ==
    /\ a \in DOMAIN assignment
    /\ ~assignment[a].deleted
    /\ vehicle[assignment[a].vehicle].tenant = t

\* findFirst of a vehicle or a driver by id and tenant, not deleted.
OwnVehicle(v, t) == vehicle[v].tenant = t /\ ~vehicle[v].deleted

\* Mutant: any tenant's driver.
OwnDriverAnyTenant(d, t) == ~driver[d].deleted

OwnDriver(d, t) == driver[d].tenant = t /\ ~driver[d].deleted

\* The two overlap queries' WHERE on dates: both bounds are included, and a
\* create without an end date puts no bound on startDate.
PeriodsMeet(row, start, end) ==
    /\ ~row.deleted
    /\ end # None => row.start <= end
    /\ row.end = None \/ row.end >= start

\* Bound: a create is accepted only while an id is left for every create.
RoomForAssignment ==
    Cardinality(DOMAIN assignment)
      + Cardinality({r \in AssignmentRequests : areq[r].op = "create"})
      < Cardinality(AssignmentIds)

----------------------------------------------------------------------------
(***************************************************************************)
(* create                                                                  *)
(***************************************************************************)
CreateAssignment(r) ==
    /\ areq[r] = AssignmentIdle
    /\ RoomForAssignment
    /\ \E t \in Tenants, dto \in CreateAssignmentDto :
         /\ DatesInOrder(dto.start, dto.end)
         /\ areq' = [areq EXCEPT ![r] =
              [pc |-> "vehicle", op |-> "create", tenant |-> t, id |-> None,
               vehicle |-> dto.vehicle, driver |-> dto.driver,
               start |-> dto.start, end |-> dto.end,
               askVehicle |-> TRUE, askDriver |-> TRUE]]
    /\ UNCHANGED <<assignment, amissed, araced, edited>>

\* Shared with update(), which looks up only what its DTO changes.
CheckOwnVehicle(r) ==
    LET q == areq[r] IN
    /\ q.pc = "vehicle"
    /\ AssignmentProceeds(r, OwnVehicle(q.vehicle, q.tenant),
                          IF q.askDriver THEN "driver" ELSE "write")

\* Mutant: create() goes on as update() does, without the overlap queries.
CheckOwnDriverOnly(r) ==
    LET q == areq[r] IN
    /\ q.pc = "driver"
    /\ AssignmentProceeds(r, OwnDriver(q.driver, q.tenant), "write")

CheckOwnDriver(r) ==
    LET q == areq[r] IN
    /\ q.pc = "driver"
    /\ AssignmentProceeds(r, OwnDriver(q.driver, q.tenant),
                          IF q.op = "create" THEN "vehicleOverlap" ELSE "write")

CheckVehicleOverlap(r) ==
    LET q == areq[r] IN
    /\ q.pc = "vehicleOverlap"
    /\ AssignmentProceeds(r, ~\E a \in DOMAIN assignment :
                                /\ assignment[a].vehicle = q.vehicle
                                /\ PeriodsMeet(assignment[a], q.start, q.end),
                          "driverOverlap")

CheckDriverOverlap(r) ==
    LET q == areq[r] IN
    /\ q.pc = "driverOverlap"
    /\ AssignmentProceeds(r, ~\E a \in DOMAIN assignment :
                                /\ assignment[a].driver = q.driver
                                /\ PeriodsMeet(assignment[a], q.start, q.end),
                          "write")

InsertAssignment(r) ==
    LET q == areq[r] IN
    /\ q.pc = "write" /\ q.op = "create"
    /\ \E a \in AssignmentIds \ DOMAIN assignment :
         /\ assignment' = Insert(assignment, a,
              [vehicle |-> q.vehicle, driver |-> q.driver,
               start |-> q.start, end |-> q.end, deleted |-> FALSE])
         /\ AssignmentWritten(r, a)
    /\ UNCHANGED edited

----------------------------------------------------------------------------
(***************************************************************************)
(* update and remove                                                       *)
(***************************************************************************)

\* Mutant: the dates are compared only when the DTO carries both.
UpdateAssignmentDtoDates(r) ==
    /\ areq[r] = AssignmentIdle
    /\ \E t \in Tenants, a \in AssignmentIds, dto \in UpdateAssignmentDto :
         /\ FindAssignment(a, t)
         /\ Absent \notin {dto.start, dto.end} => DatesInOrder(dto.start, dto.end)
         /\ dto.vehicle = Absent /\ dto.driver = Absent
         /\ areq' = [areq EXCEPT ![r] =
              [pc |-> "write", op |-> "update", tenant |-> t, id |-> a,
               vehicle |-> Absent, driver |-> Absent,
               start |-> dto.start, end |-> dto.end,
               askVehicle |-> FALSE, askDriver |-> FALSE]]
    /\ UNCHANGED <<assignment, amissed, araced, edited>>

\* The row that was read decides, now, which lookups will run before the write.
UpdateRequest(t, a, dto) ==
    LET askVehicle == dto.vehicle \notin {Absent, assignment[a].vehicle}
        askDriver == dto.driver \notin {Absent, assignment[a].driver}
    IN  [pc |-> IF askVehicle THEN "vehicle"
                ELSE IF askDriver THEN "driver" ELSE "write",
         op |-> "update", tenant |-> t, id |-> a,
         vehicle |-> dto.vehicle, driver |-> dto.driver,
         start |-> dto.start, end |-> dto.end,
         askVehicle |-> askVehicle, askDriver |-> askDriver]

\* The dates the DTO leaves out are taken from the row that was read.
UpdateAssignment(r) ==
    /\ areq[r] = AssignmentIdle
    /\ \E t \in Tenants, a \in AssignmentIds, dto \in UpdateAssignmentDto :
         /\ FindAssignment(a, t)
         /\ DatesInOrder(
              IF dto.start = Absent THEN assignment[a].start ELSE dto.start,
              IF dto.end = Absent THEN assignment[a].end ELSE dto.end)
         /\ areq' = [areq EXCEPT ![r] = UpdateRequest(t, a, dto)]
    /\ UNCHANGED <<assignment, amissed, araced, edited>>

\* Only the columns the DTO carries are written.  There is no overlap query.
WriteAssignment(r) ==
    LET q == areq[r] IN
    /\ q.pc = "write" /\ q.op = "update"
    /\ assignment' = [assignment EXCEPT
         ![q.id].vehicle = IF q.vehicle = Absent THEN @ ELSE q.vehicle,
         ![q.id].driver  = IF q.driver = Absent THEN @ ELSE q.driver,
         ![q.id].start   = IF q.start = Absent THEN @ ELSE q.start,
         ![q.id].end     = IF q.end = Absent THEN @ ELSE q.end]
    /\ AssignmentWritten(r, q.id)
    /\ edited' = edited \cup {q.id}

RemoveAssignment(r) ==
    /\ areq[r] = AssignmentIdle
    /\ \E t \in Tenants, a \in AssignmentIds :
         /\ FindAssignment(a, t)
         /\ areq' = [areq EXCEPT ![r] =
              [pc |-> "write", op |-> "remove", tenant |-> t, id |-> a,
               vehicle |-> Absent, driver |-> Absent,
               start |-> Absent, end |-> Absent,
               askVehicle |-> FALSE, askDriver |-> FALSE]]
    /\ UNCHANGED <<assignment, amissed, araced, edited>>

DeleteAssignment(r) ==
    LET q == areq[r] IN
    /\ q.pc = "write" /\ q.op = "remove"
    /\ assignment' = [assignment EXCEPT ![q.id].deleted = TRUE]
    /\ AssignmentWritten(r, q.id)
    /\ UNCHANGED edited

\* The database refuses a query, or the process dies, before the write.
AssignmentRequestFails(r) ==
    /\ areq[r] # AssignmentIdle
    /\ AssignmentReturns(r)
    /\ UNCHANGED <<assignment, araced, edited>>

AssignmentStep(r) ==
    \/ CheckOwnVehicle(r)
    \/ CheckOwnDriver(r)
    \/ CheckVehicleOverlap(r)
    \/ CheckDriverOverlap(r)
    \/ InsertAssignment(r)
    \/ WriteAssignment(r)
    \/ DeleteAssignment(r)

AssignmentsNext ==
    \E r \in AssignmentRequests :
        \/ CreateAssignment(r)
        \/ UpdateAssignment(r)
        \/ RemoveAssignment(r)
        \/ AssignmentStep(r)
        \/ AssignmentRequestFails(r)

----------------------------------------------------------------------------
(***************************************************************************)
(* Properties.                                                             *)
(***************************************************************************)

\* Two live assignments of one vehicle, or of one driver, whose periods meet.
AssignmentsOverlap(a, b) ==
    /\ a # b
    /\ \/ assignment[a].vehicle = assignment[b].vehicle
       \/ assignment[a].driver = assignment[b].driver
    /\ ~assignment[a].deleted
    /\ PeriodsMeet(assignment[b], assignment[a].start, assignment[a].end)

AssignmentsRaced(a, b) == <<a, b>> \in araced \/ <<b, a>> \in araced

\* create()'s two overlap queries keep a vehicle's and a driver's assignments
\* apart, unless update() wrote one of the two, or one was inserted between the
\* other's overlap query and its insert.
OverlapOnlyByRaceOrUpdate ==
    \A a, b \in DOMAIN assignment :
        AssignmentsOverlap(a, b)
          => \/ AssignmentsRaced(a, b)
             \/ {a, b} \cap edited # {}

\* "already has an overlapping assignment in this period": no two live
\* assignments of a vehicle or a driver meet.
NoOverlappingAssignments ==
    \A a, b \in DOMAIN assignment : ~AssignmentsOverlap(a, b)

\* create() and update() both look up a vehicle and a driver they are given by
\* the tenant that owns the assignment, through concurrent partial updates too:
\* an assignment never joins a vehicle and a driver of two tenants.
AssignmentsStayInTenant ==
    \A a \in DOMAIN assignment :
        vehicle[assignment[a].vehicle].tenant = driver[assignment[a].driver].tenant

\* "endDate must be after startDate" of every assignment: update() validates the
\* date it is given against the other one as it read it, so the two can cross
\* only when the row was written between its read and its write.
DatesCrossOnlyByRace ==
    [][\A a \in DOMAIN assignment' :
          \/ DatesInOrder(assignment'[a].start, assignment'[a].end)
          \/ /\ a \in DOMAIN assignment
             /\ assignment'[a].start = assignment[a].start
             /\ assignment'[a].end = assignment[a].end
          \/ \E r \in AssignmentRequests :
                /\ areq[r].op = "update" /\ areq[r].id = a /\ a \in amissed[r]
                /\ areq'[r] = AssignmentIdle]_assignment

=============================================================================
