--------------------------- MODULE AssignmentsProofs ---------------------------
(***************************************************************************)
(* Proofs about the steps of AssignmentsService.  AssignmentsInv is        *)
(* inductive under AssignmentsNext; of the vehicles and drivers it knows   *)
(* only the tenants, which no other component changes.                     *)
(***************************************************************************)
EXTENDS Assignments, TLAPS

\* What an in-flight request knows of its DTO and of the row it is about.
AssignmentRequestOK(r) ==
    LET q == areq[r] IN
    /\ q.op = "create" => /\ q.vehicle \in Vehicles /\ q.driver \in Drivers
                          /\ q.start \in Days /\ q.end \in Days \cup {None}
                          /\ q.askDriver
    /\ q.op # "create" => q.id \in DOMAIN assignment
    /\ q.pc \in {"vehicleOverlap", "driverOverlap"} => q.op = "create"
    /\ q.pc = "vehicle" => q.vehicle \in Vehicles
    /\ q.pc = "driver" \/ q.askDriver => q.driver \in Drivers

AssignmentsTypeInv ==
    /\ \A v \in Vehicles : vehicle[v].tenant \in Tenants
    /\ \A d \in Drivers : driver[d].tenant \in Tenants
    /\ IsTable(assignment, AssignmentIds, Assignment)
    /\ AssignmentsTypeOK
    /\ \A r \in AssignmentRequests :
           areq[r] # AssignmentIdle => AssignmentRequestOK(r)

\* What the lookups that r has passed, or did not need, have shown.
TenantHeld(r) ==
    LET q == areq[r] IN
    /\ q.op # "create" => vehicle[assignment[q.id].vehicle].tenant = q.tenant
    /\ q.pc # "vehicle" /\ q.vehicle # Absent => vehicle[q.vehicle].tenant = q.tenant
    /\ /\ q.pc # "driver"
       /\ q.pc = "vehicle" => ~q.askDriver
       /\ q.driver # Absent
       => driver[q.driver].tenant = q.tenant

\* Past its overlap queries, a create has missed every assignment in its way,
\* but for those that update() wrote.
OverlapHolds(r) ==
    LET q == areq[r] IN
    q.op = "create" =>
        \A a \in DOMAIN assignment :
            /\ PeriodsMeet(assignment[a], q.start, q.end)
            /\ \/ /\ q.pc \in {"driverOverlap", "write"}
                  /\ assignment[a].vehicle = q.vehicle
               \/ /\ q.pc = "write"
                  /\ assignment[a].driver = q.driver
            => a \in amissed[r] \cup edited

AssignmentsInv ==
    /\ AssignmentsTypeInv
    /\ AssignmentsStayInTenant
    /\ OverlapOnlyByRaceOrUpdate
    /\ \A r \in AssignmentRequests :
           areq[r] # AssignmentIdle => TenantHeld(r) /\ OverlapHolds(r)

----------------------------------------------------------------------------

\* A fleet without assignments, where no request is in flight, satisfies it.
LEMMA AssignmentsInvInit ==
    ASSUME RegisteredFleet, assignment = <<>>, AssignmentsInit
    PROVE  AssignmentsInv
<1>1. DOMAIN assignment = {}
  OBVIOUS
<1>2. /\ \A v \in Vehicles : vehicle[v].tenant \in Tenants
      /\ \A d \in Drivers : driver[d].tenant \in Tenants
  BY DEF RegisteredFleet
<1>3. AssignmentsTypeInv
  BY <1>1, <1>2 DEF AssignmentsInit, AssignmentsTypeInv, AssignmentsTypeOK, IsTable
<1> QED
  BY <1>1, <1>3 DEF AssignmentsInv, AssignmentsInit, AssignmentsStayInTenant,
                    OverlapOnlyByRaceOrUpdate

\* A step that writes no row: the handler in slot r starts, moves on, returns
\* or throws.
LEMMA UnwrittenAssignmentsInv ==
    ASSUME AssignmentsInv, NEW r \in AssignmentRequests,
           UNCHANGED <<assignment, araced, edited, vehicle, driver>>,
           DOMAIN areq' = AssignmentRequests,
           \A x \in AssignmentRequests :
               x # r => areq'[x] = areq[x] /\ amissed'[x] = amissed[x],
           amissed' \in [AssignmentRequests -> SUBSET AssignmentIds],
           \/ areq'[r] = AssignmentIdle
           \/ /\ areq'[r] \in AssignmentRequest
              /\ AssignmentRequestOK(r)' /\ TenantHeld(r)' /\ OverlapHolds(r)'
    PROVE  AssignmentsInv'
<1>1. AssignmentsStayInTenant'
  BY DEF AssignmentsInv, AssignmentsStayInTenant
<1>2. OverlapOnlyByRaceOrUpdate'
  BY DEF AssignmentsInv, OverlapOnlyByRaceOrUpdate, AssignmentsOverlap,
         AssignmentsRaced, PeriodsMeet
<1>3. AssignmentsTypeOK' /\ IsTable(assignment, AssignmentIds, Assignment)'
  BY DEF AssignmentsInv, AssignmentsTypeInv, AssignmentsTypeOK, IsTable
<1>4. ASSUME NEW x \in AssignmentRequests, areq'[x] # AssignmentIdle
      PROVE  AssignmentRequestOK(x)' /\ TenantHeld(x)' /\ OverlapHolds(x)'
  <2>1. CASE x = r
    BY <1>4, <2>1
  <2>2. CASE x # r
    <3>1. /\ areq'[x] = areq[x] /\ amissed'[x] = amissed[x]
          /\ AssignmentRequestOK(x) /\ TenantHeld(x) /\ OverlapHolds(x)
      BY <1>4, <2>2 DEF AssignmentsInv, AssignmentsTypeInv
    <3> QED
      BY <3>1 DEF AssignmentRequestOK, TenantHeld, OverlapHolds, PeriodsMeet
  <2> QED
    BY <2>1, <2>2
<1> QED
  BY <1>1, <1>2, <1>3, <1>4 DEF AssignmentsInv, AssignmentsTypeInv

\* A handler that returns or throws takes what it knew with it.
LEMMA AssignmentReturnsInv ==
    ASSUME AssignmentsInv, NEW r \in AssignmentRequests, AssignmentReturns(r),
           UNCHANGED <<assignment, araced, edited, vehicle, driver>>
    PROVE  AssignmentsInv'
BY UnwrittenAssignmentsInv
   DEF AssignmentReturns, AssignmentsInv, AssignmentsTypeInv, AssignmentsTypeOK

\* A check that succeeded tells r no less than r has to know at pc.
LEMMA AssignmentProceedsInv ==
    ASSUME AssignmentsInv, NEW r \in AssignmentRequests, NEW ok,
           NEW pc \in {"driver", "vehicleOverlap", "driverOverlap", "write"},
           areq[r] # AssignmentIdle, AssignmentProceeds(r, ok, pc),
           UNCHANGED <<vehicle, driver>>,
           ok /\ areq'[r] = [areq[r] EXCEPT !.pc = pc] /\ UNCHANGED amissed
              => AssignmentRequestOK(r)' /\ TenantHeld(r)' /\ OverlapHolds(r)'
    PROVE  AssignmentsInv'
<1>1. CASE ~ok
  BY <1>1, AssignmentReturnsInv DEF AssignmentProceeds
<1>2. CASE ok
  <2>1. /\ areq[r] \in AssignmentRequest /\ DOMAIN areq = AssignmentRequests
    BY DEF AssignmentsInv, AssignmentsTypeInv, AssignmentsTypeOK
  <2>2. /\ DOMAIN areq' = AssignmentRequests
        /\ areq'[r] = [areq[r] EXCEPT !.pc = pc]
        /\ \A x \in AssignmentRequests : x # r => areq'[x] = areq[x]
        /\ UNCHANGED <<assignment, araced, edited, amissed>>
    BY <1>2, <2>1 DEF AssignmentProceeds
  <2>3. areq'[r] \in AssignmentRequest
    BY <2>1, <2>2 DEF AssignmentRequest
  <2> QED
    BY <1>2, <2>2, <2>3, UnwrittenAssignmentsInv
       DEF AssignmentsInv, AssignmentsTypeInv, AssignmentsTypeOK
<1> QED
  BY <1>1, <1>2

----------------------------------------------------------------------------
(***************************************************************************)
(* Requests that are accepted.                                             *)
(***************************************************************************)

\* create: nothing has been looked up yet, so nothing is claimed yet.
LEMMA CreateAssignmentInv ==
    ASSUME AssignmentsInv, NEW r \in AssignmentRequests, CreateAssignment(r),
           UNCHANGED <<vehicle, driver>>
    PROVE  AssignmentsInv'
<1>1. PICK t \in Tenants, dto \in CreateAssignmentDto :
         areq' = [areq EXCEPT ![r] =
              [pc |-> "vehicle", op |-> "create", tenant |-> t, id |-> None,
               vehicle |-> dto.vehicle, driver |-> dto.driver,
               start |-> dto.start, end |-> dto.end,
               askVehicle |-> TRUE, askDriver |-> TRUE]]
  BY DEF CreateAssignment
<1> DEFINE q == [pc |-> "vehicle", op |-> "create", tenant |-> t, id |-> None,
                 vehicle |-> dto.vehicle, driver |-> dto.driver,
                 start |-> dto.start, end |-> dto.end,
                 askVehicle |-> TRUE, askDriver |-> TRUE]
<1>2. /\ DOMAIN areq' = AssignmentRequests /\ areq'[r] = q
      /\ \A x \in AssignmentRequests : x # r => areq'[x] = areq[x]
  BY <1>1 DEF AssignmentsInv, AssignmentsTypeInv, AssignmentsTypeOK
<1>3. q \in AssignmentRequest
  BY DEF AssignmentRequest, CreateAssignmentDto
<1>4. AssignmentRequestOK(r)' /\ TenantHeld(r)' /\ OverlapHolds(r)'
  BY <1>2 DEF AssignmentRequestOK, TenantHeld, OverlapHolds, CreateAssignmentDto
<1> QED
  BY <1>2, <1>3, <1>4, UnwrittenAssignmentsInv
     DEF CreateAssignment, AssignmentsInv, AssignmentsTypeInv, AssignmentsTypeOK

\* remove: the row it read belongs to the caller's tenant.
LEMMA RemoveAssignmentInv ==
    ASSUME AssignmentsInv, NEW r \in AssignmentRequests, RemoveAssignment(r),
           UNCHANGED <<vehicle, driver>>
    PROVE  AssignmentsInv'
<1>1. PICK t \in Tenants, a \in AssignmentIds :
         /\ FindAssignment(a, t)
         /\ areq' = [areq EXCEPT ![r] =
              [pc |-> "write", op |-> "remove", tenant |-> t, id |-> a,
               vehicle |-> Absent, driver |-> Absent,
               start |-> Absent, end |-> Absent,
               askVehicle |-> FALSE, askDriver |-> FALSE]]
  BY DEF RemoveAssignment
<1> DEFINE q == [pc |-> "write", op |-> "remove", tenant |-> t, id |-> a,
                 vehicle |-> Absent, driver |-> Absent,
                 start |-> Absent, end |-> Absent,
                 askVehicle |-> FALSE, askDriver |-> FALSE]
<1>2. /\ DOMAIN areq' = AssignmentRequests /\ areq'[r] = q
      /\ \A x \in AssignmentRequests : x # r => areq'[x] = areq[x]
  BY <1>1 DEF AssignmentsInv, AssignmentsTypeInv, AssignmentsTypeOK
<1>3. q \in AssignmentRequest
  BY DEF AssignmentRequest
<1>4. AssignmentRequestOK(r)' /\ TenantHeld(r)' /\ OverlapHolds(r)'
  BY <1>1, <1>2 DEF AssignmentRequestOK, TenantHeld, OverlapHolds,
                    FindAssignment, RemoveAssignment
<1> QED
  BY <1>2, <1>3, <1>4, UnwrittenAssignmentsInv
     DEF RemoveAssignment, AssignmentsInv, AssignmentsTypeInv, AssignmentsTypeOK

\* update: a vehicle or driver it will not look up is the row's own, and the
\* row joins a vehicle and a driver of one tenant.
LEMMA UpdateAssignmentInv ==
    ASSUME AssignmentsInv, NEW r \in AssignmentRequests, UpdateAssignment(r),
           UNCHANGED <<vehicle, driver>>
    PROVE  AssignmentsInv'
<1>1. PICK t \in Tenants, a \in AssignmentIds, dto \in UpdateAssignmentDto :
         /\ FindAssignment(a, t)
         /\ areq' = [areq EXCEPT ![r] = UpdateRequest(t, a, dto)]
  BY DEF UpdateAssignment
<1>2. /\ DOMAIN areq' = AssignmentRequests
      /\ areq'[r] = UpdateRequest(t, a, dto)
      /\ \A x \in AssignmentRequests : x # r => areq'[x] = areq[x]
  BY <1>1 DEF AssignmentsInv, AssignmentsTypeInv, AssignmentsTypeOK
<1>3. UNCHANGED <<assignment, amissed, araced, edited>>
  BY DEF UpdateAssignment
<1>4. /\ UpdateRequest(t, a, dto) \in AssignmentRequest
      /\ dto.vehicle \in Vehicles \cup {Absent}
      /\ dto.driver \in Drivers \cup {Absent}
  BY DEF UpdateRequest, AssignmentRequest, UpdateAssignmentDto
<1>5. /\ a \in DOMAIN assignment
      /\ vehicle[assignment[a].vehicle].tenant = t
      /\ driver[assignment[a].driver].tenant = t
  BY <1>1 DEF FindAssignment, AssignmentsInv, AssignmentsStayInTenant
<1> DEFINE p == areq'[r]
           askVehicle == dto.vehicle \notin {Absent, assignment[a].vehicle}
           askDriver == dto.driver \notin {Absent, assignment[a].driver}
<1>6. /\ p.op = "update" /\ p.id = a /\ p.tenant = t
      /\ p.vehicle = dto.vehicle /\ p.driver = dto.driver
      /\ p.pc = IF askVehicle THEN "vehicle" ELSE IF askDriver THEN "driver" ELSE "write"
      /\ p.askDriver = askDriver
  BY <1>2 DEF UpdateRequest
<1>7. /\ AssignmentRequestOK(r)'
      /\ TenantHeld(r)'
  <2>1. /\ p.pc = "vehicle" => askVehicle
        /\ p.pc = "driver" => askDriver /\ ~askVehicle
        /\ p.pc = "write" => ~askDriver /\ ~askVehicle
        /\ p.pc \in {"vehicle", "driver", "write"}
    BY <1>6
  <2>2. p.askDriver <=> askDriver
    BY <1>6
  <2>3. AssignmentRequestOK(r)'
    BY <1>3, <1>4, <1>5, <1>6, <2>1, <2>2 DEF AssignmentRequestOK
  <2>4. TenantHeld(r)'
    BY <1>3, <1>4, <1>5, <1>6, <2>1, <2>2 DEF TenantHeld
  <2> QED
    BY <2>3, <2>4
<1>8. OverlapHolds(r)'
  BY <1>2 DEF OverlapHolds, UpdateRequest
<1> QED
  BY <1>2, <1>3, <1>4, <1>7, <1>8, UnwrittenAssignmentsInv
     DEF AssignmentsInv, AssignmentsTypeInv, AssignmentsTypeOK

----------------------------------------------------------------------------
(***************************************************************************)
(* The queries.                                                            *)
(***************************************************************************)

\* The vehicle's lookup: found, the vehicle is the tenant's.
LEMMA CheckOwnVehicleInv ==
    ASSUME AssignmentsInv, NEW r \in AssignmentRequests, CheckOwnVehicle(r),
           UNCHANGED <<vehicle, driver>>
    PROVE  AssignmentsInv'
<1> DEFINE q == areq[r]
           ok == OwnVehicle(q.vehicle, q.tenant)
           pc == IF q.askDriver THEN "driver" ELSE "write"
<1>1. /\ q # AssignmentIdle /\ q.pc = "vehicle" /\ AssignmentProceeds(r, ok, pc)
  BY DEF CheckOwnVehicle, AssignmentIdle
<1>2. q \in AssignmentRequest /\ AssignmentRequestOK(r) /\ TenantHeld(r)
  BY <1>1 DEF AssignmentsInv, AssignmentsTypeInv, AssignmentsTypeOK
<1>3. ASSUME ok, areq'[r] = [areq[r] EXCEPT !.pc = pc], UNCHANGED amissed
      PROVE  AssignmentRequestOK(r)' /\ TenantHeld(r)' /\ OverlapHolds(r)'
  <2>1. /\ areq'[r].pc = pc /\ areq'[r].op = q.op /\ areq'[r].id = q.id
        /\ areq'[r].tenant = q.tenant /\ areq'[r].vehicle = q.vehicle
        /\ areq'[r].driver = q.driver /\ areq'[r].start = q.start
        /\ areq'[r].end = q.end /\ areq'[r].askDriver = q.askDriver
    BY <1>2, <1>3 DEF AssignmentRequest
  <2>2. UNCHANGED assignment
    BY <1>1 DEF AssignmentProceeds
  <2>3. AssignmentRequestOK(r)'
    BY <1>2, <2>1, <2>2 DEF AssignmentRequestOK
  <2>4. TenantHeld(r)'
    BY <1>1, <1>2, <1>3, <2>1, <2>2 DEF TenantHeld, OwnVehicle
  <2>5. OverlapHolds(r)'
    BY <1>2, <2>1 DEF OverlapHolds, AssignmentRequestOK
  <2> QED
    BY <2>3, <2>4, <2>5
<1>4. pc \in {"driver", "vehicleOverlap", "driverOverlap", "write"}
  OBVIOUS
<1> HIDE DEF ok, pc
<1> QED
  BY <1>1, <1>3, <1>4, AssignmentProceedsInv

\* The driver's lookup: found, the driver is the tenant's.
LEMMA CheckOwnDriverInv ==
    ASSUME AssignmentsInv, NEW r \in AssignmentRequests, CheckOwnDriver(r),
           UNCHANGED <<vehicle, driver>>
    PROVE  AssignmentsInv'
<1> DEFINE q == areq[r]
           ok == OwnDriver(q.driver, q.tenant)
           pc == IF q.op = "create" THEN "vehicleOverlap" ELSE "write"
<1>1. /\ q # AssignmentIdle /\ q.pc = "driver" /\ AssignmentProceeds(r, ok, pc)
  BY DEF CheckOwnDriver, AssignmentIdle
<1>2. q \in AssignmentRequest /\ AssignmentRequestOK(r) /\ TenantHeld(r)
  BY <1>1 DEF AssignmentsInv, AssignmentsTypeInv, AssignmentsTypeOK
<1>3. ASSUME ok, areq'[r] = [areq[r] EXCEPT !.pc = pc], UNCHANGED amissed
      PROVE  AssignmentRequestOK(r)' /\ TenantHeld(r)' /\ OverlapHolds(r)'
  <2>1. /\ areq'[r].pc = pc /\ areq'[r].op = q.op /\ areq'[r].id = q.id
        /\ areq'[r].tenant = q.tenant /\ areq'[r].vehicle = q.vehicle
        /\ areq'[r].driver = q.driver /\ areq'[r].start = q.start
        /\ areq'[r].end = q.end /\ areq'[r].askDriver = q.askDriver
    BY <1>2, <1>3 DEF AssignmentRequest
  <2>2. UNCHANGED assignment
    BY <1>1 DEF AssignmentProceeds
  <2>3. AssignmentRequestOK(r)'
    BY <1>2, <2>1, <2>2 DEF AssignmentRequestOK
  <2>4. TenantHeld(r)'
    BY <1>1, <1>2, <1>3, <2>1, <2>2 DEF TenantHeld, OwnDriver
  <2>5. OverlapHolds(r)'
    BY <2>1 DEF OverlapHolds
  <2> QED
    BY <2>3, <2>4, <2>5
<1>4. pc \in {"driver", "vehicleOverlap", "driverOverlap", "write"}
  OBVIOUS
<1> HIDE DEF ok, pc
<1> QED
  BY <1>1, <1>3, <1>4, AssignmentProceedsInv

\* The vehicle's overlap query: when it finds nothing, nothing is in the way.
LEMMA CheckVehicleOverlapInv ==
    ASSUME AssignmentsInv, NEW r \in AssignmentRequests, CheckVehicleOverlap(r),
           UNCHANGED <<vehicle, driver>>
    PROVE  AssignmentsInv'
<1> DEFINE q == areq[r]
           ok == ~\E a \in DOMAIN assignment :
                    /\ assignment[a].vehicle = q.vehicle
                    /\ PeriodsMeet(assignment[a], q.start, q.end)
<1>1. /\ q # AssignmentIdle /\ q.pc = "vehicleOverlap"
      /\ AssignmentProceeds(r, ok, "driverOverlap")
  BY DEF CheckVehicleOverlap, AssignmentIdle
<1>2. q \in AssignmentRequest /\ AssignmentRequestOK(r) /\ TenantHeld(r)
  BY <1>1 DEF AssignmentsInv, AssignmentsTypeInv, AssignmentsTypeOK
<1>3. ASSUME ok, areq'[r] = [areq[r] EXCEPT !.pc = "driverOverlap"], UNCHANGED amissed
      PROVE  AssignmentRequestOK(r)' /\ TenantHeld(r)' /\ OverlapHolds(r)'
  <2>1. /\ areq'[r].pc = "driverOverlap" /\ areq'[r].op = q.op /\ areq'[r].id = q.id
        /\ areq'[r].tenant = q.tenant /\ areq'[r].vehicle = q.vehicle
        /\ areq'[r].driver = q.driver /\ areq'[r].start = q.start
        /\ areq'[r].end = q.end /\ areq'[r].askDriver = q.askDriver
    BY <1>2, <1>3 DEF AssignmentRequest
  <2>2. UNCHANGED assignment
    BY <1>1 DEF AssignmentProceeds
  <2>3. AssignmentRequestOK(r)'
    BY <1>1, <1>2, <2>1, <2>2 DEF AssignmentRequestOK
  <2>4. TenantHeld(r)'
    BY <1>1, <1>2, <2>1, <2>2 DEF TenantHeld
  <2>5. OverlapHolds(r)'
    BY <1>3, <2>1, <2>2 DEF OverlapHolds
  <2> QED
    BY <2>3, <2>4, <2>5
<1> HIDE DEF ok
<1> QED
  BY <1>1, <1>3, AssignmentProceedsInv

\* The driver's overlap query; what the vehicle's query established still
\* holds up to the rows written since.
LEMMA CheckDriverOverlapInv ==
    ASSUME AssignmentsInv, NEW r \in AssignmentRequests, CheckDriverOverlap(r),
           UNCHANGED <<vehicle, driver>>
    PROVE  AssignmentsInv'
<1> DEFINE q == areq[r]
           ok == ~\E a \in DOMAIN assignment :
                    /\ assignment[a].driver = q.driver
                    /\ PeriodsMeet(assignment[a], q.start, q.end)
<1>1. /\ q # AssignmentIdle /\ q.pc = "driverOverlap"
      /\ AssignmentProceeds(r, ok, "write")
  BY DEF CheckDriverOverlap, AssignmentIdle
<1>2. /\ q \in AssignmentRequest /\ AssignmentRequestOK(r) /\ TenantHeld(r)
      /\ OverlapHolds(r)
  BY <1>1 DEF AssignmentsInv, AssignmentsTypeInv, AssignmentsTypeOK
<1>3. ASSUME ok, areq'[r] = [areq[r] EXCEPT !.pc = "write"], UNCHANGED amissed
      PROVE  AssignmentRequestOK(r)' /\ TenantHeld(r)' /\ OverlapHolds(r)'
  <2>1. /\ areq'[r].pc = "write" /\ areq'[r].op = q.op /\ areq'[r].id = q.id
        /\ areq'[r].tenant = q.tenant /\ areq'[r].vehicle = q.vehicle
        /\ areq'[r].driver = q.driver /\ areq'[r].start = q.start
        /\ areq'[r].end = q.end /\ areq'[r].askDriver = q.askDriver
    BY <1>2, <1>3 DEF AssignmentRequest
  <2>2. UNCHANGED <<assignment, edited>>
    BY <1>1 DEF AssignmentProceeds
  <2>3. AssignmentRequestOK(r)'
    BY <1>1, <1>2, <2>1, <2>2 DEF AssignmentRequestOK
  <2>4. TenantHeld(r)'
    BY <1>1, <1>2, <2>1, <2>2 DEF TenantHeld
  <2>5. OverlapHolds(r)'
    BY <1>1, <1>2, <1>3, <2>1, <2>2 DEF OverlapHolds, PeriodsMeet
  <2> QED
    BY <2>3, <2>4, <2>5
<1> HIDE DEF ok
<1> QED
  BY <1>1, <1>3, AssignmentProceedsInv

----------------------------------------------------------------------------
(***************************************************************************)
(* The writes.                                                             *)
(***************************************************************************)

\* Request r writes assignment a, for the tenant that owns it, and no other.
AssignmentWrite(r, a) ==
    /\ a \in AssignmentIds
    /\ IsTable(assignment', AssignmentIds, Assignment)
    /\ DOMAIN assignment' = DOMAIN assignment \cup {a}
    /\ \A b \in DOMAIN assignment : b # a => assignment'[b] = assignment[b]
    /\ AssignmentWritten(r, a)
    /\ edited' \in {edited, edited \cup {a}}
    /\ vehicle[assignment'[a].vehicle].tenant = driver[assignment'[a].driver].tenant
    /\ a \in DOMAIN assignment =>
          vehicle[assignment'[a].vehicle].tenant = vehicle[assignment[a].vehicle].tenant

\* The WHERE of the overlap queries compares two periods the same either way.
LEMMA AssignmentsOverlapSymmetric ==
    ASSUME NEW a, NEW b, assignment'[a] \in Assignment, assignment'[b] \in Assignment,
           AssignmentsOverlap(a, b)'
    PROVE  AssignmentsOverlap(b, a)'
<1>1. /\ assignment'[a].start \in Int /\ assignment'[b].start \in Int
      /\ assignment'[a].end # None => assignment'[a].end \in Int
      /\ assignment'[b].end # None => assignment'[b].end \in Int
  BY DaysAssumption DEF Assignment
<1> QED
  BY <1>1 DEF AssignmentsOverlap, PeriodsMeet

\* A write keeps the invariant when every assignment it now overlaps was news
\* to its handler, or one of the two was edited.
LEMMA AssignmentWriteInv ==
    ASSUME AssignmentsInv, NEW r \in AssignmentRequests, NEW a,
           UNCHANGED <<vehicle, driver>>, AssignmentWrite(r, a),
           \A b \in DOMAIN assignment :
               AssignmentsOverlap(a, b)' /\ b # a
                 => b \in amissed[r] \/ {a, b} \cap edited' # {}
    PROVE  AssignmentsInv'
<1>1. /\ amissed' \in [AssignmentRequests -> SUBSET AssignmentIds]
      /\ araced' \subseteq AssignmentIds \X AssignmentIds
      /\ edited' \subseteq AssignmentIds /\ edited \subseteq edited'
      /\ araced' = araced \cup ({a} \X (amissed[r] \ {a}))
      /\ DOMAIN areq' = AssignmentRequests /\ areq'[r] = AssignmentIdle
      /\ \A x \in AssignmentRequests : x # r => areq'[x] = areq[x]
  BY DEF AssignmentsInv, AssignmentsTypeInv, AssignmentsTypeOK, AssignmentWrite,
         AssignmentWritten
<1>2. AssignmentsStayInTenant'
  BY DEF AssignmentsInv, AssignmentsStayInTenant, AssignmentWrite
<1>3. ASSUME NEW b \in DOMAIN assignment, b # a, AssignmentsOverlap(a, b)'
      PROVE  AssignmentsRaced(a, b)' \/ {a, b} \cap edited' # {}
  BY <1>1, <1>3 DEF AssignmentsRaced
<1>4. ASSUME NEW b \in DOMAIN assignment', NEW c \in DOMAIN assignment',
             AssignmentsOverlap(b, c)'
      PROVE  AssignmentsRaced(b, c)' \/ {b, c} \cap edited' # {}
  <2>1. b # c /\ assignment'[b] \in Assignment /\ assignment'[c] \in Assignment
    BY <1>4 DEF AssignmentsOverlap, AssignmentWrite, IsTable
  <2>2. CASE b = a
    BY <1>3, <1>4, <2>1, <2>2 DEF AssignmentWrite
  <2>3. CASE c = a
    <3>1. b \in DOMAIN assignment /\ AssignmentsOverlap(c, b)'
      BY <1>4, <2>1, <2>3, AssignmentsOverlapSymmetric DEF AssignmentWrite
    <3> QED
      BY <1>3, <2>1, <2>3, <3>1 DEF AssignmentsRaced
  <2>4. CASE b # a /\ c # a
    <3>1. /\ b \in DOMAIN assignment /\ c \in DOMAIN assignment
          /\ assignment'[b] = assignment[b] /\ assignment'[c] = assignment[c]
      BY <2>4 DEF AssignmentWrite
    <3>2. AssignmentsOverlap(b, c)
      BY <1>4, <3>1 DEF AssignmentsOverlap
    <3>3. AssignmentsRaced(b, c) \/ {b, c} \cap edited # {}
      BY <3>1, <3>2 DEF AssignmentsInv, OverlapOnlyByRaceOrUpdate
    <3> QED
      BY <1>1, <3>3 DEF AssignmentsRaced
  <2> QED
    BY <2>2, <2>3, <2>4
<1>5. ASSUME NEW x \in AssignmentRequests, areq'[x] # AssignmentIdle
      PROVE  AssignmentRequestOK(x)' /\ TenantHeld(x)' /\ OverlapHolds(x)'
  <2>1. /\ x # r /\ areq'[x] = areq[x]
        /\ AssignmentRequestOK(x) /\ TenantHeld(x) /\ OverlapHolds(x)
    BY <1>1, <1>5 DEF AssignmentsInv, AssignmentsTypeInv
  <2>2. OverlapQueried(x) => amissed'[x] = amissed[x] \cup {a}
    BY <2>1 DEF AssignmentWrite, AssignmentWritten, HasRead
  <2>3. AssignmentRequestOK(x)'
    BY <2>1 DEF AssignmentRequestOK, AssignmentWrite
  <2>4. TenantHeld(x)'
    BY <2>1 DEF TenantHeld, AssignmentWrite, AssignmentRequestOK
  <2>5. OverlapHolds(x)'
    <3> SUFFICES ASSUME areq[x].op = "create", NEW b \in DOMAIN assignment',
                        PeriodsMeet(assignment'[b], areq[x].start, areq[x].end),
                        \/ /\ areq[x].pc \in {"driverOverlap", "write"}
                           /\ assignment'[b].vehicle = areq[x].vehicle
                        \/ /\ areq[x].pc = "write"
                           /\ assignment'[b].driver = areq[x].driver
                 PROVE  b \in amissed'[x] \cup edited'
      BY <2>1 DEF OverlapHolds, PeriodsMeet
    <3>1. amissed'[x] = amissed[x] \cup {a}
      BY <2>2 DEF OverlapQueried
    <3>2. CASE b = a
      BY <3>1, <3>2
    <3>3. CASE b # a
      <4>1. b \in DOMAIN assignment /\ assignment'[b] = assignment[b]
        BY <3>3 DEF AssignmentWrite
      <4> QED
        BY <1>1, <2>1, <3>1, <4>1 DEF OverlapHolds
    <3> QED
      BY <3>2, <3>3
  <2> QED
    BY <2>3, <2>4, <2>5
<1>6. AssignmentsTypeOK'
  BY <1>1 DEF AssignmentsInv, AssignmentsTypeInv, AssignmentsTypeOK
<1> QED
  BY <1>2, <1>4, <1>5, <1>6
     DEF AssignmentsInv, AssignmentsTypeInv, AssignmentWrite, OverlapOnlyByRaceOrUpdate

\* create's INSERT: the overlap queries of its handler speak for it.
LEMMA InsertAssignmentInv ==
    ASSUME AssignmentsInv, NEW r \in AssignmentRequests, InsertAssignment(r),
           UNCHANGED <<vehicle, driver>>
    PROVE  AssignmentsInv'
<1> DEFINE q == areq[r]
           row == [vehicle |-> q.vehicle, driver |-> q.driver,
                   start |-> q.start, end |-> q.end, deleted |-> FALSE]
<1>1. /\ q \in AssignmentRequest /\ AssignmentRequestOK(r)
      /\ TenantHeld(r) /\ OverlapHolds(r)
      /\ q.pc = "write" /\ q.op = "create"
  BY DEF InsertAssignment, AssignmentIdle, AssignmentsInv, AssignmentsTypeInv,
         AssignmentsTypeOK
<1>2. /\ q.vehicle \in Vehicles /\ q.driver \in Drivers
      /\ q.start \in Days /\ q.end \in Days \cup {None}
  BY <1>1 DEF AssignmentRequestOK
<1>3. row \in Assignment
  BY <1>2 DEF Assignment
<1>4. /\ row.vehicle = q.vehicle /\ row.driver = q.driver
      /\ row.start = q.start /\ row.end = q.end /\ row.deleted = FALSE
  OBVIOUS
<1>5. PICK a \in AssignmentIds \ DOMAIN assignment :
         assignment' = Insert(assignment, a, row) /\ AssignmentWritten(r, a)
  BY DEF InsertAssignment
<1> HIDE DEF row
<1>6. /\ IsTable(assignment', AssignmentIds, Assignment)
      /\ DOMAIN assignment' = DOMAIN assignment \cup {a}
      /\ assignment'[a] = row
      /\ \A b \in DOMAIN assignment : b # a => assignment'[b] = assignment[b]
  BY <1>3, <1>5 DEF Insert, IsTable, AssignmentsInv, AssignmentsTypeInv
<1>7. vehicle[row.vehicle].tenant = q.tenant /\ driver[row.driver].tenant = q.tenant
  BY <1>1, <1>2, <1>4, SentinelAssumption DEF TenantHeld
<1>8. AssignmentWrite(r, a)
  BY <1>5, <1>6, <1>7 DEF AssignmentWrite, InsertAssignment
<1>9. ASSUME NEW b \in DOMAIN assignment, AssignmentsOverlap(a, b)', b # a
      PROVE  b \in amissed[r] \/ {a, b} \cap edited' # {}
  <2>1. PeriodsMeet(assignment[b], q.start, q.end)
    BY <1>4, <1>6, <1>9 DEF AssignmentsOverlap, PeriodsMeet
  <2>2. assignment[b].vehicle = q.vehicle \/ assignment[b].driver = q.driver
    BY <1>4, <1>6, <1>9 DEF AssignmentsOverlap
  <2>3. edited' = edited
    BY DEF InsertAssignment
  <2> QED
    BY <1>1, <2>1, <2>2, <2>3 DEF OverlapHolds
<1> QED
  BY <1>8, <1>9, AssignmentWriteInv

\* update's write marks the row as edited, and keeps its tenant.
LEMMA WriteAssignmentInv ==
    ASSUME AssignmentsInv, NEW r \in AssignmentRequests, WriteAssignment(r),
           UNCHANGED <<vehicle, driver>>
    PROVE  AssignmentsInv'
<1> DEFINE q == areq[r]
           a == q.id
           row == [assignment[a] EXCEPT
                     !.vehicle = IF q.vehicle = Absent THEN @ ELSE q.vehicle,
                     !.driver  = IF q.driver = Absent THEN @ ELSE q.driver,
                     !.start   = IF q.start = Absent THEN @ ELSE q.start,
                     !.end     = IF q.end = Absent THEN @ ELSE q.end]
<1>1. /\ q \in AssignmentRequest /\ AssignmentRequestOK(r) /\ TenantHeld(r)
      /\ q.pc = "write" /\ q.op = "update"
  BY DEF WriteAssignment, AssignmentIdle, AssignmentsInv, AssignmentsTypeInv,
         AssignmentsTypeOK
<1>2. /\ a \in DOMAIN assignment /\ a \in AssignmentIds
      /\ assignment[a] \in Assignment
  BY <1>1 DEF AssignmentRequestOK, AssignmentsInv, AssignmentsTypeInv, IsTable
<1>3. /\ row \in Assignment
      /\ row.vehicle = IF q.vehicle = Absent THEN assignment[a].vehicle ELSE q.vehicle
      /\ row.driver = IF q.driver = Absent THEN assignment[a].driver ELSE q.driver
  BY <1>1, <1>2 DEF Assignment, AssignmentRequest
<1>4. assignment' = [assignment EXCEPT ![a] = row]
  BY <1>2 DEF WriteAssignment, Assignment
<1> HIDE DEF row
<1>5. /\ IsTable(assignment', AssignmentIds, Assignment)
      /\ DOMAIN assignment' = DOMAIN assignment \cup {a}
      /\ assignment'[a] = row
      /\ \A b \in DOMAIN assignment : b # a => assignment'[b] = assignment[b]
  BY <1>2, <1>3, <1>4 DEF IsTable, AssignmentsInv, AssignmentsTypeInv
<1>6. /\ vehicle[assignment[a].vehicle].tenant = q.tenant
      /\ driver[assignment[a].driver].tenant = q.tenant
  BY <1>1, <1>2 DEF TenantHeld, AssignmentsInv, AssignmentsStayInTenant
<1>7. vehicle[row.vehicle].tenant = q.tenant /\ driver[row.driver].tenant = q.tenant
  BY <1>1, <1>3, <1>6 DEF TenantHeld
<1>8. AssignmentWrite(r, a)
  BY <1>2, <1>5, <1>6, <1>7 DEF AssignmentWrite, WriteAssignment
<1>9. a \in edited'
  BY DEF WriteAssignment
<1> QED
  BY <1>8, <1>9, AssignmentWriteInv

\* remove's write takes the row out of every overlap.
LEMMA DeleteAssignmentInv ==
    ASSUME AssignmentsInv, NEW r \in AssignmentRequests, DeleteAssignment(r),
           UNCHANGED <<vehicle, driver>>
    PROVE  AssignmentsInv'
<1> PICK a : a = areq[r].id
  OBVIOUS
<1> DEFINE q == areq[r]
           row == [assignment[a] EXCEPT !.deleted = TRUE]
<1>1. /\ AssignmentRequestOK(r) /\ q.op = "remove"
  BY DEF DeleteAssignment, AssignmentIdle, AssignmentsInv, AssignmentsTypeInv
<1>2. /\ a \in DOMAIN assignment /\ a \in AssignmentIds
      /\ assignment[a] \in Assignment
  BY <1>1 DEF AssignmentRequestOK, AssignmentsInv, AssignmentsTypeInv, IsTable
<1>3. /\ row \in Assignment /\ row.deleted
      /\ row.vehicle = assignment[a].vehicle /\ row.driver = assignment[a].driver
  BY <1>2 DEF Assignment
<1>4. assignment' = [assignment EXCEPT ![a] = row]
  BY <1>2 DEF DeleteAssignment, Assignment
<1> HIDE DEF row
<1>5. /\ IsTable(assignment', AssignmentIds, Assignment)
      /\ DOMAIN assignment' = DOMAIN assignment \cup {a}
      /\ assignment'[a] = row
      /\ \A b \in DOMAIN assignment : b # a => assignment'[b] = assignment[b]
  BY <1>2, <1>3, <1>4 DEF IsTable, AssignmentsInv, AssignmentsTypeInv
<1>6. AssignmentWrite(r, a)
  <2>1. AssignmentWritten(r, a) /\ edited' = edited
    BY DEF DeleteAssignment, AssignmentWritten
  <2> QED
    BY <1>2, <1>3, <1>5, <2>1 DEF AssignmentWrite, AssignmentsInv,
                                  AssignmentsStayInTenant
<1>7. \A b : ~AssignmentsOverlap(a, b)'
  BY <1>3, <1>5 DEF AssignmentsOverlap
<1> QED
  BY <1>6, <1>7, AssignmentWriteInv

----------------------------------------------------------------------------

\* The awaited queries and the writes, one case each.
LEMMA AssignmentStepInv ==
    ASSUME AssignmentsInv, NEW r \in AssignmentRequests, AssignmentStep(r),
           UNCHANGED <<vehicle, driver>>
    PROVE  AssignmentsInv'
<1>1. CASE CheckOwnVehicle(r)
  BY <1>1, CheckOwnVehicleInv
<1>2. CASE CheckOwnDriver(r)
  BY <1>2, CheckOwnDriverInv
<1>3. CASE CheckVehicleOverlap(r)
  BY <1>3, CheckVehicleOverlapInv
<1>4. CASE CheckDriverOverlap(r)
  BY <1>4, CheckDriverOverlapInv
<1>5. CASE InsertAssignment(r)
  BY <1>5, InsertAssignmentInv
<1>6. CASE WriteAssignment(r)
  BY <1>6, WriteAssignmentInv
<1>7. CASE DeleteAssignment(r)
  BY <1>7, DeleteAssignmentInv
<1> QED
  BY <1>1, <1>2, <1>3, <1>4, <1>5, <1>6, <1>7 DEF AssignmentStep

\* Every step of AssignmentsService preserves the invariant.
THEOREM AssignmentsNextInv ==
    AssignmentsInv /\ AssignmentsNext /\ UNCHANGED <<vehicle, driver>>
      => AssignmentsInv'
<1> SUFFICES ASSUME AssignmentsInv, NEW r \in AssignmentRequests,
                    UNCHANGED <<vehicle, driver>>,
                    \/ CreateAssignment(r) \/ UpdateAssignment(r)
                    \/ RemoveAssignment(r) \/ AssignmentStep(r)
                    \/ AssignmentRequestFails(r)
             PROVE  AssignmentsInv'
  BY DEF AssignmentsNext
<1>1. CASE CreateAssignment(r)
  BY <1>1, CreateAssignmentInv
<1>2. CASE UpdateAssignment(r)
  BY <1>2, UpdateAssignmentInv
<1>3. CASE RemoveAssignment(r)
  BY <1>3, RemoveAssignmentInv
<1>4. CASE AssignmentStep(r)
  BY <1>4, AssignmentStepInv
<1>5. CASE AssignmentRequestFails(r)
  BY <1>5, AssignmentReturnsInv DEF AssignmentRequestFails
<1> QED
  BY <1>1, <1>2, <1>3, <1>4, <1>5

\* So does whatever leaves the assignments, their requests and every vehicle's
\* and driver's tenant alone.
THEOREM AssignmentsUnchangedInv ==
    ASSUME AssignmentsInv, UNCHANGED assignmentVars,
           \A v \in Vehicles : vehicle'[v].tenant = vehicle[v].tenant,
           \A d \in Drivers : driver'[d].tenant = driver[d].tenant
    PROVE  AssignmentsInv'
<1>1. \A a \in DOMAIN assignment :
         assignment[a].vehicle \in Vehicles /\ assignment[a].driver \in Drivers
  BY DEF AssignmentsInv, AssignmentsTypeInv, IsTable, Assignment
<1>2. AssignmentsTypeInv'
  BY DEF AssignmentsInv, AssignmentsTypeInv, AssignmentsTypeOK, assignmentVars,
         AssignmentRequestOK, IsTable
<1>3. AssignmentsStayInTenant'
  BY <1>1 DEF AssignmentsInv, AssignmentsStayInTenant, assignmentVars
<1>4. OverlapOnlyByRaceOrUpdate'
  BY DEF AssignmentsInv, OverlapOnlyByRaceOrUpdate, AssignmentsOverlap,
         AssignmentsRaced, PeriodsMeet, assignmentVars
<1>5. ASSUME NEW r \in AssignmentRequests, areq'[r] # AssignmentIdle
      PROVE  TenantHeld(r)' /\ OverlapHolds(r)'
  <2>1. /\ areq'[r] = areq[r] /\ areq[r] \in AssignmentRequest
        /\ AssignmentRequestOK(r) /\ TenantHeld(r) /\ OverlapHolds(r)
    BY <1>5 DEF AssignmentsInv, AssignmentsTypeInv, AssignmentsTypeOK, assignmentVars
  <2>2. /\ areq[r].vehicle # Absent => areq[r].vehicle \in Vehicles
        /\ areq[r].driver # Absent => areq[r].driver \in Drivers
    BY <2>1 DEF AssignmentRequest
  <2>3. TenantHeld(r)'
    BY <1>1, <2>1, <2>2 DEF TenantHeld, AssignmentRequestOK, assignmentVars
  <2>4. OverlapHolds(r)'
    BY <2>1 DEF OverlapHolds, PeriodsMeet, assignmentVars
  <2> QED
    BY <2>3, <2>4
<1> QED
  BY <1>2, <1>3, <1>4, <1>5 DEF AssignmentsInv

\* No step takes a row away, and none but update()'s changes whose it is or
\* which period it covers: remove() only marks it.
THEOREM AssignmentsKeepRows ==
    ASSUME AssignmentsTypeInv, AssignmentsNext
    PROVE  /\ edited \subseteq edited'
           /\ \A a \in DOMAIN assignment :
                /\ a \in DOMAIN assignment'
                /\ \/ a \in edited'
                   \/ /\ assignment'[a].vehicle = assignment[a].vehicle
                      /\ assignment'[a].driver = assignment[a].driver
                      /\ assignment'[a].start = assignment[a].start
                      /\ assignment'[a].end = assignment[a].end
<1> PICK r \in AssignmentRequests :
         \/ CreateAssignment(r) \/ UpdateAssignment(r)
         \/ RemoveAssignment(r) \/ AssignmentStep(r)
         \/ AssignmentRequestFails(r)
  BY DEF AssignmentsNext
<1>1. CASE UNCHANGED <<assignment, edited>>
  BY <1>1
<1>2. CASE InsertAssignment(r)
  <2>1. PICK a \in AssignmentIds \ DOMAIN assignment :
           \E row : assignment' = Insert(assignment, a, row)
    BY <1>2 DEF InsertAssignment
  <2>2. edited' = edited
    BY <1>2 DEF InsertAssignment
  <2> QED
    BY <2>1, <2>2 DEF Insert
<1>3. CASE WriteAssignment(r)
  BY <1>3 DEF WriteAssignment
<1>4. CASE DeleteAssignment(r)
  <2>1. /\ assignment' = [assignment EXCEPT ![areq[r].id].deleted = TRUE]
        /\ edited' = edited
    BY <1>4 DEF DeleteAssignment
  <2>2. assignment \in [DOMAIN assignment -> Assignment]
    BY DEF AssignmentsTypeInv, IsTable
  <2> QED
    BY <2>1, <2>2 DEF Assignment
<1>5. \/ UNCHANGED <<assignment, edited>> \/ InsertAssignment(r)
      \/ WriteAssignment(r) \/ DeleteAssignment(r)
  BY DEF CreateAssignment, UpdateAssignment, RemoveAssignment, AssignmentStep,
         AssignmentRequestFails, CheckOwnVehicle, CheckOwnDriver,
         CheckVehicleOverlap, CheckDriverOverlap, AssignmentProceeds
<1> QED
  BY <1>1, <1>2, <1>3, <1>4, <1>5

----------------------------------------------------------------------------
(***************************************************************************)
(* Dates.  update() validates both dates, one of them as it read it.       *)
(***************************************************************************)

\* A create's dates are in order; an update's are, next to what it leaves of its
\* row, unless the row was written since it was read.
DatesHeld(r) ==
    LET q == areq[r] IN
    /\ q.op = "create" => DatesInOrder(q.start, q.end)
    /\ q.op = "update" =>
         \/ q.id \in amissed[r]
         \/ DatesInOrder(IF q.start = Absent THEN assignment[q.id].start ELSE q.start,
                         IF q.end = Absent THEN assignment[q.id].end ELSE q.end)

DatesInv == \A r \in AssignmentRequests : areq[r] # AssignmentIdle => DatesHeld(r)

\* A step that writes no row, of a handler whose dates are in order or that
\* returns.
LEMMA UnwrittenDatesInv ==
    ASSUME DatesInv, NEW r \in AssignmentRequests, UNCHANGED assignment,
           \A x \in AssignmentRequests :
               x # r => areq'[x] = areq[x] /\ amissed'[x] = amissed[x],
           areq'[r] = AssignmentIdle \/ DatesHeld(r)'
    PROVE  DatesInv'
<1> SUFFICES ASSUME NEW x \in AssignmentRequests, areq'[x] # AssignmentIdle
             PROVE  DatesHeld(x)'
  BY DEF DatesInv
<1>1. CASE x = r
  BY <1>1
<1>2. CASE x # r
  BY <1>2 DEF DatesInv, DatesHeld, DatesInOrder
<1> QED
  BY <1>1, <1>2

\* A check of a vehicle, a driver or an overlap leaves the dates alone.
LEMMA AssignmentProceedsDatesInv ==
    ASSUME AssignmentsTypeInv, DatesInv, NEW r \in AssignmentRequests, NEW ok, NEW pc,
           areq[r] # AssignmentIdle, AssignmentProceeds(r, ok, pc)
    PROVE  DatesInv'
<1>1. /\ areq[r] \in AssignmentRequest /\ DOMAIN areq = AssignmentRequests
      /\ amissed \in [AssignmentRequests -> SUBSET AssignmentIds] /\ DatesHeld(r)
  BY DEF AssignmentsTypeInv, AssignmentsTypeOK, DatesInv
<1>2. /\ UNCHANGED assignment
      /\ \A x \in AssignmentRequests :
             x # r => areq'[x] = areq[x] /\ amissed'[x] = amissed[x]
  BY <1>1 DEF AssignmentProceeds, AssignmentReturns
<1>3. CASE ~ok
  <2>1. areq'[r] = AssignmentIdle
    BY <1>1, <1>3 DEF AssignmentProceeds, AssignmentReturns
  <2> QED
    BY <1>2, <2>1, UnwrittenDatesInv
<1>4. CASE ok
  <2>1. areq'[r] = [areq[r] EXCEPT !.pc = pc] /\ UNCHANGED amissed
    BY <1>1, <1>4 DEF AssignmentProceeds
  <2>2. /\ areq'[r].op = areq[r].op /\ areq'[r].id = areq[r].id
        /\ areq'[r].start = areq[r].start /\ areq'[r].end = areq[r].end
    BY <1>1, <2>1 DEF AssignmentRequest
  <2>3. DatesHeld(r)'
    BY <1>1, <1>2, <2>1, <2>2 DEF DatesHeld, DatesInOrder
  <2> QED
    BY <1>2, <2>3, UnwrittenDatesInv
<1> QED
  BY <1>3, <1>4

\* A write of row a: a handler that is to update a knows of it, and the rows of
\* the others are as they were.
LEMMA AssignmentWrittenDatesInv ==
    ASSUME AssignmentsTypeInv, DatesInv, NEW r \in AssignmentRequests, NEW a,
           AssignmentWritten(r, a),
           \A b \in DOMAIN assignment : b # a => assignment'[b] = assignment[b]
    PROVE  DatesInv'
<1> SUFFICES ASSUME NEW x \in AssignmentRequests, areq'[x] # AssignmentIdle
             PROVE  DatesHeld(x)'
  BY DEF DatesInv
<1>1. /\ x # r /\ areq'[x] = areq[x] /\ DatesHeld(x) /\ AssignmentRequestOK(x)
  BY DEF AssignmentWritten, AssignmentsTypeInv, AssignmentsTypeOK, DatesInv
<1>2. /\ amissed[x] \subseteq amissed'[x]
      /\ areq[x].op = "update" /\ areq[x].id = a => a \in amissed'[x]
  BY <1>1 DEF AssignmentWritten, HasRead
<1>3. CASE areq[x].op = "update" /\ areq[x].id # a
  <2>1. assignment'[areq[x].id] = assignment[areq[x].id]
    BY <1>1, <1>3 DEF AssignmentRequestOK
  <2> QED
    BY <1>1, <1>2, <1>3, <2>1 DEF DatesHeld, DatesInOrder
<1>4. CASE areq[x].op = "update" /\ areq[x].id = a
  BY <1>1, <1>2, <1>4 DEF DatesHeld
<1>5. CASE areq[x].op # "update"
  BY <1>1, <1>5 DEF DatesHeld, DatesInOrder
<1> QED
  BY <1>3, <1>4, <1>5

\* Every step of AssignmentsService keeps what its requests know of dates.
THEOREM AssignmentsNextDatesInv ==
    ASSUME AssignmentsTypeInv, DatesInv, AssignmentsNext
    PROVE  DatesInv'
<1> PICK r \in AssignmentRequests :
         \/ CreateAssignment(r) \/ UpdateAssignment(r)
         \/ RemoveAssignment(r) \/ AssignmentStep(r)
         \/ AssignmentRequestFails(r)
  BY DEF AssignmentsNext
<1>0. DOMAIN areq = AssignmentRequests
  BY DEF AssignmentsTypeInv, AssignmentsTypeOK
<1>1. CASE CreateAssignment(r)
  <2>1. PICK t \in Tenants, dto \in CreateAssignmentDto :
          /\ DatesInOrder(dto.start, dto.end)
          /\ areq' = [areq EXCEPT ![r] =
               [pc |-> "vehicle", op |-> "create", tenant |-> t, id |-> None,
                vehicle |-> dto.vehicle, driver |-> dto.driver,
                start |-> dto.start, end |-> dto.end,
                askVehicle |-> TRUE, askDriver |-> TRUE]]
    BY <1>1 DEF CreateAssignment
  <2>2. /\ areq'[r].op = "create" /\ areq'[r].start = dto.start /\ areq'[r].end = dto.end
        /\ \A x \in AssignmentRequests : x # r => areq'[x] = areq[x]
    BY <1>0, <2>1
  <2>3. DatesHeld(r)'
    BY <2>1, <2>2 DEF DatesHeld, DatesInOrder
  <2> QED
    BY <1>1, <2>2, <2>3, UnwrittenDatesInv DEF CreateAssignment
<1>2. CASE UpdateAssignment(r)
  <2>1. PICK t \in Tenants, a \in AssignmentIds, dto \in UpdateAssignmentDto :
          /\ DatesInOrder(
               IF dto.start = Absent THEN assignment[a].start ELSE dto.start,
               IF dto.end = Absent THEN assignment[a].end ELSE dto.end)
          /\ areq' = [areq EXCEPT ![r] = UpdateRequest(t, a, dto)]
    BY <1>2 DEF UpdateAssignment
  <2>2. /\ areq'[r].op = "update" /\ areq'[r].id = a
        /\ areq'[r].start = dto.start /\ areq'[r].end = dto.end
        /\ \A x \in AssignmentRequests : x # r => areq'[x] = areq[x]
    BY <1>0, <2>1 DEF UpdateRequest
  <2>3. UNCHANGED <<assignment, amissed>>
    BY <1>2 DEF UpdateAssignment
  <2>4. DatesHeld(r)'
    BY <2>1, <2>2, <2>3 DEF DatesHeld, DatesInOrder
  <2> QED
    BY <2>2, <2>3, <2>4, UnwrittenDatesInv
<1>3. CASE RemoveAssignment(r)
  <2>1. /\ areq'[r].op = "remove" /\ UNCHANGED <<assignment, amissed>>
        /\ \A x \in AssignmentRequests : x # r => areq'[x] = areq[x]
    BY <1>0, <1>3 DEF RemoveAssignment
  <2>2. DatesHeld(r)'
    BY <2>1 DEF DatesHeld
  <2> QED
    BY <2>1, <2>2, UnwrittenDatesInv
<1>4. CASE AssignmentRequestFails(r)
  <2>1. /\ areq'[r] = AssignmentIdle /\ UNCHANGED assignment
        /\ \A x \in AssignmentRequests :
               x # r => areq'[x] = areq[x] /\ amissed'[x] = amissed[x]
    BY <1>0, <1>4 DEF AssignmentRequestFails, AssignmentReturns, AssignmentsTypeInv,
                      AssignmentsTypeOK
  <2> QED
    BY <2>1, UnwrittenDatesInv
<1>5. CASE \/ CheckOwnVehicle(r) \/ CheckOwnDriver(r)
           \/ CheckVehicleOverlap(r) \/ CheckDriverOverlap(r)
  <2>1. areq[r] # AssignmentIdle
    BY <1>5 DEF AssignmentIdle, CheckOwnVehicle, CheckOwnDriver, CheckVehicleOverlap,
                CheckDriverOverlap
  <2>2. PICK ok, pc : AssignmentProceeds(r, ok, pc)
    <3>1. CASE CheckOwnVehicle(r)
      BY <3>1 DEF CheckOwnVehicle
    <3>2. CASE CheckOwnDriver(r)
      BY <3>2 DEF CheckOwnDriver
    <3>3. CASE CheckVehicleOverlap(r)
      BY <3>3 DEF CheckVehicleOverlap
    <3>4. CASE CheckDriverOverlap(r)
      BY <3>4 DEF CheckDriverOverlap
    <3> QED
      BY <1>5, <3>1, <3>2, <3>3, <3>4
  <2> QED
    BY <2>1, <2>2, AssignmentProceedsDatesInv
<1>6. CASE InsertAssignment(r)
  BY <1>6, AssignmentWrittenDatesInv DEF InsertAssignment, Insert
<1>7. CASE WriteAssignment(r)
  BY <1>7, AssignmentWrittenDatesInv DEF WriteAssignment
<1>8. CASE DeleteAssignment(r)
  BY <1>8, AssignmentWrittenDatesInv DEF DeleteAssignment
<1> QED
  BY <1>1, <1>2, <1>3, <1>4, <1>5, <1>6, <1>7, <1>8 DEF AssignmentStep

\* The only step after which an assignment it wrote may end before it starts is
\* the update of a row that was written since it was read.
THEOREM AssignmentsNextDates ==
    ASSUME AssignmentsTypeInv, DatesInv, AssignmentsNext, NEW a \in DOMAIN assignment'
    PROVE  \/ DatesInOrder(assignment'[a].start, assignment'[a].end)
           \/ /\ a \in DOMAIN assignment
              /\ assignment'[a].start = assignment[a].start
              /\ assignment'[a].end = assignment[a].end
           \/ \E r \in AssignmentRequests :
                /\ areq[r].op = "update" /\ areq[r].id = a /\ a \in amissed[r]
                /\ areq'[r] = AssignmentIdle
<1> PICK r \in AssignmentRequests :
         \/ CreateAssignment(r) \/ UpdateAssignment(r)
         \/ RemoveAssignment(r) \/ AssignmentStep(r)
         \/ AssignmentRequestFails(r)
  BY DEF AssignmentsNext
<1>0. assignment \in [DOMAIN assignment -> Assignment]
  BY DEF AssignmentsTypeInv, IsTable
<1>1. CASE UNCHANGED assignment
  BY <1>1
<1>2. CASE InsertAssignment(r)
  <2>1. PICK b \in AssignmentIds \ DOMAIN assignment :
          assignment' = Insert(assignment, b,
            [vehicle |-> areq[r].vehicle, driver |-> areq[r].driver,
             start |-> areq[r].start, end |-> areq[r].end, deleted |-> FALSE])
    BY <1>2 DEF InsertAssignment
  <2>2. DatesInOrder(areq[r].start, areq[r].end)
    BY <1>2 DEF InsertAssignment, AssignmentIdle, DatesInv, DatesHeld
  <2>3. CASE a = b
    <3>1. assignment'[a].start = areq[r].start /\ assignment'[a].end = areq[r].end
      BY <2>1, <2>3 DEF Insert
    <3> QED
      BY <2>2, <3>1
  <2>4. CASE a # b
    <3>1. a \in DOMAIN assignment /\ assignment'[a] = assignment[a]
      BY <2>1, <2>4 DEF Insert
    <3> QED
      BY <3>1
  <2> QED
    BY <2>3, <2>4
<1>3. CASE WriteAssignment(r)
  <2> DEFINE q == areq[r]
  <2>1. /\ q.op = "update" /\ DatesHeld(r) /\ q.id \in DOMAIN assignment
        /\ areq'[r] = AssignmentIdle
    BY <1>3 DEF WriteAssignment, AssignmentWritten, AssignmentIdle, DatesInv,
                AssignmentsTypeInv, AssignmentsTypeOK, AssignmentRequestOK
  <2>2. CASE a # q.id
    <3>1. a \in DOMAIN assignment /\ assignment'[a] = assignment[a]
      BY <1>0, <1>3, <2>2 DEF WriteAssignment
    <3> QED
      BY <3>1
  <2>3. CASE a = q.id
    <3>1. /\ assignment'[a].start = IF q.start = Absent THEN assignment[a].start ELSE q.start
          /\ assignment'[a].end = IF q.end = Absent THEN assignment[a].end ELSE q.end
      BY <1>0, <1>3, <2>1, <2>3 DEF WriteAssignment, Assignment
    <3> QED
      BY <2>1, <2>3, <3>1 DEF DatesHeld
  <2> QED
    BY <2>2, <2>3
<1>4. CASE DeleteAssignment(r)
  <2>1. assignment' = [assignment EXCEPT ![areq[r].id].deleted = TRUE]
    BY <1>4 DEF DeleteAssignment
  <2> QED
    BY <1>0, <2>1 DEF Assignment
<1>5. \/ UNCHANGED assignment \/ InsertAssignment(r)
      \/ WriteAssignment(r) \/ DeleteAssignment(r)
  BY DEF CreateAssignment, UpdateAssignment, RemoveAssignment, AssignmentStep,
         AssignmentRequestFails, CheckOwnVehicle, CheckOwnDriver,
         CheckVehicleOverlap, CheckDriverOverlap, AssignmentProceeds
<1> QED
  BY <1>1, <1>2, <1>3, <1>4, <1>5

----------------------------------------------------------------------------
(***************************************************************************)
(* One assignment request at a time: no row is missed and none races.      *)
(***************************************************************************)
OneAssignmentRequest == \A q, r \in AssignmentRequests : q = r

SerialAssignmentsInv ==
    /\ araced = {}
    /\ \A r \in AssignmentRequests : amissed[r] = {}

\* A single slot is told of no write but its own.
THEOREM AssignmentsNextSerialInv ==
    ASSUME OneAssignmentRequest, AssignmentsTypeOK, SerialAssignmentsInv, AssignmentsNext
    PROVE  SerialAssignmentsInv'
<1> PICK r \in AssignmentRequests :
         \/ CreateAssignment(r) \/ UpdateAssignment(r) \/ RemoveAssignment(r)
         \/ AssignmentStep(r) \/ AssignmentRequestFails(r)
  BY DEF AssignmentsNext
<1>1. CASE UNCHANGED <<araced, amissed>>
  BY <1>1 DEF SerialAssignmentsInv
<1>2. CASE AssignmentReturns(r) /\ UNCHANGED araced
  BY <1>2 DEF AssignmentReturns, SerialAssignmentsInv, AssignmentsTypeOK
<1>3. CASE \E a : AssignmentWritten(r, a)
  <2>1. PICK a : AssignmentWritten(r, a)
    BY <1>3
  <2>2. araced' = araced \cup ({a} \X (amissed[r] \ {a}))
    BY <2>1 DEF AssignmentWritten
  <2>3. \A q \in AssignmentRequests : amissed'[q] = {}
    BY <2>1 DEF AssignmentWritten, OneAssignmentRequest
  <2> QED
    BY <2>2, <2>3 DEF SerialAssignmentsInv
<1>4. CASE InsertAssignment(r) \/ WriteAssignment(r) \/ DeleteAssignment(r)
  BY <1>3, <1>4 DEF InsertAssignment, WriteAssignment, DeleteAssignment
<1>5. CASE CheckOwnVehicle(r) \/ CheckOwnDriver(r) \/ CheckVehicleOverlap(r)
           \/ CheckDriverOverlap(r)
  BY <1>1, <1>2, <1>5 DEF CheckOwnVehicle, CheckOwnDriver, CheckVehicleOverlap,
                          CheckDriverOverlap, AssignmentProceeds
<1>6. CASE CreateAssignment(r) \/ UpdateAssignment(r) \/ RemoveAssignment(r)
  BY <1>1, <1>6 DEF CreateAssignment, UpdateAssignment, RemoveAssignment
<1>7. CASE AssignmentRequestFails(r)
  BY <1>2, <1>7 DEF AssignmentRequestFails
<1> QED
  BY <1>4, <1>5, <1>6, <1>7 DEF AssignmentStep

=============================================================================
