------------------------------ MODULE TripsProofs ------------------------------
(***************************************************************************)
(* Proofs about the steps of TripsService.  TripsInv is inductive under    *)
(* TripsNext.  It speaks of the vehicles and drivers as well, which trips  *)
(* and administrators write, so the steps of Registry have to preserve it  *)
(* too: FleetProofs shows that they do.                                    *)
(***************************************************************************)
EXTENDS Trips, TLAPS

\* What an in-flight request knows of the trip it is about.
TripRequestOK(r) ==
    LET q == treq[r] IN
    /\ q.op = "start" => q.driver \in Drivers
    /\ q.op # "start" => q.trip \in DOMAIN trip /\ q.vehicle = trip[q.trip].vehicle
    /\ q.pc \in {"assignment", "vehicle", "activeTrip"} => q.op = "start"
    /\ q.pc = "ownTrip" => q.op = "end"
    /\ q.pc = "clock" => q.op # "update"
    /\ q.at = None => q.pc \in {"clock", "ownTrip"} \/ q.op = "update"

RegisteredTypeOK ==
    /\ vehicle \in [Vehicles -> Vehicle]
    /\ driver \in [Drivers -> Driver]
    /\ overridden \subseteq Vehicles \cup Drivers

TripsTypeInv ==
    /\ now \in Clock
    /\ RegisteredTypeOK
    /\ IsTable(trip, TripIds, Trip)
    /\ TripsTypeOK
    /\ \A r \in TripRequests : treq[r] # TripIdle => TripRequestOK(r)

\* The instant a request holds is not in the future, and an endTrip's is not
\* before the start of its trip.
InstantHeld(r) ==
    LET q == treq[r] IN
    q.at # None => /\ q.at <= now
                   /\ q.op = "end" => trip[q.trip].start <= q.at

TripsInv ==
    /\ TripsTypeInv
    /\ NothingStranded
    /\ TripTimesOrdered
    /\ \A r \in TripRequests : treq[r] # TripIdle => InstantHeld(r)

----------------------------------------------------------------------------

\* A fleet without trips: every vehicle is AVAILABLE and every driver free.
LEMMA TripsInvInit ==
    ASSUME RegisteredFleet, trip = <<>>, TripsInit
    PROVE  TripsInv
<1>1. DOMAIN trip = {}
  OBVIOUS
<1>2. RegisteredTypeOK /\ now \in Clock
  BY DEF RegisteredFleet, RegisteredTypeOK, Vehicle, VehicleStatus, Driver
<1>3. TripsTypeInv
  BY <1>1, <1>2 DEF TripsInit, TripsTypeInv, TripsTypeOK, IsTable
<1>4. NothingStranded
  <2>1. \A v \in Vehicles : vehicle[v].status = "AVAILABLE"
    BY DEF RegisteredFleet
  <2>2. \A d \in Drivers : driver[d].isAvailable = TRUE
    BY DEF RegisteredFleet
  <2> QED
    BY <2>1, <2>2 DEF NothingStranded
<1>5. TripTimesOrdered
  BY <1>1 DEF TripTimesOrdered
<1>6. \A r \in TripRequests : treq[r] = TripIdle
  BY DEF TripsInit
<1> QED
  BY <1>3, <1>4, <1>5, <1>6 DEF TripsInv

\* A step that writes no row: the handler in slot r starts, moves on, returns
\* or throws.
LEMMA UnwrittenTripsInv ==
    ASSUME TripsInv, NEW r \in TripRequests,
           UNCHANGED <<trip, traced, vehicle, driver, overridden, now>>,
           DOMAIN treq' = TripRequests,
           \A x \in TripRequests : x # r => treq'[x] = treq[x],
           tmissed' \in [TripRequests -> SUBSET TripIds],
           \/ treq'[r] = TripIdle
           \/ treq'[r] \in TripRequest /\ TripRequestOK(r)' /\ InstantHeld(r)'
    PROVE  TripsInv'
<1>1. RegisteredTypeOK' /\ NothingStranded' /\ TripTimesOrdered'
      /\ IsTable(trip, TripIds, Trip)' /\ (now \in Clock)'
  BY DEF TripsInv, TripsTypeInv, RegisteredTypeOK, IsTable, NothingStranded,
         TripTimesOrdered, ActiveTrip
<1>2. \A x \in TripRequests : treq'[x] # TripIdle
         => TripRequestOK(x)' /\ InstantHeld(x)'
  BY DEF TripsInv, TripsTypeInv, TripRequestOK, InstantHeld
<1>3. TripsTypeOK'
  BY DEF TripsInv, TripsTypeInv, TripsTypeOK
<1> QED
  BY <1>1, <1>2, <1>3 DEF TripsInv, TripsTypeInv

\* A handler that returns or throws takes what it knew with it.
LEMMA TripReturnsInv ==
    ASSUME TripsInv, NEW r \in TripRequests, TripReturns(r),
           UNCHANGED <<trip, traced, vehicle, driver, overridden, now>>
    PROVE  TripsInv'
BY UnwrittenTripsInv DEF TripReturns, TripsInv, TripsTypeInv, TripsTypeOK

\* The queries write nothing; they only let the handler go on.
LEMMA TripProceedsInv ==
    ASSUME TripsInv, NEW r \in TripRequests, NEW ok,
           NEW pc \in {"clock", "vehicle", "activeTrip", "write"},
           treq[r] # TripIdle,
           \/ /\ treq[r].pc \in {"assignment", "vehicle", "activeTrip"}
              /\ pc # "clock"
           \/ treq[r].pc = "ownTrip" /\ pc = "clock",
           TripProceeds(r, ok, pc), UNCHANGED now
    PROVE  TripsInv'
<1>1. CASE ~ok
  BY <1>1, TripReturnsInv DEF TripProceeds
<1>2. CASE ok
  <2>1. /\ treq[r] \in TripRequest /\ TripRequestOK(r) /\ InstantHeld(r)
        /\ DOMAIN treq = TripRequests
    BY DEF TripsInv, TripsTypeInv, TripsTypeOK
  <2>2. /\ DOMAIN treq' = TripRequests
        /\ treq'[r] = [treq[r] EXCEPT !.pc = pc]
        /\ \A x \in TripRequests : x # r => treq'[x] = treq[x]
        /\ UNCHANGED <<trip, traced, vehicle, driver, overridden, tmissed>>
    BY <1>2, <2>1 DEF TripProceeds
  <2>3. /\ treq'[r] \in TripRequest /\ treq'[r].op = treq[r].op
        /\ treq'[r].driver = treq[r].driver /\ treq'[r].at = treq[r].at
        /\ treq'[r].trip = treq[r].trip /\ treq'[r].vehicle = treq[r].vehicle
        /\ treq'[r].pc = pc
    BY <2>1, <2>2 DEF TripRequest
  <2>4. TripRequestOK(r)'
    BY <2>1, <2>2, <2>3 DEF TripRequestOK
  <2>5. InstantHeld(r)'
    BY <2>1, <2>2, <2>3 DEF InstantHeld
  <2> QED
    BY <2>2, <2>3, <2>4, <2>5, UnwrittenTripsInv
       DEF TripsInv, TripsTypeInv, TripsTypeOK
<1> QED
  BY <1>1, <1>2

----------------------------------------------------------------------------
(***************************************************************************)
(* Requests that are accepted.                                             *)
(***************************************************************************)

\* startTrip holds the caller's driver profile.
LEMMA StartTripInv ==
    ASSUME TripsInv, NEW r \in TripRequests, StartTrip(r), UNCHANGED now
    PROVE  TripsInv'
<1>1. PICK v \in Vehicles, d \in Drivers :
         treq' = [treq EXCEPT ![r] =
              [pc |-> "clock", op |-> "start", trip |-> None,
               vehicle |-> v, driver |-> d, at |-> None, income |-> Absent]]
  BY DEF StartTrip
<1>2. /\ DOMAIN treq' = TripRequests
      /\ \A x \in TripRequests : x # r => treq'[x] = treq[x]
      /\ treq'[r] = [pc |-> "clock", op |-> "start", trip |-> None,
                     vehicle |-> v, driver |-> d, at |-> None, income |-> Absent]
  BY <1>1 DEF TripsInv, TripsTypeInv, TripsTypeOK
<1>3. treq'[r] \in TripRequest
  BY <1>2 DEF TripRequest
<1>4. TripRequestOK(r)' /\ InstantHeld(r)'
  BY <1>2 DEF TripRequestOK, InstantHeld
<1> QED
  BY <1>2, <1>3, <1>4, UnwrittenTripsInv
     DEF StartTrip, TripsInv, TripsTypeInv, TripsTypeOK

\* endTrip holds the trip it read and its vehicle.
LEMMA EndTripInv ==
    ASSUME TripsInv, NEW r \in TripRequests, EndTrip(r), UNCHANGED now
    PROVE  TripsInv'
<1>1. PICK t \in TripIds, dto \in UpdateTripDto, caller \in Drivers \cup {None} :
         /\ t \in DOMAIN trip
         /\ treq' = [treq EXCEPT ![r] =
              [pc |-> IF caller = None THEN "clock" ELSE "ownTrip",
               op |-> "end", trip |-> t, vehicle |-> trip[t].vehicle,
               driver |-> caller, at |-> None, income |-> dto]]
  BY DEF EndTrip, FindTrip
<1> DEFINE q == [pc |-> IF caller = None THEN "clock" ELSE "ownTrip",
                 op |-> "end", trip |-> t, vehicle |-> trip[t].vehicle,
                 driver |-> caller, at |-> None, income |-> dto]
<1>2. /\ DOMAIN treq' = TripRequests
      /\ \A x \in TripRequests : x # r => treq'[x] = treq[x]
      /\ treq'[r] = q
  BY <1>1 DEF TripsInv, TripsTypeInv, TripsTypeOK
<1>3. trip[t] \in Trip
  BY <1>1 DEF TripsInv, TripsTypeInv, IsTable
<1>4. q \in TripRequest
  BY <1>3 DEF TripRequest, Trip, UpdateTripDto
<1>5. TripRequestOK(r)' /\ InstantHeld(r)'
  BY <1>1, <1>2, <1>3 DEF TripRequestOK, InstantHeld, EndTrip
<1> QED
  BY <1>2, <1>4, <1>5, UnwrittenTripsInv
     DEF EndTrip, TripsInv, TripsTypeInv, TripsTypeOK

\* updateTrip holds the trip it read.
LEMMA UpdateTripInv ==
    ASSUME TripsInv, NEW r \in TripRequests, UpdateTrip(r), UNCHANGED now
    PROVE  TripsInv'
<1>1. PICK t \in TripIds, dto \in UpdateTripDto :
         /\ t \in DOMAIN trip
         /\ treq' = [treq EXCEPT ![r] =
              [pc |-> "write", op |-> "update", trip |-> t,
               vehicle |-> trip[t].vehicle, driver |-> None, at |-> None,
               income |-> dto]]
  BY DEF UpdateTrip, FindTrip
<1> DEFINE q == [pc |-> "write", op |-> "update", trip |-> t,
                 vehicle |-> trip[t].vehicle, driver |-> None, at |-> None,
                 income |-> dto]
<1>2. /\ DOMAIN treq' = TripRequests
      /\ \A x \in TripRequests : x # r => treq'[x] = treq[x]
      /\ treq'[r] = q
  BY <1>1 DEF TripsInv, TripsTypeInv, TripsTypeOK
<1>3. trip[t] \in Trip
  BY <1>1 DEF TripsInv, TripsTypeInv, IsTable
<1>4. q \in TripRequest
  BY <1>3 DEF TripRequest, Trip, UpdateTripDto
<1>5. TripRequestOK(r)' /\ InstantHeld(r)'
  BY <1>1, <1>2 DEF TripRequestOK, InstantHeld, UpdateTrip
<1> QED
  BY <1>2, <1>4, <1>5, UnwrittenTripsInv
     DEF UpdateTrip, TripsInv, TripsTypeInv, TripsTypeOK

\* The instant read is the present one, not before the start of any trip.
LEMMA ReadClockInv ==
    ASSUME TripsInv, NEW r \in TripRequests, ReadClock(r), UNCHANGED now
    PROVE  TripsInv'
<1> DEFINE pc == IF treq[r].op = "start" THEN "assignment" ELSE "write"
<1>1. /\ treq[r] # TripIdle /\ treq[r] \in TripRequest
      /\ TripRequestOK(r) /\ DOMAIN treq = TripRequests
      /\ treq[r].op \in {"start", "end"}
  BY DEF ReadClock, TripIdle, TripsInv, TripsTypeInv, TripsTypeOK,
         TripRequestOK, TripRequest
<1>2. /\ DOMAIN treq' = TripRequests
      /\ treq'[r] = [treq[r] EXCEPT !.pc = pc, !.at = now]
      /\ \A x \in TripRequests : x # r => treq'[x] = treq[x]
      /\ UNCHANGED <<trip, traced, vehicle, driver, overridden, tmissed>>
  BY <1>1 DEF ReadClock
<1>3. now \in Days /\ now \in Int /\ now # None
  BY DaysAssumption, SentinelAssumption DEF TripsInv, TripsTypeInv
<1>4. /\ treq'[r] \in TripRequest /\ treq'[r].pc = pc
      /\ treq'[r].op = treq[r].op /\ treq'[r].at = now
      /\ treq'[r].trip = treq[r].trip /\ treq'[r].vehicle = treq[r].vehicle
      /\ treq'[r].driver = treq[r].driver
  BY <1>1, <1>2, <1>3 DEF TripRequest
<1>5. TripRequestOK(r)'
  BY <1>1, <1>2, <1>3, <1>4 DEF TripRequestOK
<1>6. InstantHeld(r)'
  BY <1>1, <1>2, <1>3, <1>4
     DEF InstantHeld, TripRequestOK, TripsInv, TripTimesOrdered
<1> QED
  BY <1>2, <1>4, <1>5, <1>6, UnwrittenTripsInv
     DEF TripsInv, TripsTypeInv, TripsTypeOK

----------------------------------------------------------------------------
(***************************************************************************)
(* The writes.                                                             *)
(***************************************************************************)

\* Request r writes trip t, which is new or keeps whose trip it is.
TripWrite(r, t) ==
    /\ t \in TripIds
    /\ IsTable(trip', TripIds, Trip)
    /\ DOMAIN trip' = DOMAIN trip \cup {t}
    /\ \A u \in DOMAIN trip : u # t => trip'[u] = trip[u]
    /\ t \in DOMAIN trip => /\ trip'[t].vehicle = trip[t].vehicle
                            /\ trip'[t].driver = trip[t].driver
                            /\ trip'[t].start = trip[t].start
    /\ treq' = [treq EXCEPT ![r] = TripIdle]
    /\ tmissed' \in [TripRequests -> SUBSET TripIds]
    /\ traced' \subseteq TripIds \X TripIds

\* The bookkeeping of a committed trip keeps its types.
LEMMA TripWrittenType ==
    ASSUME TripsInv, NEW r \in TripRequests, NEW t \in TripIds, TripWritten(r, t)
    PROVE  /\ treq' = [treq EXCEPT ![r] = TripIdle]
           /\ tmissed' \in [TripRequests -> SUBSET TripIds]
           /\ traced' \subseteq TripIds \X TripIds
BY DEF TripsInv, TripsTypeInv, TripsTypeOK, TripWritten

\* A write keeps the invariant when no vehicle or driver is stranded after it
\* and the instants of the written trip are in order.
LEMMA TripWriteInv ==
    ASSUME TripsInv, NEW r \in TripRequests, NEW t, TripWrite(r, t),
           UNCHANGED now, RegisteredTypeOK', NothingStranded',
           trip'[t].start <= now,
           trip'[t].end # None => /\ trip'[t].start <= trip'[t].end
                                  /\ trip'[t].end <= now
    PROVE  TripsInv'
<1>1. /\ DOMAIN treq' = TripRequests /\ treq'[r] = TripIdle
      /\ \A x \in TripRequests : x # r => treq'[x] = treq[x]
  BY DEF TripWrite, TripsInv, TripsTypeInv, TripsTypeOK
<1>2. TripTimesOrdered'
  BY DEF TripWrite, TripsInv, TripTimesOrdered
<1>3. ASSUME NEW x \in TripRequests, treq'[x] # TripIdle
      PROVE  TripRequestOK(x)' /\ InstantHeld(x)'
  <2>1. x # r /\ treq'[x] = treq[x] /\ TripRequestOK(x) /\ InstantHeld(x)
    BY <1>1, <1>3 DEF TripsInv, TripsTypeInv
  <2>2. \A u \in DOMAIN trip : /\ u \in DOMAIN trip'
                               /\ trip'[u].vehicle = trip[u].vehicle
                               /\ trip'[u].start = trip[u].start
    BY DEF TripWrite
  <2>3. TripRequestOK(x)'
    BY <2>1, <2>2 DEF TripRequestOK
  <2>4. InstantHeld(x)'
    BY <2>1, <2>2 DEF InstantHeld, TripRequestOK
  <2> QED
    BY <2>3, <2>4
<1>4. TripsTypeOK'
  BY <1>1 DEF TripWrite, TripsInv, TripsTypeInv, TripsTypeOK
<1> QED
  BY <1>1, <1>2, <1>3, <1>4 DEF TripWrite, TripsInv, TripsTypeInv

\* A transaction's writes to the vehicle and the driver leave every other one
\* alone, and what an administrator overrode overridden.
LEMMA SetAvailabilityType ==
    ASSUME RegisteredTypeOK, NEW v \in Vehicles, NEW d \in Drivers,
           NEW status \in VehicleStatus,
           \/ SetAvailability(v, status, d, FALSE)
           \/ SetAvailability(v, status, d, TRUE)
    PROVE  /\ RegisteredTypeOK'
           /\ \A w \in Vehicles : w # v => vehicle'[w] = vehicle[w]
           /\ \A e \in Drivers : e # d => driver'[e] = driver[e]
           /\ \A w \in Vehicles : w # v /\ w \notin overridden' => w \notin overridden
           /\ \A e \in Drivers : e # d /\ e \notin overridden' => e \notin overridden
<1>1. vehicle[v] \in Vehicle /\ driver[d] \in Driver
  BY DEF RegisteredTypeOK
<1>2. /\ [vehicle[v] EXCEPT !.status = status] \in Vehicle
      /\ [driver[d] EXCEPT !.isAvailable = FALSE] \in Driver
      /\ [driver[d] EXCEPT !.isAvailable = TRUE] \in Driver
  BY <1>1 DEF Vehicle, Driver
<1>3. RegisteredTypeOK'
  BY <1>2 DEF SetAvailability, RegisteredTypeOK
<1> QED
  BY <1>3, FleetIdsAssumption DEF SetAvailability, RegisteredTypeOK

\* startTrip's transaction: what it takes, the new active trip holds.
LEMMA CommitStartInv ==
    ASSUME TripsInv, NEW r \in TripRequests, CommitStart(r), UNCHANGED now
    PROVE  TripsInv'
<1> DEFINE q == treq[r]
           row == [tenant |-> driver[q.driver].tenant, vehicle |-> q.vehicle,
                   driver |-> q.driver, start |-> q.at, end |-> None, income |-> 0]
<1>1. /\ q \in TripRequest /\ TripRequestOK(r) /\ InstantHeld(r)
      /\ q.op = "start" /\ RegisteredTypeOK
  BY DEF CommitStart, TripIdle, TripsInv, TripsTypeInv, TripsTypeOK
<1>2. q.vehicle \in Vehicles /\ q.driver \in Drivers /\ q.at \in Days /\ q.at <= now
  BY <1>1 DEF CommitStart, TripRequest, TripRequestOK, InstantHeld
<1>3. driver[q.driver].tenant \in Tenants
  BY <1>1, <1>2 DEF RegisteredTypeOK, Driver
<1>4. row \in Trip
  BY <1>2, <1>3, IncomesAssumption DEF Trip
<1>5. PICK t \in TripIds \ DOMAIN trip :
         trip' = Insert(trip, t, row) /\ TripWritten(r, t)
  BY DEF CommitStart
<1>6. /\ row.vehicle = q.vehicle /\ row.driver = q.driver
      /\ row.start = q.at /\ row.end = None
  OBVIOUS
<1> HIDE DEF row
<1>7. /\ IsTable(trip', TripIds, Trip)
      /\ DOMAIN trip' = DOMAIN trip \cup {t}
      /\ trip'[t] = row
      /\ \A u \in DOMAIN trip : u # t => trip'[u] = trip[u]
  BY <1>4, <1>5 DEF Insert, IsTable, TripsInv, TripsTypeInv
<1>8. TripWrite(r, t)
  BY <1>5, <1>7, TripWrittenType DEF TripWrite
<1>9. SetAvailability(q.vehicle, "ON_TRIP", q.driver, FALSE)
  BY DEF CommitStart
<1>10. "ON_TRIP" \in VehicleStatus
  BY DEF VehicleStatus
<1>11. /\ RegisteredTypeOK'
       /\ \A w \in Vehicles : w # q.vehicle => vehicle'[w] = vehicle[w]
       /\ \A e \in Drivers : e # q.driver => driver'[e] = driver[e]
       /\ \A w \in Vehicles : w # q.vehicle /\ w \notin overridden' => w \notin overridden
       /\ \A e \in Drivers : e # q.driver /\ e \notin overridden' => e \notin overridden
  BY <1>1, <1>2, <1>9, <1>10, SetAvailabilityType
<1>12. NothingStranded'
  <2>1. ASSUME NEW v \in Vehicles, v \notin overridden', vehicle'[v].status = "ON_TRIP"
        PROVE  \E u \in DOMAIN trip' : trip'[u].vehicle = v /\ trip'[u].end = None
    <3>1. CASE v = q.vehicle
      BY <1>6, <1>7, <3>1
    <3>2. CASE v # q.vehicle
      BY <1>5, <1>7, <1>11, <2>1, <3>2 DEF TripsInv, NothingStranded, ActiveTrip
    <3> QED
      BY <3>1, <3>2
  <2>2. ASSUME NEW d \in Drivers, d \notin overridden', ~driver'[d].isAvailable
        PROVE  \E u \in DOMAIN trip' : trip'[u].driver = d /\ trip'[u].end = None
    <3>1. CASE d = q.driver
      BY <1>6, <1>7, <3>1
    <3>2. CASE d # q.driver
      BY <1>5, <1>7, <1>11, <2>2, <3>2 DEF TripsInv, NothingStranded, ActiveTrip
    <3> QED
      BY <3>1, <3>2
  <2> QED
    BY <2>1, <2>2 DEF NothingStranded, ActiveTrip
<1> QED
  BY <1>2, <1>6, <1>7, <1>8, <1>11, <1>12, TripWriteInv

\* endTrip's transaction: the vehicle and driver of the ended trip are free,
\* whichever active trip any other vehicle or driver is held by.
LEMMA CommitEndInv ==
    ASSUME TripsInv, NEW r \in TripRequests, CommitEnd(r), UNCHANGED now
    PROVE  TripsInv'
<1> DEFINE q == treq[r]
           t == q.trip
           row == [trip[t] EXCEPT !.end = q.at,
                                  !.income = IF q.income = Absent THEN @ ELSE q.income]
<1>1. /\ q \in TripRequest /\ TripRequestOK(r) /\ InstantHeld(r)
      /\ q.op = "end" /\ RegisteredTypeOK
  BY DEF CommitEnd, TripIdle, TripsInv, TripsTypeInv, TripsTypeOK
<1>2. /\ t \in DOMAIN trip /\ q.vehicle = trip[t].vehicle
      /\ q.at \in Days /\ q.at <= now /\ trip[t].start <= q.at
      /\ q.income \in Incomes \cup {Absent}
  BY <1>1 DEF CommitEnd, TripRequest, TripRequestOK, InstantHeld
<1>3. trip[t] \in Trip /\ t \in TripIds
  BY <1>2 DEF TripsInv, TripsTypeInv, IsTable
<1>4. /\ row \in Trip
      /\ row.vehicle = trip[t].vehicle /\ row.driver = trip[t].driver
      /\ row.start = trip[t].start /\ row.end = q.at
  BY <1>2, <1>3 DEF Trip
<1>5. trip' = [trip EXCEPT ![t] = row] /\ TripWritten(r, t)
  BY <1>2, <1>3 DEF CommitEnd, Trip
<1>6. q.vehicle \in Vehicles /\ trip[t].driver \in Drivers
  BY <1>2, <1>3 DEF Trip
<1> HIDE DEF row
<1>7. /\ IsTable(trip', TripIds, Trip)
      /\ DOMAIN trip' = DOMAIN trip \cup {t}
      /\ trip'[t] = row
      /\ \A u \in DOMAIN trip : u # t => trip'[u] = trip[u]
  BY <1>2, <1>4, <1>5 DEF IsTable, TripsInv, TripsTypeInv
<1>8. TripWrite(r, t)
  BY <1>3, <1>4, <1>5, <1>7, TripWrittenType DEF TripWrite
<1>9. SetAvailability(q.vehicle, "AVAILABLE", trip[t].driver, TRUE)
  BY DEF CommitEnd
<1>10. "AVAILABLE" \in VehicleStatus
  BY DEF VehicleStatus
<1>11. /\ RegisteredTypeOK'
       /\ \A w \in Vehicles : w # q.vehicle => vehicle'[w] = vehicle[w]
       /\ \A e \in Drivers : e # trip[t].driver => driver'[e] = driver[e]
       /\ \A w \in Vehicles : w # q.vehicle /\ w \notin overridden' => w \notin overridden
       /\ \A e \in Drivers :
            e # trip[t].driver /\ e \notin overridden' => e \notin overridden
  BY <1>1, <1>6, <1>9, <1>10, SetAvailabilityType
<1>12. /\ vehicle'[q.vehicle].status = "AVAILABLE"
       /\ driver'[trip[t].driver].isAvailable
  BY <1>1, <1>6, <1>9 DEF SetAvailability, RegisteredTypeOK, Vehicle, Driver
<1>13. NothingStranded'
  <2>1. ASSUME NEW v \in Vehicles, v \notin overridden', vehicle'[v].status = "ON_TRIP"
        PROVE  \E u \in DOMAIN trip' : trip'[u].vehicle = v /\ trip'[u].end = None
    <3>1. v # q.vehicle
      BY <1>12, <2>1
    <3>2. PICK u \in DOMAIN trip : trip[u].vehicle = v /\ trip[u].end = None
      BY <1>11, <2>1, <3>1 DEF TripsInv, NothingStranded, ActiveTrip
    <3>3. u # t
      BY <1>2, <3>1, <3>2
    <3> QED
      BY <1>7, <3>2, <3>3
  <2>2. ASSUME NEW d \in Drivers, d \notin overridden', ~driver'[d].isAvailable
        PROVE  \E u \in DOMAIN trip' : trip'[u].driver = d /\ trip'[u].end = None
    <3>1. d # trip[t].driver
      BY <1>12, <2>2
    <3>2. PICK u \in DOMAIN trip : trip[u].driver = d /\ trip[u].end = None
      BY <1>11, <2>2, <3>1 DEF TripsInv, NothingStranded, ActiveTrip
    <3>3. u # t
      BY <3>1, <3>2
    <3> QED
      BY <1>7, <3>2, <3>3
  <2> QED
    BY <2>1, <2>2 DEF NothingStranded, ActiveTrip
<1>14. trip'[t].start <= now /\ trip'[t].start <= trip'[t].end /\ trip'[t].end <= now
  BY <1>2, <1>4, <1>7 DEF TripsInv, TripTimesOrdered
<1> QED
  BY <1>8, <1>11, <1>13, <1>14, TripWriteInv

\* updateTrip's write touches neither end nor vehicle nor driver.
LEMMA CommitUpdateInv ==
    ASSUME TripsInv, NEW r \in TripRequests, CommitUpdate(r), UNCHANGED now
    PROVE  TripsInv'
<1> DEFINE q == treq[r]
           t == q.trip
           row == [trip[t] EXCEPT
                     !.income = IF q.income = Absent THEN @ ELSE q.income]
<1>1. /\ q \in TripRequest /\ TripRequestOK(r)
      /\ q.op = "update" /\ RegisteredTypeOK
  BY DEF CommitUpdate, TripIdle, TripsInv, TripsTypeInv, TripsTypeOK
<1>2. t \in DOMAIN trip /\ q.income \in Incomes \cup {Absent}
  BY <1>1 DEF TripRequest, TripRequestOK
<1>3. trip[t] \in Trip /\ t \in TripIds
  BY <1>2 DEF TripsInv, TripsTypeInv, IsTable
<1>4. /\ row \in Trip
      /\ row.vehicle = trip[t].vehicle /\ row.driver = trip[t].driver
      /\ row.start = trip[t].start /\ row.end = trip[t].end
  BY <1>2, <1>3 DEF Trip
<1>5. trip' = [trip EXCEPT ![t] = row]
  BY <1>2, <1>3 DEF CommitUpdate, Trip
<1> HIDE DEF row
<1>6. /\ IsTable(trip', TripIds, Trip)
      /\ DOMAIN trip' = DOMAIN trip \cup {t}
      /\ trip'[t] = row
      /\ \A u \in DOMAIN trip : u # t => trip'[u] = trip[u]
  BY <1>2, <1>4, <1>5 DEF IsTable, TripsInv, TripsTypeInv
<1>7. TripWrite(r, t)
  BY <1>3, <1>4, <1>6
     DEF TripWrite, CommitUpdate, TripReturns, TripsInv, TripsTypeInv, TripsTypeOK
<1>8. RegisteredTypeOK'
  BY <1>1 DEF CommitUpdate, RegisteredTypeOK
<1>9. NothingStranded'
  <2>1. \A u \in DOMAIN trip : /\ u \in DOMAIN trip'
                               /\ trip'[u].vehicle = trip[u].vehicle
                               /\ trip'[u].driver = trip[u].driver
                               /\ trip'[u].end = trip[u].end
    BY <1>4, <1>6
  <2> QED
    BY <2>1 DEF TripsInv, NothingStranded, ActiveTrip, CommitUpdate
<1>10. /\ trip'[t].start <= now
       /\ trip'[t].end # None => trip'[t].start <= trip'[t].end /\ trip'[t].end <= now
  BY <1>2, <1>4, <1>6 DEF TripsInv, TripTimesOrdered
<1> QED
  BY <1>7, <1>8, <1>9, <1>10, TripWriteInv

----------------------------------------------------------------------------

\* The awaited queries and the writes, one case each.
LEMMA TripStepInv ==
    ASSUME TripsInv, NEW r \in TripRequests, TripStep(r), UNCHANGED now
    PROVE  TripsInv'
<1>1. treq[r].pc \in {"assignment", "vehicle", "activeTrip", "ownTrip"}
        => treq[r] # TripIdle
  BY DEF TripIdle
<1>2. CASE CheckAssignment(r)
  BY <1>1, <1>2, TripProceedsInv DEF CheckAssignment
<1>3. CASE CheckVehicleAvailable(r)
  BY <1>1, <1>3, TripProceedsInv DEF CheckVehicleAvailable
<1>4. CASE CheckActiveTrip(r)
  BY <1>1, <1>4, TripProceedsInv DEF CheckActiveTrip
<1>5. CASE CommitStart(r)
  BY <1>5, CommitStartInv
<1>6. CASE CheckOwnTrip(r)
  BY <1>1, <1>6, TripProceedsInv DEF CheckOwnTrip
<1>7. CASE CommitEnd(r)
  BY <1>7, CommitEndInv
<1>8. CASE CommitUpdate(r)
  BY <1>8, CommitUpdateInv
<1>9. CASE ReadClock(r)
  BY <1>9, ReadClockInv
<1> QED
  BY <1>2, <1>3, <1>4, <1>5, <1>6, <1>7, <1>8, <1>9 DEF TripStep

\* Every step of TripsService preserves the invariant.
THEOREM TripsNextInv ==
    TripsInv /\ TripsNext /\ UNCHANGED now => TripsInv'
<1> SUFFICES ASSUME TripsInv, NEW r \in TripRequests, UNCHANGED now,
                    \/ StartTrip(r) \/ EndTrip(r) \/ UpdateTrip(r)
                    \/ TripStep(r) \/ TripRequestFails(r)
             PROVE  TripsInv'
  BY DEF TripsNext
<1>1. CASE StartTrip(r)
  BY <1>1, StartTripInv
<1>2. CASE EndTrip(r)
  BY <1>2, EndTripInv
<1>3. CASE UpdateTrip(r)
  BY <1>3, UpdateTripInv
<1>4. CASE TripStep(r)
  BY <1>4, TripStepInv
<1>5. CASE TripRequestFails(r)
  BY <1>5, TripReturnsInv DEF TripRequestFails
<1> QED
  BY <1>1, <1>2, <1>3, <1>4, <1>5

\* So does whatever leaves the trips and their requests alone, moves the clock
\* only forwards, and changes a status or isAvailable only as an administrator.
THEOREM TripsUnchangedInv ==
    ASSUME TripsInv, UNCHANGED tripVars, RegisteredTypeOK',
           now' \in Clock, now <= now',
           \A v \in Vehicles : v \notin overridden' =>
               v \notin overridden /\ vehicle'[v].status = vehicle[v].status,
           \A d \in Drivers : d \notin overridden' =>
               d \notin overridden /\ driver'[d].isAvailable = driver[d].isAvailable
    PROVE  TripsInv'
<1>1. TripsTypeInv'
  BY DEF TripsInv, TripsTypeInv, TripsTypeOK, TripRequestOK, tripVars, IsTable
<1>2. NothingStranded'
  BY DEF TripsInv, NothingStranded, tripVars, ActiveTrip
<1>3. now \in Int /\ now' \in Int
  BY DaysAssumption DEF TripsInv, TripsTypeInv
<1>4. \A x \in Days : x \in Int
  BY DaysAssumption
<1>5. TripTimesOrdered'
  <2> SUFFICES ASSUME NEW t \in DOMAIN trip
               PROVE  /\ trip[t].start <= now'
                      /\ trip[t].end # None => /\ trip[t].start <= trip[t].end
                                               /\ trip[t].end <= now'
    BY DEF TripTimesOrdered, tripVars
  <2>1. trip[t].start \in Days /\ trip[t].end \in Days \cup {None}
    BY DEF TripsInv, TripsTypeInv, IsTable, Trip
  <2> QED
    BY <1>3, <1>4, <2>1 DEF TripsInv, TripTimesOrdered
<1>6. ASSUME NEW r \in TripRequests, treq'[r] # TripIdle
      PROVE  InstantHeld(r)'
  <2>1. treq'[r] = treq[r] /\ treq[r] \in TripRequest /\ InstantHeld(r)
    BY <1>6 DEF tripVars, TripsInv, TripsTypeInv, TripsTypeOK
  <2>2. treq[r].at # None => treq[r].at \in Int
    BY <1>4, <2>1 DEF TripRequest
  <2> QED
    BY <1>3, <2>1, <2>2 DEF InstantHeld, tripVars
<1> QED
  BY <1>1, <1>2, <1>5, <1>6 DEF TripsInv

----------------------------------------------------------------------------
(***************************************************************************)
(* Trips of one vehicle.  Requests check a trip against the others and     *)
(* write it some awaits later; tmissed names what was written meanwhile.   *)
(* TripsRaceInv says that nothing else can have escaped the check.  It is  *)
(* inductive relative to TripsInv.                                         *)
(***************************************************************************)

\* No vehicle and no driver changes hands.
TenantsKept ==
    /\ \A v \in Vehicles : vehicle'[v].tenant = vehicle[v].tenant
    /\ \A d \in Drivers : driver'[d].tenant = driver[d].tenant

\* startTrip's findFirst of an active trip asks for the tenant too: it overlooks
\* none, because a trip has the tenant of its vehicle.
TripsOfOneTenant ==
    \A t \in DOMAIN trip : trip[t].tenant = vehicle[trip[t].vehicle].tenant

\* What startTrip knows of the trips written before its last read: once it has
\* its instant, they ended by then; before its write, none of its vehicle is
\* active.
StartHeld(r) ==
    LET q == treq[r] IN
    q.op = "start" =>
      /\ q.at # None =>
           \A u \in DOMAIN trip \ tmissed[r] :
               trip[u].end # None => trip[u].end <= q.at
      /\ q.pc \in {"activeTrip", "write"} =>
           vehicle[q.vehicle].tenant = driver[q.driver].tenant
      /\ q.pc = "write" =>
           \A u \in DOMAIN trip \ tmissed[r] :
               trip[u].vehicle = q.vehicle => trip[u].end # None

\* What endTrip knows: its trip is active, and every other trip that it can
\* collide with when it ends collides with it already, unless one of them was
\* written since.
EndHeld(r) ==
    LET q == treq[r] IN
    q.op = "end" =>
      /\ q.trip \in tmissed[r] \/ trip[q.trip].end = None
      /\ \A u \in DOMAIN trip \ tmissed[r] :
            /\ u # q.trip /\ trip[u].vehicle = trip[q.trip].vehicle
            /\ trip[u].end = None \/ trip[u].end > trip[q.trip].start
            => TripsRaced(q.trip, u)

TripsRaceInv ==
    /\ TripsCollideOnlyByRace
    /\ ReleasedEarlyOnlyByRace
    /\ TripsOfOneTenant
    /\ \A r \in TripRequests : treq[r] # TripIdle => StartHeld(r) /\ EndHeld(r)

\* Without trips there is nothing to collide and no request in flight.
LEMMA TripsRaceInvInit ==
    ASSUME trip = <<>>, TripsInit
    PROVE  TripsRaceInv
<1>1. DOMAIN trip = {}
  OBVIOUS
<1>2. \A r \in TripRequests : treq[r] = TripIdle
  BY DEF TripsInit
<1> QED
  BY <1>1, <1>2 DEF TripsRaceInv, TripsCollideOnlyByRace, ReleasedEarlyOnlyByRace,
                    TripsOfOneTenant

\* A step that writes no row of the fleet's tables.
LEMMA UnwrittenTripsRaceInv ==
    ASSUME TripsInv, TripsRaceInv, NEW r \in TripRequests,
           UNCHANGED <<trip, traced, vehicle, driver, overridden>>,
           \A x \in TripRequests :
               x # r => treq'[x] = treq[x] /\ tmissed'[x] = tmissed[x],
           treq'[r] = TripIdle \/ (StartHeld(r)' /\ EndHeld(r)')
    PROVE  TripsRaceInv'
<1>1. /\ TripsCollideOnlyByRace' /\ ReleasedEarlyOnlyByRace' /\ TripsOfOneTenant'
  BY DEF TripsRaceInv, TripsCollideOnlyByRace, ReleasedEarlyOnlyByRace,
         TripsOfOneTenant, TripsCollide, TripsRaced, ActiveTrip
<1>2. ASSUME NEW x \in TripRequests, x # r, StartHeld(x), EndHeld(x)
      PROVE  StartHeld(x)' /\ EndHeld(x)'
  <2>1. treq'[x] = treq[x] /\ tmissed'[x] = tmissed[x]
    BY <1>2
  <2> QED
    BY <1>2, <2>1 DEF StartHeld, EndHeld, TripsRaced
<1> QED
  BY <1>1, <1>2 DEF TripsRaceInv

\* A handler that returns or throws writes nothing.
LEMMA TripReturnsRaceInv ==
    ASSUME TripsInv, TripsRaceInv, NEW r \in TripRequests, TripReturns(r),
           UNCHANGED <<trip, traced, vehicle, driver, overridden>>
    PROVE  TripsRaceInv'
BY UnwrittenTripsRaceInv DEF TripReturns, TripsInv, TripsTypeInv, TripsTypeOK

\* A query that lets the handler go on adds what it found to what is known.
LEMMA TripProceedsRaceInv ==
    ASSUME TripsInv, TripsRaceInv, NEW r \in TripRequests, NEW ok,
           NEW pc \in {"clock", "vehicle", "activeTrip", "write"},
           treq[r] # TripIdle, TripProceeds(r, ok, pc),
           ok /\ treq[r].op = "start" /\ pc \in {"activeTrip", "write"}
             => vehicle[treq[r].vehicle].tenant = driver[treq[r].driver].tenant,
           ok /\ treq[r].op = "start" /\ pc = "write"
             => \A u \in DOMAIN trip :
                    trip[u].vehicle = treq[r].vehicle => trip[u].end # None
    PROVE  TripsRaceInv'
<1>1. CASE ~ok
  BY <1>1, TripReturnsRaceInv DEF TripProceeds
<1>2. CASE ok
  <2>1. treq[r] \in TripRequest /\ StartHeld(r) /\ EndHeld(r)
        /\ DOMAIN treq = TripRequests
    BY DEF TripsInv, TripsTypeInv, TripsTypeOK, TripsRaceInv
  <2>2. /\ treq'[r] = [treq[r] EXCEPT !.pc = pc]
        /\ \A x \in TripRequests : x # r => treq'[x] = treq[x]
        /\ UNCHANGED <<trip, traced, vehicle, driver, overridden, tmissed>>
    BY <1>2, <2>1 DEF TripProceeds
  <2>3. /\ treq'[r].op = treq[r].op /\ treq'[r].pc = pc
        /\ treq'[r].driver = treq[r].driver /\ treq'[r].at = treq[r].at
        /\ treq'[r].trip = treq[r].trip /\ treq'[r].vehicle = treq[r].vehicle
    BY <2>1, <2>2 DEF TripRequest
  <2>4. StartHeld(r)'
    BY <1>2, <2>1, <2>2, <2>3 DEF StartHeld
  <2>5. EndHeld(r)'
    BY <2>1, <2>2, <2>3 DEF EndHeld, TripsRaced
  <2> QED
    BY <2>2, <2>4, <2>5, UnwrittenTripsRaceInv
<1> QED
  BY <1>1, <1>2

----------------------------------------------------------------------------

\* startTrip's first read knows nothing of the trips yet.
LEMMA StartTripRaceInv ==
    ASSUME TripsInv, TripsRaceInv, NEW r \in TripRequests, StartTrip(r)
    PROVE  TripsRaceInv'
<1>1. PICK v \in Vehicles, d \in Drivers :
         treq' = [treq EXCEPT ![r] =
              [pc |-> "clock", op |-> "start", trip |-> None,
               vehicle |-> v, driver |-> d, at |-> None, income |-> Absent]]
  BY DEF StartTrip
<1>2. /\ \A x \in TripRequests : x # r => treq'[x] = treq[x]
      /\ treq'[r] = [pc |-> "clock", op |-> "start", trip |-> None,
                     vehicle |-> v, driver |-> d, at |-> None, income |-> Absent]
  BY <1>1 DEF TripsInv, TripsTypeInv, TripsTypeOK
<1>3. StartHeld(r)' /\ EndHeld(r)'
  BY <1>2 DEF StartHeld, EndHeld
<1> QED
  BY <1>2, <1>3, UnwrittenTripsRaceInv DEF StartTrip

\* endTrip's first read finds the trip active: whatever it can collide with
\* later collides with it now.
LEMMA EndTripRaceInv ==
    ASSUME TripsInv, TripsRaceInv, NEW r \in TripRequests, EndTrip(r)
    PROVE  TripsRaceInv'
<1>1. PICK t \in TripIds, dto \in UpdateTripDto, caller \in Drivers \cup {None} :
         /\ t \in DOMAIN trip /\ trip[t].end = None
         /\ treq' = [treq EXCEPT ![r] =
              [pc |-> IF caller = None THEN "clock" ELSE "ownTrip",
               op |-> "end", trip |-> t, vehicle |-> trip[t].vehicle,
               driver |-> caller, at |-> None, income |-> dto]]
  BY DEF EndTrip, FindTrip, ActiveTrip
<1>2. /\ \A x \in TripRequests : x # r => treq'[x] = treq[x]
      /\ treq'[r] = [pc |-> IF caller = None THEN "clock" ELSE "ownTrip",
                     op |-> "end", trip |-> t, vehicle |-> trip[t].vehicle,
                     driver |-> caller, at |-> None, income |-> dto]
  BY <1>1 DEF TripsInv, TripsTypeInv, TripsTypeOK
<1>3. treq'[r].op = "end" /\ treq'[r].trip = t /\ UNCHANGED <<trip, tmissed, traced>>
  BY <1>2 DEF EndTrip
<1>4. StartHeld(r)'
  BY <1>3 DEF StartHeld
<1>5. ASSUME NEW u \in DOMAIN trip, u # t, trip[u].vehicle = trip[t].vehicle,
             trip[u].end = None \/ trip[u].end > trip[t].start
      PROVE  TripsRaced(t, u)
  BY <1>1, <1>5 DEF TripsRaceInv, TripsCollideOnlyByRace, TripsCollide
<1>6. EndHeld(r)'
  BY <1>1, <1>3, <1>5 DEF EndHeld, TripsRaced
<1> QED
  BY <1>2, <1>4, <1>6, UnwrittenTripsRaceInv DEF EndTrip

\* updateTrip changes nothing that a collision depends on.
LEMMA UpdateTripRaceInv ==
    ASSUME TripsInv, TripsRaceInv, NEW r \in TripRequests, UpdateTrip(r)
    PROVE  TripsRaceInv'
<1>1. PICK t \in TripIds, dto \in UpdateTripDto :
         treq' = [treq EXCEPT ![r] =
              [pc |-> "write", op |-> "update", trip |-> t,
               vehicle |-> trip[t].vehicle, driver |-> None, at |-> None,
               income |-> dto]]
  BY DEF UpdateTrip
<1>2. /\ \A x \in TripRequests : x # r => treq'[x] = treq[x]
      /\ treq'[r].op = "update"
  BY <1>1 DEF TripsInv, TripsTypeInv, TripsTypeOK
<1>3. StartHeld(r)' /\ EndHeld(r)'
  BY <1>2 DEF StartHeld, EndHeld
<1> QED
  BY <1>2, <1>3, UnwrittenTripsRaceInv DEF UpdateTrip

\* No trip has ended later than the instant that is read.
LEMMA ReadClockRaceInv ==
    ASSUME TripsInv, TripsRaceInv, NEW r \in TripRequests, ReadClock(r)
    PROVE  TripsRaceInv'
<1> DEFINE pc == IF treq[r].op = "start" THEN "assignment" ELSE "write"
<1>1. /\ treq[r] # TripIdle /\ treq[r] \in TripRequest
      /\ StartHeld(r) /\ EndHeld(r) /\ DOMAIN treq = TripRequests
  BY DEF ReadClock, TripIdle, TripsInv, TripsTypeInv, TripsTypeOK, TripsRaceInv
<1>2. /\ treq'[r] = [treq[r] EXCEPT !.pc = pc, !.at = now]
      /\ \A x \in TripRequests : x # r => treq'[x] = treq[x]
      /\ UNCHANGED <<trip, traced, vehicle, driver, overridden, tmissed>>
  BY <1>1 DEF ReadClock
<1>3. /\ treq'[r].op = treq[r].op /\ treq'[r].pc = pc /\ treq'[r].at = now
      /\ treq'[r].trip = treq[r].trip /\ treq'[r].vehicle = treq[r].vehicle
      /\ treq'[r].driver = treq[r].driver
  BY <1>1, <1>2 DEF TripRequest
<1>4. StartHeld(r)'
  BY <1>2, <1>3 DEF StartHeld, TripsInv, TripTimesOrdered
<1>5. EndHeld(r)'
  BY <1>1, <1>2, <1>3 DEF EndHeld, TripsRaced
<1> QED
  BY <1>2, <1>4, <1>5, UnwrittenTripsRaceInv

\* The assignment query says nothing of the trips.
LEMMA CheckAssignmentRaceInv ==
    ASSUME TripsInv, TripsRaceInv, NEW r \in TripRequests, CheckAssignment(r)
    PROVE  TripsRaceInv'
<1>1. treq[r] # TripIdle
  BY DEF CheckAssignment, TripIdle
<1>2. PICK ok : TripProceeds(r, ok, "vehicle")
  BY DEF CheckAssignment
<1> QED
  BY <1>1, <1>2, TripProceedsRaceInv

\* The vehicle that the query found is of the driver's tenant.
LEMMA CheckVehicleAvailableRaceInv ==
    ASSUME TripsInv, TripsRaceInv, NEW r \in TripRequests, CheckVehicleAvailable(r)
    PROVE  TripsRaceInv'
<1> DEFINE q == treq[r]
           ok == /\ vehicle[q.vehicle].tenant = driver[q.driver].tenant
                 /\ ~vehicle[q.vehicle].deleted
                 /\ vehicle[q.vehicle].status = "AVAILABLE"
<1>1. treq[r] # TripIdle
  BY DEF CheckVehicleAvailable, TripIdle
<1>2. TripProceeds(r, ok, "activeTrip")
  BY Zenon DEF CheckVehicleAvailable
<1>3. ok => vehicle[q.vehicle].tenant = driver[q.driver].tenant
  OBVIOUS
<1> HIDE DEF ok
<1> QED
  BY <1>1, <1>2, <1>3, TripProceedsRaceInv

\* The query found no active trip of the vehicle, whichever tenant's.
LEMMA CheckActiveTripRaceInv ==
    ASSUME TripsInv, TripsRaceInv, NEW r \in TripRequests, CheckActiveTrip(r)
    PROVE  TripsRaceInv'
<1> DEFINE q == treq[r]
           ok == ~\E t \in DOMAIN trip :
                     /\ trip[t].vehicle = q.vehicle
                     /\ trip[t].tenant = driver[q.driver].tenant
                     /\ ActiveTrip(trip[t])
<1>1. treq[r] # TripIdle /\ q.pc = "activeTrip" /\ TripProceeds(r, ok, "write")
  BY DEF CheckActiveTrip, TripIdle
<1>2. q.op = "start" => vehicle[q.vehicle].tenant = driver[q.driver].tenant
  BY <1>1 DEF TripsRaceInv, StartHeld
<1>3. ASSUME ok, q.op = "start", NEW u \in DOMAIN trip, trip[u].vehicle = q.vehicle
      PROVE  trip[u].end # None
  BY <1>2, <1>3 DEF TripsRaceInv, TripsOfOneTenant, ActiveTrip
<1> HIDE DEF ok
<1> QED
  BY <1>1, <1>2, <1>3, TripProceedsRaceInv

----------------------------------------------------------------------------
(***************************************************************************)
(* What the three writes do.                                               *)
(***************************************************************************)

\* startTrip inserts an active trip of its driver and vehicle, begun at the
\* instant it holds.
LEMMA CommitStartWrites ==
    ASSUME TripsInv, NEW r \in TripRequests, CommitStart(r)
    PROVE  /\ treq[r].vehicle \in Vehicles /\ treq[r].driver \in Drivers
           /\ treq[r].at \in Days
           /\ SetAvailability(treq[r].vehicle, "ON_TRIP", treq[r].driver, FALSE)
           /\ \E t \in TripIds \ DOMAIN trip :
                /\ TripWrite(r, t) /\ TripWritten(r, t)
                /\ trip'[t].tenant = driver[treq[r].driver].tenant
                /\ trip'[t].vehicle = treq[r].vehicle
                /\ trip'[t].driver = treq[r].driver
                /\ trip'[t].start = treq[r].at
                /\ trip'[t].end = None
<1> DEFINE q == treq[r]
           row == [tenant |-> driver[q.driver].tenant, vehicle |-> q.vehicle,
                   driver |-> q.driver, start |-> q.at, end |-> None, income |-> 0]
<1>1. /\ q \in TripRequest /\ TripRequestOK(r)
      /\ q.op = "start" /\ RegisteredTypeOK
  BY DEF CommitStart, TripIdle, TripsInv, TripsTypeInv, TripsTypeOK
<1>2. q.vehicle \in Vehicles /\ q.driver \in Drivers /\ q.at \in Days
  BY <1>1 DEF CommitStart, TripRequest, TripRequestOK
<1>3. driver[q.driver].tenant \in Tenants
  BY <1>1, <1>2 DEF RegisteredTypeOK, Driver
<1>4. row \in Trip
  BY <1>2, <1>3, IncomesAssumption DEF Trip
<1>5. PICK t \in TripIds \ DOMAIN trip :
         trip' = Insert(trip, t, row) /\ TripWritten(r, t)
  BY DEF CommitStart
<1>6. /\ row.tenant = driver[q.driver].tenant /\ row.vehicle = q.vehicle
      /\ row.driver = q.driver /\ row.start = q.at /\ row.end = None
  OBVIOUS
<1> HIDE DEF row
<1>7. /\ IsTable(trip', TripIds, Trip)
      /\ DOMAIN trip' = DOMAIN trip \cup {t}
      /\ trip'[t] = row
      /\ \A u \in DOMAIN trip : u # t => trip'[u] = trip[u]
  BY <1>4, <1>5 DEF Insert, IsTable, TripsInv, TripsTypeInv
<1>8. TripWrite(r, t)
  BY <1>5, <1>7, TripWrittenType DEF TripWrite
<1> QED
  BY <1>2, <1>5, <1>6, <1>7, <1>8 DEF CommitStart

\* endTrip writes the instant it holds as the end of the trip it had read.
LEMMA CommitEndWrites ==
    ASSUME TripsInv, NEW r \in TripRequests, CommitEnd(r)
    PROVE  LET t == treq[r].trip IN
           /\ treq[r] # TripIdle /\ treq[r].op = "end" /\ t \in DOMAIN trip
           /\ treq[r].at \in Days /\ treq[r].vehicle = trip[t].vehicle
           /\ trip[t].vehicle \in Vehicles /\ trip[t].driver \in Drivers
           /\ SetAvailability(trip[t].vehicle, "AVAILABLE", trip[t].driver, TRUE)
           /\ TripWrite(r, t) /\ TripWritten(r, t)
           /\ trip'[t].tenant = trip[t].tenant /\ trip'[t].end = treq[r].at
<1> DEFINE q == treq[r]
           t == q.trip
           row == [trip[t] EXCEPT !.end = q.at,
                                  !.income = IF q.income = Absent THEN @ ELSE q.income]
<1>1. /\ q # TripIdle /\ q \in TripRequest /\ TripRequestOK(r)
      /\ q.op = "end" /\ RegisteredTypeOK
  BY DEF CommitEnd, TripIdle, TripsInv, TripsTypeInv, TripsTypeOK
<1>2. /\ t \in DOMAIN trip /\ q.vehicle = trip[t].vehicle
      /\ q.at \in Days /\ q.income \in Incomes \cup {Absent}
  BY <1>1 DEF CommitEnd, TripRequest, TripRequestOK
<1>3. trip[t] \in Trip /\ t \in TripIds
  BY <1>2 DEF TripsInv, TripsTypeInv, IsTable
<1>4. /\ row \in Trip
      /\ row.vehicle = trip[t].vehicle /\ row.driver = trip[t].driver
      /\ row.tenant = trip[t].tenant
      /\ row.start = trip[t].start /\ row.end = q.at
  BY <1>2, <1>3 DEF Trip
<1>5. trip' = [trip EXCEPT ![t] = row] /\ TripWritten(r, t)
  BY <1>2, <1>3 DEF CommitEnd, Trip
<1>6. trip[t].vehicle \in Vehicles /\ trip[t].driver \in Drivers
  BY <1>3 DEF Trip
<1> HIDE DEF row
<1>7. /\ IsTable(trip', TripIds, Trip)
      /\ DOMAIN trip' = DOMAIN trip \cup {t}
      /\ trip'[t] = row
      /\ \A u \in DOMAIN trip : u # t => trip'[u] = trip[u]
  BY <1>2, <1>4, <1>5 DEF IsTable, TripsInv, TripsTypeInv
<1>8. TripWrite(r, t)
  BY <1>3, <1>4, <1>5, <1>7, TripWrittenType DEF TripWrite
<1>9. SetAvailability(trip[t].vehicle, "AVAILABLE", trip[t].driver, TRUE)
  BY <1>2 DEF CommitEnd
<1> QED
  BY <1>1, <1>2, <1>4, <1>5, <1>6, <1>7, <1>8, <1>9

\* updateTrip rewrites the income of a trip.
LEMMA CommitUpdateWrites ==
    ASSUME TripsInv, NEW r \in TripRequests, CommitUpdate(r)
    PROVE  LET t == treq[r].trip IN
           /\ t \in DOMAIN trip
           /\ DOMAIN trip' = DOMAIN trip
           /\ \A u \in DOMAIN trip : u # t => trip'[u] = trip[u]
           /\ trip'[t].tenant = trip[t].tenant /\ trip'[t].vehicle = trip[t].vehicle
           /\ trip'[t].driver = trip[t].driver
           /\ trip'[t].start = trip[t].start /\ trip'[t].end = trip[t].end
<1> DEFINE q == treq[r]
           t == q.trip
           row == [trip[t] EXCEPT
                     !.income = IF q.income = Absent THEN @ ELSE q.income]
<1>1. TripRequestOK(r) /\ q.op = "update"
  BY DEF CommitUpdate, TripIdle, TripsInv, TripsTypeInv
<1>2. t \in DOMAIN trip
  BY <1>1 DEF TripRequestOK
<1>3. trip[t] \in Trip
  BY <1>2 DEF TripsInv, TripsTypeInv, IsTable
<1>4. /\ row.vehicle = trip[t].vehicle /\ row.driver = trip[t].driver
      /\ row.tenant = trip[t].tenant
      /\ row.start = trip[t].start /\ row.end = trip[t].end
  BY <1>3 DEF Trip
<1>5. trip' = [trip EXCEPT ![t] = row]
  BY <1>2, <1>3 DEF CommitUpdate, Trip
<1> HIDE DEF row
<1> QED
  BY <1>2, <1>4, <1>5

\* A write in which nothing collides but what it missed or had raced with, and
\* whose vehicle has the status of its active trips or was released by a race.
LEMMA TripWriteRaceInv ==
    ASSUME TripsInv, TripsRaceInv, NEW r \in TripRequests, NEW t,
           TripWrite(r, t), TripWritten(r, t), TenantsKept,
           trip'[t].tenant = vehicle[trip'[t].vehicle].tenant,
           \A u \in DOMAIN trip :
               u # t /\ TripsCollide(t, u)' => u \in tmissed[r] \/ TripsRaced(t, u),
           ReleasedEarlyOnlyByRace'
    PROVE  TripsRaceInv'
<1>1. /\ IsTable(trip', TripIds, Trip)
      /\ DOMAIN trip' = DOMAIN trip \cup {t} /\ t \in TripIds
      /\ \A u \in DOMAIN trip : u # t => trip'[u] = trip[u]
      /\ \A u \in DOMAIN trip : trip'[u].vehicle = trip[u].vehicle
      /\ \A u \in DOMAIN trip : trip'[u].start = trip[u].start
  BY DEF TripWrite
<1>2. /\ \A u, w : TripsRaced(u, w) => TripsRaced(u, w)'
      /\ \A u \in tmissed[r] : u # t => TripsRaced(t, u)' /\ TripsRaced(u, t)'
  BY DEF TripWritten, TripsRaced
<1>3. \A x \in TripRequests :
         treq'[x] # TripIdle => /\ x # r /\ treq'[x] = treq[x]
                                /\ tmissed'[x] = tmissed[x] \cup {t}
  BY DEF TripWritten, TripsInv, TripsTypeInv, TripsTypeOK
<1>4. TripsCollideOnlyByRace'
  <2> SUFFICES ASSUME NEW u \in DOMAIN trip', NEW w \in DOMAIN trip',
                      TripsCollide(u, w)'
               PROVE  TripsRaced(u, w)'
    BY DEF TripsCollideOnlyByRace
  <2>1. u # w /\ TripsCollide(w, u)'
    BY DEF TripsCollide
  <2>2. CASE u = t
    BY <1>1, <1>2, <2>1, <2>2
  <2>3. CASE w = t
    <3>1. u \in tmissed[r] \/ TripsRaced(t, u)
      BY <1>1, <2>1, <2>3
    <3> QED
      BY <1>2, <2>1, <2>3, <3>1 DEF TripsRaced
  <2>4. CASE u # t /\ w # t
    <3>1. u \in DOMAIN trip /\ w \in DOMAIN trip /\ TripsCollide(u, w)
      BY <1>1, <2>4 DEF TripsCollide
    <3> QED
      BY <1>2, <3>1 DEF TripsRaceInv, TripsCollideOnlyByRace
  <2> QED
    BY <2>2, <2>3, <2>4
<1>5. TripsOfOneTenant'
  <2> SUFFICES ASSUME NEW u \in DOMAIN trip'
               PROVE  trip'[u].tenant = vehicle'[trip'[u].vehicle].tenant
    BY DEF TripsOfOneTenant
  <2>1. trip'[u].vehicle \in Vehicles
    BY <1>1 DEF IsTable, Trip
  <2>2. vehicle'[trip'[u].vehicle].tenant = vehicle[trip'[u].vehicle].tenant
    BY <2>1 DEF TenantsKept
  <2> QED
    BY <1>1, <2>2 DEF TripsRaceInv, TripsOfOneTenant
<1>6. ASSUME NEW x \in TripRequests, treq'[x] # TripIdle
      PROVE  StartHeld(x)' /\ EndHeld(x)'
  <2>1. /\ x # r /\ treq'[x] = treq[x] /\ tmissed'[x] = tmissed[x] \cup {t}
        /\ treq[x] \in TripRequest /\ TripRequestOK(x)
        /\ StartHeld(x) /\ EndHeld(x)
    BY <1>3, <1>6 DEF TripsInv, TripsTypeInv, TripsTypeOK, TripsRaceInv
  <2>2. \A u \in DOMAIN trip' \ tmissed'[x] :
           /\ u \in DOMAIN trip \ tmissed[x] /\ trip'[u] = trip[u] /\ u # t
    BY <1>1, <2>1
  <2>3. StartHeld(x)'
    <3> SUFFICES ASSUME treq[x].op = "start"
                 PROVE  StartHeld(x)'
      BY <2>1 DEF StartHeld
    <3>1. treq[x].vehicle \in Vehicles /\ treq[x].driver \in Drivers
      BY <2>1 DEF TripRequest, TripRequestOK
    <3> QED
      BY <2>1, <2>2, <3>1 DEF StartHeld, TenantsKept
  <2>4. EndHeld(x)'
    <3> SUFFICES ASSUME treq[x].op = "end"
                 PROVE  EndHeld(x)'
      BY <2>1 DEF EndHeld
    <3> PICK s : s = treq[x].trip
      OBVIOUS
    <3>1. s \in DOMAIN trip
      BY <2>1 DEF TripRequestOK
    <3>2. s \in tmissed'[x] \/ trip'[s].end = None
      BY <1>1, <2>1, <3>1 DEF EndHeld
    <3>3. ASSUME NEW u \in DOMAIN trip' \ tmissed'[x],
                 u # s, trip'[u].vehicle = trip'[s].vehicle,
                 trip'[u].end = None \/ trip'[u].end > trip'[s].start
          PROVE  TripsRaced(s, u)'
      <4>1. /\ u \in DOMAIN trip \ tmissed[x] /\ trip[u].vehicle = trip[s].vehicle
            /\ trip[u].end = None \/ trip[u].end > trip[s].start
        BY <1>1, <2>2, <3>1, <3>3
      <4>2. TripsRaced(s, u)
        BY <2>1, <3>3, <4>1 DEF EndHeld
      <4> QED
        BY <1>2, <4>2
    <3> QED
      BY <2>1, <3>2, <3>3 DEF EndHeld
  <2> QED
    BY <2>3, <2>4
<1> QED
  BY <1>4, <1>5, <1>6 DEF TripsRaceInv

----------------------------------------------------------------------------

\* A trip's transaction leaves every tenant alone.
LEMMA SetAvailabilityTenants ==
    ASSUME RegisteredTypeOK, NEW v, NEW status, NEW d, NEW isAvailable,
           SetAvailability(v, status, d, isAvailable)
    PROVE  TenantsKept
BY DEF SetAvailability, TenantsKept, RegisteredTypeOK, Vehicle, Driver

\* What startTrip's transaction collides with was written after its queries.
LEMMA CommitStartRaceInv ==
    ASSUME TripsInv, TripsRaceInv, NEW r \in TripRequests, CommitStart(r)
    PROVE  TripsRaceInv'
<1> DEFINE q == treq[r]
<1>1. /\ q.vehicle \in Vehicles /\ q.driver \in Drivers /\ q.at \in Days
      /\ SetAvailability(q.vehicle, "ON_TRIP", q.driver, FALSE)
  BY CommitStartWrites
<1>2. PICK t \in TripIds \ DOMAIN trip :
        /\ TripWrite(r, t) /\ TripWritten(r, t)
        /\ trip'[t].tenant = driver[q.driver].tenant
        /\ trip'[t].vehicle = q.vehicle
        /\ trip'[t].start = q.at
        /\ trip'[t].end = None
  BY CommitStartWrites
<1>3. RegisteredTypeOK /\ StartHeld(r) /\ q.op = "start" /\ q.pc = "write"
  BY DEF CommitStart, TripIdle, TripsInv, TripsTypeInv, TripsRaceInv
<1>4. TenantsKept
  BY <1>1, <1>3, SetAvailabilityTenants
<1>5. trip'[t].tenant = vehicle[trip'[t].vehicle].tenant
  BY <1>2, <1>3 DEF StartHeld
<1>6. ASSUME NEW u \in DOMAIN trip, u # t, TripsCollide(t, u)', u \notin tmissed[r]
      PROVE  FALSE
  <2>1. trip'[u] = trip[u]
    BY <1>2, <1>6 DEF TripWrite
  <2>2. trip[u].vehicle = q.vehicle /\ (trip[u].end = None \/ trip[u].end > q.at)
    BY <1>2, <1>6, <2>1 DEF TripsCollide
  <2>3. q.at # None
    BY <1>1, SentinelAssumption
  <2>4. trip[u].end # None /\ trip[u].end <= q.at
    BY <1>3, <1>6, <2>2, <2>3 DEF StartHeld
  <2>5. trip[u].end \in Days
    BY <2>4 DEF TripsInv, TripsTypeInv, IsTable, Trip
  <2>6. trip[u].end \in Int /\ q.at \in Int
    BY <1>1, <2>5, DaysAssumption
  <2> QED
    BY <2>2, <2>4, <2>6
<1>7. "ON_TRIP" \in VehicleStatus
  BY DEF VehicleStatus
<1>8. /\ \A w \in Vehicles : w # q.vehicle => vehicle'[w] = vehicle[w]
      /\ \A w \in Vehicles : w # q.vehicle /\ w \notin overridden' => w \notin overridden
  BY <1>1, <1>3, <1>7, SetAvailabilityType
<1>9. vehicle'[q.vehicle].status = "ON_TRIP"
  BY <1>1, <1>3 DEF SetAvailability, RegisteredTypeOK, Vehicle
<1>10. ReleasedEarlyOnlyByRace'
  <2> SUFFICES ASSUME NEW w \in DOMAIN trip', trip'[w].end = None,
                      trip'[w].vehicle \notin overridden',
                      vehicle'[trip'[w].vehicle].status # "ON_TRIP"
               PROVE  \E u \in DOMAIN trip' :
                         trip'[u].vehicle = trip'[w].vehicle /\ TripsRaced(w, u)'
    BY DEF ReleasedEarlyOnlyByRace, ActiveTrip
  <2>1. w # t /\ trip'[w].vehicle # q.vehicle
    BY <1>2, <1>9
  <2>2. w \in DOMAIN trip /\ trip'[w] = trip[w]
    BY <1>2, <2>1 DEF TripWrite
  <2>3. trip[w].vehicle \in Vehicles
    BY <2>2 DEF TripsInv, TripsTypeInv, IsTable, Trip
  <2>4. PICK u \in DOMAIN trip : trip[u].vehicle = trip[w].vehicle /\ TripsRaced(w, u)
    BY <1>8, <2>1, <2>2, <2>3 DEF TripsRaceInv, ReleasedEarlyOnlyByRace, ActiveTrip
  <2>5. u \in DOMAIN trip' /\ trip'[u].vehicle = trip[u].vehicle
    BY <1>2 DEF TripWrite
  <2> QED
    BY <1>2, <2>2, <2>4, <2>5 DEF TripWritten, TripsRaced
<1> QED
  BY <1>2, <1>4, <1>5, <1>6, <1>10, TripWriteRaceInv

\* So does endTrip's; the vehicle it releases is another active trip's only if
\* the two trips raced.
LEMMA CommitEndRaceInv ==
    ASSUME TripsInv, TripsRaceInv, NEW r \in TripRequests, CommitEnd(r)
    PROVE  TripsRaceInv'
<1> PICK t : t = treq[r].trip
  OBVIOUS
<1> DEFINE q == treq[r]
<1>1. /\ q # TripIdle /\ q.op = "end" /\ t \in DOMAIN trip /\ q.at \in Days
      /\ trip[t].vehicle \in Vehicles /\ trip[t].driver \in Drivers
      /\ SetAvailability(trip[t].vehicle, "AVAILABLE", trip[t].driver, TRUE)
      /\ TripWrite(r, t) /\ TripWritten(r, t)
      /\ trip'[t].tenant = trip[t].tenant /\ trip'[t].end = q.at
  BY CommitEndWrites
<1>2. RegisteredTypeOK /\ EndHeld(r)
  BY <1>1 DEF TripsInv, TripsTypeInv, TripsRaceInv
<1>3. TenantsKept
  BY <1>1, <1>2, SetAvailabilityTenants
<1>4. /\ \A u \in DOMAIN trip : u # t => trip'[u] = trip[u]
      /\ \A u \in DOMAIN trip : trip'[u].vehicle = trip[u].vehicle
      /\ trip'[t].start = trip[t].start
      /\ DOMAIN trip' = DOMAIN trip
  BY <1>1 DEF TripWrite
<1>5. trip'[t].tenant = vehicle[trip'[t].vehicle].tenant
  BY <1>1, <1>4 DEF TripsRaceInv, TripsOfOneTenant
<1>6. ASSUME NEW u \in DOMAIN trip, u # t, trip[u].vehicle = trip[t].vehicle,
             trip[u].end = None \/ trip[u].end > trip[t].start
      PROVE  u \in tmissed[r] \/ TripsRaced(t, u)
  BY <1>1, <1>2, <1>6 DEF EndHeld
<1>7. ASSUME NEW u \in DOMAIN trip, u # t, TripsCollide(t, u)'
      PROVE  u \in tmissed[r] \/ TripsRaced(t, u)
  <2>1. /\ trip'[t].vehicle = trip'[u].vehicle
        /\ trip'[u].end = None \/ trip'[u].end > trip'[t].start
    BY <1>7 DEF TripsCollide
  <2>2. trip[u].vehicle = trip[t].vehicle
    BY <1>1, <1>4, <2>1
  <2>3. trip[u].end = None \/ trip[u].end > trip[t].start
    BY <1>4, <1>7, <2>1
  <2> QED
    BY <1>6, <1>7, <2>2, <2>3
<1>8. "AVAILABLE" \in VehicleStatus
  BY DEF VehicleStatus
<1>9. /\ \A w \in Vehicles : w # trip[t].vehicle => vehicle'[w] = vehicle[w]
      /\ \A w \in Vehicles :
           w # trip[t].vehicle /\ w \notin overridden' => w \notin overridden
  BY <1>1, <1>2, <1>8, SetAvailabilityType
<1>10. q.at # None
  BY <1>1, SentinelAssumption
<1>11. ReleasedEarlyOnlyByRace'
  <2> SUFFICES ASSUME NEW w \in DOMAIN trip, trip'[w].end = None,
                      trip'[w].vehicle \notin overridden',
                      vehicle'[trip'[w].vehicle].status # "ON_TRIP"
               PROVE  \E u \in DOMAIN trip :
                         trip'[u].vehicle = trip'[w].vehicle /\ TripsRaced(w, u)'
    BY <1>4 DEF ReleasedEarlyOnlyByRace, ActiveTrip
  <2>1. w # t /\ trip'[w] = trip[w] /\ trip[w].vehicle \in Vehicles
    BY <1>1, <1>4, <1>10 DEF TripsInv, TripsTypeInv, IsTable, Trip
  <2>2. CASE trip[w].vehicle = trip[t].vehicle
    <3>1. w \in tmissed[r] \/ TripsRaced(t, w)
      BY <1>6, <2>1, <2>2
    <3>2. TripsRaced(w, t)'
      BY <1>1, <2>1, <3>1 DEF TripWritten, TripsRaced
    <3> QED
      BY <1>1, <1>4, <2>2, <3>2
  <2>3. CASE trip[w].vehicle # trip[t].vehicle
    <3>1. PICK u \in DOMAIN trip : trip[u].vehicle = trip[w].vehicle /\ TripsRaced(w, u)
      BY <1>9, <2>1, <2>3 DEF TripsRaceInv, ReleasedEarlyOnlyByRace, ActiveTrip
    <3>2. TripsRaced(w, u)'
      BY <1>1, <3>1 DEF TripWritten, TripsRaced
    <3> QED
      BY <1>4, <3>1, <3>2
  <2> QED
    BY <2>2, <2>3
<1> QED
  BY <1>1, <1>3, <1>5, <1>7, <1>11, TripWriteRaceInv

\* updateTrip's write is none that the invariant speaks of.
LEMMA CommitUpdateRaceInv ==
    ASSUME TripsInv, TripsRaceInv, NEW r \in TripRequests, CommitUpdate(r)
    PROVE  TripsRaceInv'
<1>1. /\ DOMAIN trip' = DOMAIN trip
      /\ \A u \in DOMAIN trip :
           /\ trip'[u].tenant = trip[u].tenant /\ trip'[u].vehicle = trip[u].vehicle
           /\ trip'[u].start = trip[u].start /\ trip'[u].end = trip[u].end
  BY CommitUpdateWrites
<1>2. /\ UNCHANGED <<traced, vehicle, driver, overridden>>
      /\ \A x \in TripRequests :
           treq'[x] # TripIdle => treq'[x] = treq[x] /\ tmissed'[x] = tmissed[x]
  BY DEF CommitUpdate, TripReturns, TripsInv, TripsTypeInv, TripsTypeOK
<1>3. TripsCollideOnlyByRace'
  BY <1>1, <1>2 DEF TripsRaceInv, TripsCollideOnlyByRace, TripsCollide, TripsRaced
<1>4. ReleasedEarlyOnlyByRace'
  BY <1>1, <1>2 DEF TripsRaceInv, ReleasedEarlyOnlyByRace, ActiveTrip, TripsRaced
<1>5. TripsOfOneTenant'
  BY <1>1, <1>2 DEF TripsRaceInv, TripsOfOneTenant
<1>6. ASSUME NEW x \in TripRequests, treq'[x] # TripIdle
      PROVE  StartHeld(x)' /\ EndHeld(x)'
  <2>1. /\ treq'[x] = treq[x] /\ tmissed'[x] = tmissed[x]
        /\ TripRequestOK(x) /\ StartHeld(x) /\ EndHeld(x)
    BY <1>2, <1>6 DEF TripsInv, TripsTypeInv, TripsRaceInv
  <2>2. StartHeld(x)'
    BY <1>1, <1>2, <2>1 DEF StartHeld
  <2>3. EndHeld(x)'
    BY <1>1, <1>2, <2>1 DEF EndHeld, TripRequestOK, TripsRaced
  <2> QED
    BY <2>2, <2>3
<1> QED
  BY <1>3, <1>4, <1>5, <1>6 DEF TripsRaceInv

\* Every step of TripsService preserves what is known of the races.
THEOREM TripsNextRaceInv ==
    TripsInv /\ TripsRaceInv /\ TripsNext => TripsRaceInv'
<1> SUFFICES ASSUME TripsInv, TripsRaceInv, NEW r \in TripRequests,
                    \/ StartTrip(r) \/ EndTrip(r) \/ UpdateTrip(r)
                    \/ TripStep(r) \/ TripRequestFails(r)
             PROVE  TripsRaceInv'
  BY DEF TripsNext
<1>1. CASE StartTrip(r)
  BY <1>1, StartTripRaceInv
<1>2. CASE EndTrip(r)
  BY <1>2, EndTripRaceInv
<1>3. CASE UpdateTrip(r)
  BY <1>3, UpdateTripRaceInv
<1>4. CASE ReadClock(r)
  BY <1>4, ReadClockRaceInv
<1>5. CASE CheckAssignment(r)
  BY <1>5, CheckAssignmentRaceInv
<1>6. CASE CheckVehicleAvailable(r)
  BY <1>6, CheckVehicleAvailableRaceInv
<1>7. CASE CheckActiveTrip(r)
  BY <1>7, CheckActiveTripRaceInv
<1>8. CASE CommitStart(r)
  BY <1>8, CommitStartRaceInv
<1>9. CASE CheckOwnTrip(r)
  BY <1>9, TripProceedsRaceInv DEF CheckOwnTrip, TripIdle
<1>10. CASE CommitEnd(r)
  BY <1>10, CommitEndRaceInv
<1>11. CASE CommitUpdate(r)
  BY <1>11, CommitUpdateRaceInv
<1>12. CASE TripRequestFails(r)
  BY <1>12, TripReturnsRaceInv DEF TripRequestFails
<1> QED
  BY <1>1, <1>2, <1>3, <1>4, <1>5, <1>6, <1>7, <1>8, <1>9, <1>10, <1>11, <1>12
     DEF TripStep

\* So does whatever leaves the trips and their requests alone, keeps every
\* tenant and changes a status only as an administrator.
THEOREM TripsUnchangedRaceInv ==
    ASSUME TripsInv, TripsRaceInv, UNCHANGED tripVars, TenantsKept,
           \A v \in Vehicles : v \notin overridden' =>
               v \notin overridden /\ vehicle'[v].status = vehicle[v].status
    PROVE  TripsRaceInv'
<1>1. UNCHANGED <<trip, treq, tmissed, traced>>
  BY DEF tripVars
<1>2. \A t \in DOMAIN trip : trip[t].vehicle \in Vehicles
  BY DEF TripsInv, TripsTypeInv, IsTable, Trip
<1>3. TripsCollideOnlyByRace'
  BY <1>1 DEF TripsRaceInv, TripsCollideOnlyByRace, TripsCollide, TripsRaced
<1>4. ReleasedEarlyOnlyByRace'
  BY <1>1, <1>2 DEF TripsRaceInv, ReleasedEarlyOnlyByRace, ActiveTrip, TripsRaced
<1>5. TripsOfOneTenant'
  BY <1>1, <1>2 DEF TripsRaceInv, TripsOfOneTenant, TenantsKept
<1>6. ASSUME NEW r \in TripRequests, treq'[r] # TripIdle
      PROVE  StartHeld(r)' /\ EndHeld(r)'
  <2>1. /\ treq'[r] = treq[r] /\ treq[r] \in TripRequest /\ TripRequestOK(r)
        /\ StartHeld(r) /\ EndHeld(r)
    BY <1>1, <1>6 DEF TripsInv, TripsTypeInv, TripsTypeOK, TripsRaceInv
  <2>2. treq[r].vehicle \in Vehicles
        /\ (treq[r].op = "start" => treq[r].driver \in Drivers)
    BY <2>1 DEF TripRequest, TripRequestOK
  <2>3. StartHeld(r)'
    BY <1>1, <2>1, <2>2 DEF StartHeld, TenantsKept
  <2>4. EndHeld(r)'
    BY <1>1, <2>1 DEF EndHeld, TripsRaced
  <2> QED
    BY <2>3, <2>4
<1> QED
  BY <1>3, <1>4, <1>5, <1>6 DEF TripsRaceInv

\* "Trip has already ended": whoever writes an end over another one had read
\* the trip before the first end was written.
THEOREM TripsNextEndRewritten ==
    ASSUME TripsInv, TripsRaceInv, TripsNext, NEW t \in DOMAIN trip,
           trip[t].end # None, trip'[t].end # trip[t].end
    PROVE  \E r \in TripRequests :
              /\ treq[r] # TripIdle /\ treq'[r] = TripIdle
              /\ treq[r].trip = t /\ t \in tmissed[r]
<1>1. PICK r \in TripRequests :
         \/ StartTrip(r) \/ EndTrip(r) \/ UpdateTrip(r)
         \/ TripStep(r) \/ TripRequestFails(r)
  BY DEF TripsNext
<1>2. trip' # trip
  OBVIOUS
<1>3. CASE CommitStart(r)
  BY <1>3, CommitStartWrites DEF TripWrite
<1>4. CASE CommitUpdate(r)
  BY <1>4, CommitUpdateWrites
<1>5. CASE CommitEnd(r)
  <2>1. /\ treq[r] # TripIdle /\ treq[r].op = "end"
        /\ TripWrite(r, treq[r].trip)
    BY <1>5, CommitEndWrites
  <2>2. t = treq[r].trip
    BY <2>1 DEF TripWrite
  <2>3. treq'[r] = TripIdle
    BY <2>1 DEF TripWrite, TripsInv, TripsTypeInv, TripsTypeOK
  <2>4. t \in tmissed[r]
    BY <2>1, <2>2 DEF TripsRaceInv, EndHeld
  <2> QED
    BY <2>1, <2>2, <2>3, <2>4
<1> QED
  BY <1>1, <1>2, <1>3, <1>4, <1>5
     DEF StartTrip, EndTrip, UpdateTrip, TripStep, TripRequestFails, ReadClock,
         CheckAssignment, CheckVehicleAvailable, CheckActiveTrip, CheckOwnTrip,
         TripProceeds

----------------------------------------------------------------------------
(***************************************************************************)
(* One trip request at a time: no trip is missed and none races.           *)
(***************************************************************************)
OneTripRequest == \A q, r \in TripRequests : q = r

SerialTripsInv ==
    /\ traced = {}
    /\ \A r \in TripRequests : tmissed[r] = {}

\* A single slot is told of no write but its own.
THEOREM TripsNextSerialInv ==
    ASSUME OneTripRequest, TripsTypeOK, SerialTripsInv, TripsNext
    PROVE  SerialTripsInv'
<1> PICK r \in TripRequests :
         \/ StartTrip(r) \/ EndTrip(r) \/ UpdateTrip(r)
         \/ TripStep(r) \/ TripRequestFails(r)
  BY DEF TripsNext
<1>1. CASE UNCHANGED <<traced, tmissed>>
  BY <1>1 DEF SerialTripsInv
<1>2. CASE TripReturns(r) /\ UNCHANGED traced
  BY <1>2 DEF TripReturns, SerialTripsInv, TripsTypeOK
<1>3. CASE \E t : TripWritten(r, t)
  <2>1. PICK t : TripWritten(r, t)
    BY <1>3
  <2>2. traced' = traced \cup ({t} \X (tmissed[r] \ {t}))
    BY <2>1 DEF TripWritten
  <2>3. \A q \in TripRequests : tmissed'[q] = {}
    BY <2>1 DEF TripWritten, OneTripRequest
  <2> QED
    BY <2>2, <2>3 DEF SerialTripsInv
<1>4. CASE CommitStart(r) \/ CommitEnd(r)
  BY <1>3, <1>4 DEF CommitStart, CommitEnd
<1>5. CASE CheckAssignment(r) \/ CheckVehicleAvailable(r) \/ CheckActiveTrip(r)
           \/ CheckOwnTrip(r)
  BY <1>1, <1>2, <1>5 DEF CheckAssignment, CheckVehicleAvailable, CheckActiveTrip,
                          CheckOwnTrip, TripProceeds
<1>6. CASE CommitUpdate(r) \/ TripRequestFails(r)
  BY <1>2, <1>6 DEF CommitUpdate, TripRequestFails
<1>7. CASE StartTrip(r) \/ EndTrip(r) \/ UpdateTrip(r) \/ ReadClock(r)
  BY <1>1, <1>7 DEF StartTrip, EndTrip, UpdateTrip, ReadClock
<1> QED
  BY <1>4, <1>5, <1>6, <1>7 DEF TripStep

\* Two active trips of one vehicle collide.
LEMMA ActiveTripsCollide ==
    ASSUME TripsCollideOnlyByRace, traced = {}
    PROVE  OneActiveTripPerVehicle
BY DEF TripsCollideOnlyByRace, TripsCollide, TripsRaced, OneActiveTripPerVehicle,
       ActiveTrip

=============================================================================
