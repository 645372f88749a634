-------------------------------- MODULE Trips --------------------------------
(***************************************************************************)
(* TripsService: startTrip, endTrip and updateTrip, as requests that       *)
(* interleave at every awaited query.  treq[r] is the handler in slot r.   *)
(* new Date() is read between two queries, in a step of its own: by then   *)
(* the answer before it may be old, and the instant is kept in treq[r].at  *)
(* until it is written.                                                    *)
(***************************************************************************)
EXTENDS FleetTables

CONSTANT TripRequests   \* bound: trip requests in flight at once

VARIABLES
    treq,       \* treq[r]: the handler in slot r
    tmissed,    \* history: trips written since r's first read
    traced      \* history: pairs <<t, u>>: u was written between the first
                \* read and the write of a request on t

tripVars == <<trip, treq, tmissed, traced>>

TripIdle ==
    [pc |-> "idle", op |-> "none", trip |-> None, vehicle |-> None,
     driver |-> None, at |-> None, income |-> Absent]

\* driver is the driver profile of the caller of startTrip or, in endTrip, of a
\* caller with role DRIVER; it is None for the other roles.  vehicle is the
\* route's for startTrip and the trip's for endTrip.
TripRequest ==
    [pc : {"clock", "assignment", "vehicle", "activeTrip", "ownTrip", "write"},
     op : {"start", "end", "update"},
     trip : TripIds \cup {None}, vehicle : Vehicles,
     driver : Drivers \cup {None}, at : Days \cup {None}, income : Incomes \cup {Absent}]

TripsTypeOK ==
    /\ DOMAIN treq = TripRequests
    /\ \A r \in TripRequests : treq[r] \in TripRequest \cup {TripIdle}
    /\ tmissed \in [TripRequests -> SUBSET TripIds]
    /\ traced \subseteq TripIds \X TripIds

TripsInit ==
    /\ treq = [r \in TripRequests |-> TripIdle]
    /\ tmissed = [r \in TripRequests |-> {}]
    /\ traced = {}

UpdateTripDto == Incomes \cup {Absent}

----------------------------------------------------------------------------
(***************************************************************************)
(* Steps that handlers share.                                              *)
(***************************************************************************)
TripReturns(r) ==
    /\ treq' = [treq EXCEPT ![r] = TripIdle]
    /\ tmissed' = [tmissed EXCEPT ![r] = {}]

\* The handler in slot r moves on to pc, or throws.
TripProceeds(r, ok, pc) ==
    /\ IF ok THEN /\ treq' = [treq EXCEPT ![r].pc = pc]
                  /\ UNCHANGED tmissed
             ELSE TripReturns(r)
    /\ UNCHANGED <<trip, traced, vehicle, driver, overridden>>

\* r wrote trip t and returned; t is news to every other request in flight.
TripWritten(r, t) ==
    /\ treq' = [treq EXCEPT ![r] = TripIdle]
    /\ traced' = traced \cup ({t} \X (tmissed[r] \ {t}))
    /\ tmissed' = [q \in TripRequests |->
                     IF q # r /\ treq[q] # TripIdle THEN tmissed[q] \cup {t}
                                                    ELSE {}]

ActiveTrip(row) == row.end = None

FindTrip(t, tenant) == t \in DOMAIN trip /\ trip[t].tenant = tenant

\* driver.findFirst by the caller's user and tenant, not deleted.
FindDriver(d) == d \in Drivers /\ ~driver[d].deleted

\* The second and third statements of both transactions.
SetAvailability(v, status, d, isAvailable) ==
    /\ vehicle' = [vehicle EXCEPT ![v].status = status]
    /\ driver' = [driver EXCEPT ![d].isAvailable = isAvailable]
    /\ overridden' = overridden \ {v, d}

\* Bound: a start is accepted only while an id is left for every start.
RoomForTrip ==
    Cardinality(DOMAIN trip)
      + Cardinality({r \in TripRequests : treq[r].op = "start"})
      < Cardinality(TripIds)

----------------------------------------------------------------------------
(***************************************************************************)
(* startTrip                                                               *)
(***************************************************************************)

\* 1. The caller's driver profile.
StartTrip(r) ==
    /\ treq[r] = TripIdle
    /\ RoomForTrip
    /\ \E v \in Vehicles, d \in Drivers :
         /\ FindDriver(d)
         /\ treq' = [treq EXCEPT ![r] =
              [pc |-> "clock", op |-> "start", trip |-> None,
               vehicle |-> v, driver |-> d, at |-> None, income |-> Absent]]
    /\ UNCHANGED <<trip, tmissed, traced, vehicle, driver, overridden>>

\* Mutant: the instant is one that the caller sends.
ReadClockOfCaller(r) ==
    /\ treq[r].pc = "clock"
    /\ \E at \in Days :
         treq' = [treq EXCEPT
           ![r].pc = IF treq[r].op = "start" THEN "assignment" ELSE "write",
           ![r].at = at]
    /\ UNCHANGED <<trip, tmissed, traced, vehicle, driver, overridden>>

\* const now = new Date(), in startTrip and in endTrip.
ReadClock(r) ==
    /\ treq[r].pc = "clock"
    /\ treq' = [treq EXCEPT
         ![r].pc = IF treq[r].op = "start" THEN "assignment" ELSE "write",
         ![r].at = now]
    /\ UNCHANGED <<trip, tmissed, traced, vehicle, driver, overridden>>

\* Mutant: the period of the assignment is not tested.
CheckAssignmentAnyPeriod(r) ==
    LET q == treq[r] IN
    /\ q.pc = "assignment"
    /\ TripProceeds(r, \E a \in DOMAIN assignment :
                          /\ assignment[a].vehicle = q.vehicle
                          /\ assignment[a].driver = q.driver
                          /\ ~assignment[a].deleted,
                    "vehicle")

\* 2. An assignment of this driver to this vehicle that covers the instant.
CheckAssignment(r) ==
    LET q == treq[r] IN
    /\ q.pc = "assignment"
    /\ TripProceeds(r, \E a \in DOMAIN assignment :
                          /\ assignment[a].vehicle = q.vehicle
                          /\ assignment[a].driver = q.driver
                          /\ ~assignment[a].deleted
                          /\ assignment[a].start <= q.at
                          /\ \/ assignment[a].end = None
                             \/ assignment[a].end >= q.at,
                    "vehicle")

\* Mutant: a vehicle that is not AVAILABLE is waited for.
CheckVehicleAvailableWaits(r) ==
    LET v == treq[r].vehicle IN
    /\ treq[r].pc = "vehicle"
    /\ TripProceeds(r, vehicle[v].tenant = driver[treq[r].driver].tenant,
                    IF vehicle[v].status = "AVAILABLE" THEN "activeTrip"
                                                       ELSE "vehicle")

\* 3. The vehicle: the tenant's, not deleted and AVAILABLE.
CheckVehicleAvailable(r) ==
    LET v == treq[r].vehicle IN
    /\ treq[r].pc = "vehicle"
    /\ TripProceeds(r, /\ vehicle[v].tenant = driver[treq[r].driver].tenant
                       /\ ~vehicle[v].deleted
                       /\ vehicle[v].status = "AVAILABLE",
                    "activeTrip")

\* Mutant: the vehicle's status is trusted.
CheckActiveTripSkipped(r) ==
    /\ treq[r].pc = "activeTrip"
    /\ TripProceeds(r, TRUE, "write")

\* 4. "Ensure no active trip already exists for this vehicle"
CheckActiveTrip(r) ==
    LET q == treq[r] IN
    /\ q.pc = "activeTrip"
    /\ TripProceeds(r, ~\E t \in DOMAIN trip :
                           /\ trip[t].vehicle = q.vehicle
                           /\ trip[t].tenant = driver[q.driver].tenant
                           /\ ActiveTrip(trip[t]),
                    "write")

\* 5. One transaction: the trip, the vehicle, the driver.
CommitStart(r) ==
    LET q == treq[r] IN
    /\ q.pc = "write" /\ q.op = "start"
    /\ \E t \in TripIds \ DOMAIN trip :
         /\ trip' = Insert(trip, t,
              [tenant |-> driver[q.driver].tenant, vehicle |-> q.vehicle,
               driver |-> q.driver, start |-> q.at, end |-> None, income |-> 0])
         /\ TripWritten(r, t)
    /\ SetAvailability(q.vehicle, "ON_TRIP", q.driver, FALSE)

----------------------------------------------------------------------------
(***************************************************************************)
(* endTrip and updateTrip                                                  *)
(***************************************************************************)

\* Mutant: an ended trip can be ended again.
EndTripAgain(r) ==
    /\ treq[r] = TripIdle
    /\ \E tenant \in Tenants, t \in TripIds, dto \in UpdateTripDto :
         /\ FindTrip(t, tenant)
         /\ treq' = [treq EXCEPT ![r] =
              [pc |-> "clock", op |-> "end", trip |-> t,
               vehicle |-> trip[t].vehicle, driver |-> None,
               at |-> None, income |-> dto]]
    /\ UNCHANGED <<trip, tmissed, traced, vehicle, driver, overridden>>

\* Read the trip, which must be active; a DRIVER still has to be looked up.
EndTrip(r) ==
    /\ treq[r] = TripIdle
    /\ \E tenant \in Tenants, t \in TripIds, dto \in UpdateTripDto,
          caller \in Drivers \cup {None} :
         /\ FindTrip(t, tenant)
         /\ caller # None => driver[caller].tenant = tenant
         /\ ActiveTrip(trip[t])
         /\ treq' = [treq EXCEPT ![r] =
              [pc |-> IF caller = None THEN "clock" ELSE "ownTrip",
               op |-> "end", trip |-> t, vehicle |-> trip[t].vehicle,
               driver |-> caller, at |-> None, income |-> dto]]
    /\ UNCHANGED <<trip, tmissed, traced, vehicle, driver, overridden>>

\* A DRIVER ends only a trip of the driver profile it has now.
CheckOwnTrip(r) ==
    LET q == treq[r] IN
    /\ q.pc = "ownTrip"
    /\ TripProceeds(r, FindDriver(q.driver) /\ trip[q.trip].driver = q.driver,
                    "clock")

\* Mutant: the vehicle is not released.
CommitEndUnreleased(r) ==
    LET q == treq[r] IN
    /\ q.pc = "write" /\ q.op = "end"
    /\ trip' = [trip EXCEPT ![q.trip].end = q.at]
    /\ TripWritten(r, q.trip)
    /\ driver' = [driver EXCEPT ![trip[q.trip].driver].isAvailable = TRUE]
    /\ UNCHANGED <<vehicle, overridden>>

\* One transaction: the trip, its vehicle, its driver.  The trip's own WHERE is
\* its id only.
CommitEnd(r) ==
    LET q == treq[r] IN
    /\ q.pc = "write" /\ q.op = "end"
    /\ trip' = [trip EXCEPT
         ![q.trip].end = q.at,
         ![q.trip].income = IF q.income = Absent THEN @ ELSE q.income]
    /\ TripWritten(r, q.trip)
    /\ SetAvailability(q.vehicle, "AVAILABLE", trip[q.trip].driver, TRUE)

\* updateTrip: the trip exists, active or ended.
UpdateTrip(r) ==
    /\ treq[r] = TripIdle
    /\ \E tenant \in Tenants, t \in TripIds, dto \in UpdateTripDto :
         /\ FindTrip(t, tenant)
         /\ treq' = [treq EXCEPT ![r] =
              [pc |-> "write", op |-> "update", trip |-> t,
               vehicle |-> trip[t].vehicle, driver |-> None, at |-> None,
               income |-> dto]]
    /\ UNCHANGED <<trip, tmissed, traced, vehicle, driver, overridden>>

CommitUpdate(r) ==
    LET q == treq[r] IN
    /\ q.pc = "write" /\ q.op = "update"
    /\ trip' = [trip EXCEPT
         ![q.trip].income = IF q.income = Absent THEN @ ELSE q.income]
    /\ TripReturns(r)
    /\ UNCHANGED <<traced, vehicle, driver, overridden>>

\* The database refuses a query, or the process dies, before the write.
TripRequestFails(r) ==
    /\ treq[r] # TripIdle
    /\ TripReturns(r)
    /\ UNCHANGED <<trip, traced, vehicle, driver, overridden>>

TripStep(r) ==
    \/ ReadClock(r)
    \/ CheckAssignment(r)
    \/ CheckVehicleAvailable(r)
    \/ CheckActiveTrip(r)
    \/ CommitStart(r)
    \/ CheckOwnTrip(r)
    \/ CommitEnd(r)
    \/ CommitUpdate(r)

TripsNext ==
    \E r \in TripRequests :
        \/ StartTrip(r)
        \/ EndTrip(r)
        \/ UpdateTrip(r)
        \/ TripStep(r)
        \/ TripRequestFails(r)

----------------------------------------------------------------------------
(***************************************************************************)
(* Properties.                                                             *)
(***************************************************************************)

\* Two trips that both have the vehicle at one instant; an active trip has it
\* from its start on.
TripsCollide(t, u) ==
    /\ t # u
    /\ trip[t].vehicle = trip[u].vehicle
    /\ trip[t].end = None \/ trip[t].end > trip[u].start
    /\ trip[u].end = None \/ trip[u].end > trip[t].start

TripsRaced(t, u) == <<t, u>> \in traced \/ <<u, t>> \in traced

\* startTrip's checks keep the recorded [startTime, endTime) ranges of one
\* vehicle's trips apart, two active trips included, unless one of the two was
\* started or ended while a request on the other was in flight.
TripsCollideOnlyByRace ==
    \A t, u \in DOMAIN trip : TripsCollide(t, u) => TripsRaced(t, u)

\* "Ensure no active trip already exists for this vehicle"
OneActiveTripPerVehicle ==
    \A t, u \in DOMAIN trip :
        /\ ActiveTrip(trip[t]) /\ ActiveTrip(trip[u])
        /\ trip[t].vehicle = trip[u].vehicle
        => t = u

\* endTrip gives back what startTrip took, in whatever order requests commit: a
\* vehicle that trips left ON_TRIP, or a driver they left unavailable, has an
\* active trip, whose end will release it.
NothingStranded ==
    /\ \A v \in Vehicles \ overridden :
         vehicle[v].status = "ON_TRIP"
           => \E t \in DOMAIN trip : trip[t].vehicle = v /\ ActiveTrip(trip[t])
    /\ \A d \in Drivers \ overridden :
         ~driver[d].isAvailable
           => \E t \in DOMAIN trip : trip[t].driver = d /\ ActiveTrip(trip[t])

\* A vehicle on an active trip is ON_TRIP unless an administrator wrote another
\* status, or endTrip of an earlier trip released it late: the active trip then
\* raced with another trip of the vehicle.
ReleasedEarlyOnlyByRace ==
    \A t \in DOMAIN trip :
        /\ ActiveTrip(trip[t])
        /\ trip[t].vehicle \notin overridden
        /\ vehicle[trip[t].vehicle].status # "ON_TRIP"
        => \E u \in DOMAIN trip :
              trip[u].vehicle = trip[t].vehicle /\ TripsRaced(t, u)

\* "Trip has already ended": endTrip refuses an ended trip, so an end is written
\* over another one only by an endTrip that had read the trip before the first
\* end was written.
EndRewrittenOnlyByRace ==
    [][\A t \in DOMAIN trip :
          trip[t].end # None /\ trip'[t].end # trip[t].end
            => \E r \in TripRequests :
                  /\ treq[r] # TripIdle /\ treq'[r] = TripIdle
                  /\ treq[r].trip = t /\ t \in tmissed[r]]_trip

\* The instants that startTrip and endTrip read from the clock are kept across
\* awaits before they are written; still no trip ends before it starts, and no
\* recorded instant lies in the future.
TripTimesOrdered ==
    \A t \in DOMAIN trip :
        /\ trip[t].start <= now
        /\ trip[t].end # None => trip[t].start <= trip[t].end /\ trip[t].end <= now

=============================================================================
