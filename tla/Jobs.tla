--------------------------------- MODULE Jobs ---------------------------------
(***************************************************************************)
(* What the two background jobs do, on top of the queue that hands them    *)
(* out: the offline detection, which alerts a tenant to vehicles on a trip *)
(* that send no location, and the daily scan, which calls                  *)
(* AlertsService.scan for every active tenant.  Every await is a step.     *)
(*                                                                         *)
(* Only one tenant's vehicles are modelled: each query of the detection is *)
(* over one tenant.  Time is the order of events: a location or an alert   *)
(* gets old in a step of its own.                                          *)
(***************************************************************************)
EXTENDS JobQueue

CONSTANTS
    TripVehicles,   \* the vehicles of a tenant that may be on a trip
    Numbers,        \* registration numbers
    Longer,         \* those whose text contains the text of the others
    Broken          \* tenants whose scan the database always refuses

ASSUME JobsAssumption == Longer \subseteq Numbers /\ Broken \subseteq Tenants

VARIABLES
    onTrip,      \* vehicles with status ON_TRIP
    number,      \* number[v]: v's registration number
    lastGps,     \* lastGps[v]: no location ever, or how old the last one is
    offline,     \* the unread VEHICLE_OFFLINE alerts of the last hour
    active,      \* the active tenants
    expiring,    \* tenants with something a scan reports
    told,        \* tenants alerted to what expires since the last scan was due
    run,         \* run[p]: the job p is running
    renamed,     \* history: vehicles whose registration number was changed
    beside       \* history: the alerts other runs created since p's run began

monitorVars == <<onTrip, number, renamed, lastGps, offline, active, expiring, told, run, beside>>

jobsVars == <<queueVars, monitorVars>>

NoRun == [job |-> None]

\* A vehicle by its id and the registration number it was read with; and an alert:
\* its message has the number only, the vehicle it was created for is history.
Named == [vehicle : TripVehicles, number : Numbers]

\* alive are the vehicles whose last location is within the threshold, which is
\* fixed when the run begins; at is the vehicle between its two queries.
OfflineRun ==
    [job : {"offline-detection"}, left : SUBSET Named, at : Named \cup {None},
     alive : SUBSET TripVehicles, found : SUBSET Named]

DailyRun ==
    [job : {"daily-alerts-scan"}, left : SUBSET Tenants, at : Tenants \cup {None},
     read : BOOLEAN]

JobsTypeOK ==
    /\ QueueTypeOK
    /\ onTrip \subseteq TripVehicles /\ renamed \subseteq TripVehicles
    /\ number \in [TripVehicles -> Numbers]
    /\ lastGps \in [TripVehicles -> {"never", "recent", "old"}]
    /\ offline \subseteq Named
    /\ active \subseteq Tenants /\ expiring \subseteq Tenants /\ told \subseteq Tenants
    /\ \A p \in Processes :
         /\ run[p] \in OfflineRun \cup DailyRun \cup {NoRun}
         /\ run[p].job # None => run[p].job = worker[p]
    /\ beside \in [Processes -> SUBSET Named]

JobsInit ==
    /\ QueueInit
    /\ onTrip = {} /\ renamed = {} /\ offline = {}
    /\ number \in [TripVehicles -> Numbers]
    /\ \A v, w \in TripVehicles : number[v] = number[w] => v = w
    /\ lastGps = [v \in TripVehicles |-> "never"]
    /\ active = Tenants /\ expiring = {} /\ told = {}
    /\ run = [p \in Processes |-> NoRun]
    /\ beside = [p \in Processes |-> {}]

----------------------------------------------------------------------------
(***************************************************************************)
(* The world the jobs look at.                                             *)
(***************************************************************************)
\* Trips start and end.
TripsChange ==
    /\ \E v \in TripVehicles :
         onTrip' = IF v \in onTrip THEN onTrip \ {v} ELSE onTrip \cup {v}
    /\ UNCHANGED <<queueVars, number, renamed, lastGps, offline, active, expiring, told, run, beside>>

\* TrackingService.saveLocation: too late for a threshold fixed before to miss it.
VehicleReports(v) ==
    /\ lastGps' = [lastGps EXCEPT ![v] = "recent"]
    /\ run' = [p \in Processes |->
         IF run[p].job = "offline-detection" THEN [run[p] EXCEPT !.alive = @ \cup {v}]
         ELSE run[p]]
    /\ UNCHANGED <<queueVars, onTrip, number, renamed, offline, active, expiring, told, beside>>

\* OFFLINE_THRESHOLD_MINUTES pass.
LocationAges(v) ==
    /\ lastGps[v] = "recent"
    /\ lastGps' = [lastGps EXCEPT ![v] = "old"]
    /\ UNCHANGED <<queueVars, onTrip, number, renamed, offline, active, expiring, told, run, beside>>

\* VehiclesService.update: the unique index admits a number that no other vehicle
\* has.  An alert's message keeps the number it was written with.
VehicleRenamed(v) ==
    /\ \E n \in Numbers \ {number[w] : w \in TripVehicles} :
         number' = [number EXCEPT ![v] = n]
    /\ renamed' = renamed \cup {v}
    /\ UNCHANGED <<queueVars, onTrip, lastGps, offline, active, expiring, told, run, beside>>

\* markRead and dismiss; or the hour passes that the duplicate check looks back.
AlertSettled(v) ==
    /\ \E y \in offline : y.vehicle = v /\ offline' = offline \ {y}
    /\ UNCHANGED <<queueVars, onTrip, number, renamed, lastGps, active, expiring, told, run, beside>>

\* Tenants are suspended and activated.
TenantsChange ==
    /\ \E t \in Tenants : active' = IF t \in active THEN active \ {t} ELSE active \cup {t}
    /\ UNCHANGED <<queueVars, onTrip, number, renamed, lastGps, offline, expiring, told, run, beside>>

\* Documents, contracts and maintenance come up, and are renewed.
ExpiryChanges ==
    /\ \E t \in Tenants :
         expiring' = IF t \in expiring THEN expiring \ {t} ELSE expiring \cup {t}
    /\ UNCHANGED <<queueVars, onTrip, number, renamed, lastGps, offline, active, told, run, beside>>

----------------------------------------------------------------------------
RunEnds(p) ==
    /\ JobEnds(p)
    /\ run' = [run EXCEPT ![p] = NoRun]
    /\ beside' = [beside EXCEPT ![p] = {}]

World == <<onTrip, number, renamed, lastGps, offline, active, expiring, told>>

\* A query throws: the job has failed, and what it found is lost.
JobFails(p) ==
    /\ run[p].job # None /\ Fault /\ RunEnds(p)
    /\ UNCHANGED World

(***************************************************************************)
(* runOfflineDetection.                                                    *)
(***************************************************************************)
\* findMany of the vehicles on a trip, with their registration numbers; without any
\* the job is done.
FindOnTrip(p) ==
    /\ worker[p] = "offline-detection" /\ run[p] = NoRun
    /\ IF onTrip = {}
         THEN JobEnds(p) /\ UNCHANGED <<run, faults>>
         ELSE /\ run' = [run EXCEPT ![p] =
                   [job |-> "offline-detection", at |-> None,
                    left |-> {[vehicle |-> v, number |-> number[v]] : v \in onTrip},
                    alive |-> {v \in TripVehicles : lastGps[v] = "recent"}, found |-> {}]]
              /\ UNCHANGED queueVars
    /\ UNCHANGED <<World, beside>>

\* Mutant: a vehicle that never sent a location is not looked at.
IsOfflineIfSeen(p, x) == lastGps[x.vehicle] # "never" /\ x.vehicle \notin run[p].alive

\* !lastGps || lastGps.timestamp < threshold
IsOffline(p, x) == x.vehicle \notin run[p].alive

\* The last location of the next vehicle.
CheckGps(p) ==
    /\ run[p].job = "offline-detection" /\ run[p].at = None
    /\ \E x \in run[p].left :
         run' = [run EXCEPT ![p].left = @ \ {x}, ![p].at = IF IsOffline(p, x) THEN x ELSE None]
    /\ UNCHANGED <<queueVars, World, beside>>

\* message: { contains: registrationNo }
Mentions(y, n) == y.number = n \/ (y.number \in Longer /\ n \notin Longer)

\* Mutant: nothing is a duplicate.
DuplicateOfNone(x) == FALSE

\* An alert mentions the number that the run read, which need not be the one that
\* the vehicle's own alert was written with.
Duplicate(x) == \E y \in offline : Mentions(y, x.number)

CheckDuplicate(p) ==
    /\ run[p].job = "offline-detection" /\ run[p].at # None
    /\ run' = [run EXCEPT ![p].at = None,
         ![p].found = IF Duplicate(run[p].at) THEN @ ELSE @ \cup {run[p].at}]
    /\ UNCHANGED <<queueVars, World, beside>>

AlertsCreated(p) == run[p].job = "offline-detection" /\ run[p].left = {} /\ run[p].at = None

\* createMany of what was found.
CreateOfflineAlerts(p) ==
    LET found == run[p].found IN
    /\ AlertsCreated(p)
    /\ offline' = offline \cup found
    /\ JobEnds(p) /\ UNCHANGED faults
    /\ run' = [run EXCEPT ![p] = NoRun]
    /\ beside' = [q \in Processes |->
         IF q = p THEN {}
         ELSE IF run[q].job = "offline-detection" THEN beside[q] \cup found
         ELSE beside[q]]
    /\ UNCHANGED <<onTrip, number, renamed, lastGps, active, expiring, told>>

(***************************************************************************)
(* runDailyAlertsScan.                                                     *)
(***************************************************************************)
FindTenants(p) ==
    /\ worker[p] = "daily-alerts-scan" /\ run[p] = NoRun
    /\ run' = [run EXCEPT ![p] =
         [job |-> "daily-alerts-scan", left |-> active, at |-> None, read |-> FALSE]]
    /\ UNCHANGED <<queueVars, World, beside>>

\* scan reads what expires for the next tenant.
ScanReads(p) ==
    /\ run[p].job = "daily-alerts-scan" /\ run[p].at = None
    /\ \E t \in run[p].left \ Broken :
         run' = [run EXCEPT ![p].left = @ \ {t}, ![p].at = t, ![p].read = t \in expiring]
    /\ UNCHANGED <<queueVars, World, beside>>

\* ... and creates an alert for each, whether or not there is one already.
ScanCreates(p) ==
    /\ run[p].job = "daily-alerts-scan" /\ run[p].at # None
    /\ told' = IF run[p].read THEN told \cup {run[p].at} ELSE told
    /\ run' = [run EXCEPT ![p].at = None, ![p].read = FALSE]
    /\ UNCHANGED <<queueVars, onTrip, number, renamed, lastGps, offline, active, expiring, beside>>

\* Mutant: one tenant's error ends the scan.
ScanFailsForAll(p) ==
    /\ run[p].job = "daily-alerts-scan" /\ run[p].at = None
    /\ run[p].left \cap Broken # {}
    /\ RunEnds(p)
    /\ UNCHANGED <<World, faults>>

\* The error of one tenant's scan is caught, and the next tenant's turn comes.
ScanFails(p) ==
    /\ run[p].job = "daily-alerts-scan" /\ run[p].at = None
    /\ \E t \in run[p].left \cap Broken : run' = [run EXCEPT ![p].left = @ \ {t}]
    /\ UNCHANGED <<queueVars, World, beside>>

ScanEnds(p) ==
    /\ run[p].job = "daily-alerts-scan" /\ run[p].at = None /\ run[p].left = {}
    /\ RunEnds(p)
    /\ UNCHANGED <<World, faults>>

\* POST /alerts/scan
ScanByHand ==
    /\ \E t \in expiring \ Broken : told' = told \cup {t}
    /\ UNCHANGED <<queueVars, onTrip, number, renamed, lastGps, offline, active, expiring, run, beside>>

----------------------------------------------------------------------------
\* A process's run goes with the process.
ProcessStep(p) ==
    \/ /\ ScheduleStep(p) \/ ScheduleFails(p) \/ Stops(p) \/ Stalls(p)
             \/ \E k \in JobNames : ProcessJob(p, k)
       /\ UNCHANGED monitorVars
    \/ /\ Crashes(p)
       /\ run' = [run EXCEPT ![p] = NoRun]
       /\ beside' = [beside EXCEPT ![p] = {}]
       /\ UNCHANGED World

\* A new scan is due for tenants to be told again.
BecomesDue(k) ==
    /\ Due(k)
    /\ told' = IF k = "daily-alerts-scan" THEN {} ELSE told
    /\ UNCHANGED <<onTrip, number, renamed, lastGps, offline, active, expiring, run, beside>>

RunStep(p) ==
    \/ FindOnTrip(p) \/ CheckGps(p) \/ CheckDuplicate(p) \/ CreateOfflineAlerts(p)
    \/ FindTenants(p) \/ ScanReads(p) \/ ScanCreates(p) \/ ScanFails(p) \/ ScanEnds(p)

WorldChanges ==
    \/ TripsChange \/ TenantsChange \/ ExpiryChanges \/ ScanByHand
    \/ \E v \in TripVehicles : VehicleReports(v) \/ LocationAges(v) \/ VehicleRenamed(v)
                                \/ AlertSettled(v)

JobsNext ==
    \/ \E p \in Processes : ProcessStep(p) \/ RunStep(p) \/ JobFails(p)
    \/ \E k \in JobNames : BecomesDue(k)
    \/ WorldChanges

\* A process is started again, and its scheduling goes on; a job that is scheduled
\* becomes due; the queue is first in, first out, and a worker that has a job runs
\* it.  Nothing else is sure to happen.
JobsFairness ==
    /\ \A p \in Processes :
         /\ WF_jobsVars(ScheduleStep(p) /\ UNCHANGED monitorVars)
         /\ WF_jobsVars(RunStep(p))
    /\ \A k \in JobNames :
         /\ WF_jobsVars(BecomesDue(k))
         /\ SF_jobsVars((\E p \in Processes : ProcessJob(p, k)) /\ UNCHANGED monitorVars)

JobsSpec == JobsInit /\ [][JobsNext]_jobsVars /\ JobsFairness

----------------------------------------------------------------------------
(***************************************************************************)
(* Properties.                                                             *)
(***************************************************************************)
\* A run alerts to a vehicle a second time within the hour, the first alert still
\* unread, only if the first one was created by another run beside it, by a process
\* that had lost the job's lock or a run that lasted into the next; or if the vehicle
\* was given another registration number, which the first alert does not mention.
OfflineRepeatOnlyByRaceOrRename ==
    [][\A p \in Processes :
          CreateOfflineAlerts(p) =>
            \A x \in run[p].found, y \in offline :
               y.vehicle = x.vehicle =>
                 \/ y \in beside[p]
                 \/ x.vehicle \in renamed /\ ~Mentions(y, x.number)]_jobsVars

\* A vehicle that stays on its trip and silent, and keeps its registration number,
\* while the detection stays scheduled, is mentioned by a recent unread alert again
\* and again, whatever crashes, lost locks and failed runs there were.
SilentIsReported ==
    \A v \in TripVehicles, n \in Numbers :
        <>[](/\ v \in onTrip /\ lastGps[v] # "recent" /\ number[v] = n
             /\ "offline-detection" \in repeatables)
          => []<>(\E y \in offline : Mentions(y, n))

\* A tenant that stays active, with something about to expire, is alerted to it again
\* and again while the scan stays scheduled, even if another tenant's scan fails
\* every time.
ExpiryIsTold ==
    \A t \in Tenants \ Broken :
        <>[](t \in active \cap expiring /\ "daily-alerts-scan" \in repeatables)
          => []<>(t \in told)

\* jobs.service.ts:182-183 "Creates a VEHICLE_OFFLINE alert if no GPS received [...]
\* Deduplicates": a vehicle found silent is passed over only for an alert about it.
PassedOverForItsOwnAlert ==
    [][\A p \in Processes :
          /\ run[p].job = "offline-detection" /\ run[p].at # None
          /\ run'[p].job = "offline-detection" /\ run'[p].at = None
          => \/ run[p].at \in run'[p].found
             \/ \E y \in offline : y.vehicle = run[p].at.vehicle]_jobsVars

=============================================================================
