----------------------------- MODULE MCMonitoring -----------------------------
(***************************************************************************)
(* Monitoring instantiated for TLC.  A behaviour keeps to one part, chosen *)
(* at the start by focus: the locations; the schedule alone; the           *)
(* detection, by several processes over one vehicle, or by one process     *)
(* over all; the scan.  Where jobs run, a process's boot is left alone,    *)
(* there is one fault at most, and the jobs of the other kind never become *)
(* due.                                                                    *)
(***************************************************************************)
EXTENDS Monitoring, SequencesExt

VARIABLE focus

\* Bound: the registration numbers at first.
Registered == CHOOSE f \in Injection(TripVehicles, Numbers) : Longer \subseteq Range(f)

\* Slots and rows are interchangeable: the first that is free is taken.
Slots == SetToSeq(TrackingRequests)

Rows == SetToSeq(Locations)

Parts == {"tracking", "schedule", "overlap", "vehicles", "daily"}

JobOf == [overlap |-> "offline-detection", vehicles |-> "offline-detection",
          daily |-> "daily-alerts-scan"]

JobsRun == focus \in DOMAIN JobOf

Servers == IF focus = "vehicles" THEN {CHOOSE p \in Processes : TRUE} ELSE Processes

Watched == IF focus = "vehicles" THEN TripVehicles ELSE {CHOOSE v \in TripVehicles : TRUE}

\* Bound: the registration numbers that are changed, one in a behaviour.
MaxRenames == 1

Quiet == \A p \in Servers : boot[p].pc = "up"

TrackingFocus ==
    /\ TrackingAct
    /\ \A i \in 2..Len(Rows) : Rows[i] \in DOMAIN gps' => Rows[i - 1] \in DOMAIN gps'
    /\ \A i \in 2..Len(Slots) :
         lreq[Slots[i]] = TrackingIdle /\ lreq'[Slots[i]] # TrackingIdle
           => lreq[Slots[i - 1]] # TrackingIdle

ScheduleFocus ==
    \E p \in Processes : ProcessStep(p) /\ UNCHANGED <<waiting, worker>>

Boots == \E p \in Servers : ScheduleStep(p) /\ UNCHANGED monitorVars

JobsFocus ==
    \/ \E p \in Servers : RunStep(p) \/ JobFails(p) \/ (ProcessStep(p) /\ ~Stops(p))
    \/ BecomesDue(JobOf[focus])

DetectionFocus ==
    \/ TripsChange /\ onTrip' \subseteq Watched
    \/ \E v \in Watched : VehicleReports(v) \/ LocationAges(v) \/ AlertSettled(v)
    \/ \E v \in Watched : VehicleRenamed(v) /\ Cardinality(renamed) < MaxRenames

ScanFocus == TenantsChange \/ ExpiryChanges \/ ScanByHand

FocusInit ==
    /\ Init /\ focus \in Parts /\ number = Registered
    /\ JobsRun => repeatables = {}
    /\ focus = "tracking" => repeatables = JobNames

FocusNext ==
    /\ \/ focus = "tracking" /\ TrackingFocus
       \/ /\ UNCHANGED trackingVars
          /\ \/ focus = "schedule" /\ ScheduleFocus
             \/ JobsRun /\ (Boots \/ (Quiet /\ JobsFocus)) /\ faults' <= 1
             \/ focus \in {"overlap", "vehicles"} /\ Quiet /\ DetectionFocus
             \/ focus = "daily" /\ Quiet /\ ScanFocus
    /\ UNCHANGED focus

\* What is fair of JobsSpec and belongs to the part.
FocusFairness ==
    /\ \A p \in Processes :
         /\ WF_jobsVars(/\ focus # "tracking" /\ p \in Servers
                        /\ ScheduleStep(p) /\ UNCHANGED monitorVars)
         /\ WF_jobsVars(RunStep(p))
    /\ WF_jobsVars(JobsRun /\ BecomesDue(JobOf[focus]))
    /\ SF_jobsVars(/\ JobsRun
                   /\ \E p \in Servers : ProcessJob(p, JobOf[focus])
                   /\ UNCHANGED monitorVars)

FocusSpec == FocusInit /\ [][FocusNext]_<<vars, focus>> /\ FocusFairness

=============================================================================
