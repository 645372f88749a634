------------------------------ MODULE Monitoring ------------------------------
(***************************************************************************)
(* Locations and the background jobs that look at them: a GpsLocation row  *)
(* that saveLocation inserts is the last location the detection finds.     *)
(***************************************************************************)
EXTENDS Tracking, Jobs

ASSUME MonitoringAssumption == Tracked \subseteq TripVehicles

vars == <<trackingVars, jobsVars>>

Init == TrackingInit /\ JobsInit

TrackingAct ==
    /\ TrackingNext
    /\ \/ gps' = gps /\ UNCHANGED jobsVars
       \/ \E l \in DOMAIN gps' \ DOMAIN gps : VehicleReports(gps'[l].vehicle)

\* JobsNext has the locations of all vehicles, beyond the rows that Tracking follows.
JobsAct == JobsNext /\ UNCHANGED trackingVars

Next == TrackingAct \/ JobsAct

Spec == Init /\ [][Next]_vars

TypeOK == TrackingTypeOK /\ JobsTypeOK

=============================================================================
