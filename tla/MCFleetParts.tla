----------------------------- MODULE MCFleetParts -----------------------------
(***************************************************************************)
(* The fleet instantiated for TLC, one part of it at a time: focus, chosen *)
(* at the start, says whose requests are made, so that the parts' state    *)
(* spaces add up and do not multiply.  Each behaviour is one of the fleet, *)
(* in which the rest happens not to be asked.                              *)
(***************************************************************************)
EXTENDS MCFleet

VARIABLE focus

\* The trips start from a fleet in use, with one assignment at most.
FocusInit ==
    /\ focus \in {"trips", "race"}
    /\ IF focus = "trips" THEN Seeded /\ Cardinality(DOMAIN assignment) <= 1 ELSE Init

FocusNext ==
    /\ \/ focus = "trips" /\ (TripsAct \/ Tick)
       \/ focus = "race" /\ AssignmentsAct
    /\ UNCHANGED focus

FocusSpec == FocusInit /\ [][FocusNext]_<<vars, focus>>

=============================================================================
